------------------------ MODULE MCServices_run_proofs -----------------------
(***************************************************************************)
(* What the resources keep in every behaviour of the services              *)
(* (MCResources_proofs says what their steps keep), and the runs: the      *)
(* runner of units with its checkpoint, and the calls of the model that a  *)
(* run makes, whose responses are cached.                                  *)
(***************************************************************************)
EXTENDS MCServices, MCResources_proofs

---------------------------------------------------------------------------
(* The resources *)

(* A behaviour of the alerts begins as CostAlert does, and steps so.       *)
LEMMA AlertStep ==
  ASSUME part = "alert", [Next]_allVars
  PROVE  part' = "alert" /\ (Alert!Next \/ UNCHANGED <<v1, v2, v3, v4, v5, v6>>)
  BY DEF Next, allVars

LEMMA AlertInvAlways == ASSUME Lease \in Nat \ {0} PROVE Spec => []AlertInv
<1>1. Init => AlertInv
  <2>1. part = "alert" /\ Init => Alert!Init
    BY DEF Init
  <2>2. Alert!Init => AlertTyped /\ AlertLooksBack
    BY DEF Alert!Init, AlertTyped, AlertEvents, AlertRecords, AlertLooksBack, Alert!Idle,
           Alert!NoEvent
  <2>3. Alert!Init => Alert!LeaseIsExclusive
    BY DEF Alert!Init, Alert!LeaseIsExclusive, Alert!Holds, Alert!Idle
  <2> QED
    BY <2>1, <2>2, <2>3 DEF AlertInv
<1>2. ASSUME AlertInv, [Next]_allVars PROVE AlertInv'
  <2> SUFFICES ASSUME part' = "alert"
               PROVE  (AlertTyped /\ AlertLooksBack /\ Alert!LeaseIsExclusive)'
    BY DEF AlertInv
  <2>0. part = "alert"
    BY <1>2 DEF Next, allVars
  <2>1. CASE Alert!Next
    BY <1>2, <2>0, <2>1, AlertTypes, AlertExclusive DEF AlertInv
  <2>2. CASE UNCHANGED <<v1, v2, v3, v4, v5, v6>>
    BY <1>2, <2>0, <2>2 DEF AlertInv, AlertTyped, AlertLooksBack, Alert!LeaseIsExclusive,
                            Alert!Holds
  <2> QED
    BY <1>2, <2>0, <2>1, <2>2, AlertStep
<1> QED
  BY <1>1, <1>2, PTL DEF Spec

(* However many workers cross an alert's threshold, die and take over: two *)
(* of them never deliver it under good leases, and a good lease is on file *)
(* (_claim, _finish of api/services/cost_alert_service.py).                *)
THEOREM OneLease == ASSUME Lease \in Nat \ {0} PROVE Spec => []LeaseIsExclusive
<1>1. AlertInv => LeaseIsExclusive
  BY DEF AlertInv, LeaseIsExclusive
<1> QED
  BY AlertInvAlways, <1>1, PTL

LEMMA SandboxStep ==
  ASSUME part = "sandbox", [Next]_allVars
  PROVE  \/ Sandbox!Next
         \/ UNCHANGED <<v1, v2, v3, v4, v5, v6, v7, v8, v9>>
  BY DEF Next, allVars

LEMMA SandboxInvAlways ==
  ASSUME Cap \in Nat, Chunk \in Nat \ {0} PROVE Spec => []SandboxInv
<1>1. Init => SandboxInv
  <2>1. part = "sandbox" /\ Init => Sandbox!Init
    BY DEF Init
  <2>2. Sandbox!Init => SandboxTyped
    <3> SUFFICES ASSUME Sandbox!Init PROVE SandboxTyped
      OBVIOUS
    <3>1. v1 \in [Sandbox!Procs -> {"unborn", "alive", "dead"}]
      BY DEF Sandbox!Init
    <3>2. v2 \in [Sandbox!Pipes -> SUBSET Sandbox!Procs]
      BY DEF Sandbox!Init, Sandbox!Procs
    <3>3. v3 \in [Sandbox!Pipes -> Nat] /\ v4 \in [Sandbox!Pipes -> Nat]
      BY DEF Sandbox!Init
    <3> QED
      BY <3>1, <3>2, <3>3 DEF SandboxTyped, Sandbox!Init
  <2>3. Sandbox!Init => PumpsAreTrue /\ CallerIsTrue
    BY DEF Sandbox!Init, PumpsAreTrue, CallerIsTrue, Sandbox!Procs, Sandbox!Pipes,
           Sandbox!Alive, Sandbox!Total
  <2> QED
    BY <2>1, <2>2, <2>3 DEF SandboxInv
<1>2. ASSUME SandboxInv, [Next]_allVars PROVE SandboxInv'
  <2> SUFFICES ASSUME part' = "sandbox" PROVE (SandboxTyped /\ PumpsAreTrue /\ CallerIsTrue)'
    BY DEF SandboxInv
  <2>0. part = "sandbox"
    BY <1>2 DEF Next, allVars
  <2>1. CASE Sandbox!Next
    BY <1>2, <2>0, <2>1, SandboxTypes, SandboxClean DEF SandboxInv
  <2>2. CASE UNCHANGED <<v1, v2, v3, v4, v5, v6, v7, v8, v9>>
    BY <1>2, <2>0, <2>2 DEF SandboxInv, SandboxTyped, PumpsAreTrue, CallerIsTrue, SandboxDone,
                            Sandbox!Alive, Sandbox!Total
  <2> QED
    BY <1>2, <2>0, <2>1, <2>2, SandboxStep
<1> QED
  BY <1>1, <1>2, PTL DEF Spec

(* However the processes of a command fork, write, close and end, and      *)
(* wherever the pumps' reads fall in the caller's round: no process        *)
(* outlives the run, a success has read all that was written, within the   *)
(* cap, and who is blamed for its output was beyond it (run_bounded of     *)
(* src/utils/process_manager.py).                                          *)
THEOREM CommandIsClean ==
  ASSUME Cap \in Nat, Chunk \in Nat \ {0} PROVE Spec => []RunIsClean
<1>1. SandboxInv => RunIsClean
  <2> SUFFICES ASSUME SandboxInv, part = "sandbox" PROVE Sandbox!RunIsClean
    BY DEF RunIsClean
  <2>1. SandboxTyped /\ PumpsAreTrue /\ CallerIsTrue
    BY DEF SandboxInv
  <2>2. v9 = "ok" => v4 = v3
    <3>1. v9 = "ok" => \A q \in Sandbox!Pipes : v4[q] = v3[q]
      BY <2>1 DEF PumpsAreTrue, CallerIsTrue, SandboxDone
    <3> QED
      BY <2>1, <3>1 DEF SandboxTyped
  <2>3. v9 = "ok" => ~(Sandbox!Total > Cap)
    BY <2>1 DEF PumpsAreTrue, CallerIsTrue, SandboxDone
  <2>4. Sandbox!Total \in Nat
    BY <2>1 DEF Sandbox!Total, SandboxTyped, Sandbox!Pipes
  <2> QED
    BY <2>1, <2>2, <2>3, <2>4 DEF Sandbox!RunIsClean, CallerIsTrue, PumpsAreTrue, SandboxDone
<1> QED
  BY SandboxInvAlways, <1>1, PTL

LEMMA PubStep ==
  ASSUME part = "publication", [Next]_allVars
  PROVE  Publication!Next \/ UNCHANGED <<v1, v2, v3, v4>>
  BY DEF Next, allVars

LEMMA PubInvAlways == Spec => []PubInv
<1>1. Init => PubInv
  <2>1. part = "publication" /\ Init => Publication!Init
    BY DEF Init
  <2>2. Publication!Init => PubTyped /\ v2.status = "none"
    BY DEF Publication!Init, Publication!Nowhere, PubTyped, PubRecords, Snapshots
  <2> QED
    BY <2>1, <2>2 DEF PubInv
<1>2. ASSUME PubInv, [Next]_allVars PROVE PubInv'
  <2> SUFFICES ASSUME part' = "publication"
               PROVE  PubTyped' /\ (v2'.status = "published" => v2'.done = v2'.rev)
    BY DEF PubInv
  <2>0. part = "publication"
    BY <1>2 DEF Next, allVars
  <2>1. PubTyped /\ (v2.status = "published" => v2.done = v2.rev)
    BY <1>2, <2>0 DEF PubInv
  <2>2. CASE UNCHANGED <<v1, v2, v3, v4>>
    BY <2>1, <2>2 DEF PubTyped
  <2>3. CASE Publication!Next
    <3>1. v1' \in Snapshots /\ PubMove
      BY <2>1, <2>3, PubMoves
    <3> QED
      BY <2>1, <3>1, PubEffect DEF PubTyped
  <2> QED
    BY <1>2, <2>0, <2>2, <2>3, PubStep
<1> QED
  BY <1>1, <1>2, PTL DEF Spec

(* Whatever fails late, a revision that is published and whose file can be *)
(* read stays published until a newer one is staged (_fail, retry and      *)
(* _notify of api/services/artifact_service.py).                           *)
THEOREM GoodStaysGood == Spec => LateFailureIsHarmless
<1>1. ASSUME PubInv, [Next]_allVars
      PROVE  [part = "publication" => Publication!GoodStaysPublished]_allVars
  <2> SUFFICES ASSUME part = "publication", v2.status = "published", Publication!ActiveIsGood,
                      v2'.rev = v2.rev
               PROVE  v2'.status = "published"
    BY DEF Publication!GoodStaysPublished
  <2>1. PubTyped /\ v2.done = v2.rev
    BY <1>1 DEF PubInv
  <2>2. PubMove
    BY <1>1, <2>1, PubStep, PubMoves DEF PubMove
  <2> QED
    BY <2>1, <2>2, PubEffect DEF PubTyped, Renamed
<1> QED
  BY <1>1, PubInvAlways, PTL DEF Spec, LateFailureIsHarmless

LEMMA PublicationFineAlways == ASSUME FilesAreGiven PROVE Spec => []PublicationFine
<1>1. ASSUME Init PROVE PublicationFine
  BY <1>1, PublicationStarts DEF Init, PublicationFine
<1>2. ASSUME PublicationFine, [Next]_allVars PROVE PublicationFine'
  <2> SUFFICES ASSUME part' = "publication" PROVE PublicationFits'
    BY DEF PublicationFine
  <2>0. part = "publication" /\ PublicationFits
    BY <1>2 DEF Next, allVars, PublicationFine
  <2>1. CASE UNCHANGED allVars
    BY <2>0, <2>1 DEF allVars, PublicationFits, PubTyped, FileTable, PublishersFit
  <2>2. CASE Next
    BY <2>0, <2>2, PublicationSteps DEF Next
  <2> QED
    BY <1>2, <2>1, <2>2
<1> QED
  BY <1>1, <1>2, PTL DEF Spec

LEMMA UploadsAct ==
  ASSUME part = "uploads", [Next]_allVars
  PROVE  Uploads!Next \/ UNCHANGED <<v1, v2, v3, v4, v5, v6, v7, v8, v9, v10>>
  BY DEF Next, allVars

LEMMA UploadsFineAlways == ASSUME UploadsAreGiven PROVE Spec => []UploadsFine
<1>1. Init => UploadsFine
  BY UploadsStart DEF Init, UploadsFine
<1>2. UploadsFine /\ [Next]_allVars => UploadsFine'
  <2> SUFFICES ASSUME UploadsFine, [Next]_allVars, part' = "uploads"
               PROVE  UploadsFit'
    BY DEF UploadsFine
  <2>1. part = "uploads"
    BY DEF Next, allVars
  <2>2. UploadsFit
    BY <2>1 DEF UploadsFine
  <2>3. CASE Uploads!Next
    BY <2>2, <2>3, UploadSteps
  <2>4. CASE UNCHANGED <<v1, v2, v3, v4, v5, v6, v7, v8, v9, v10>>
    BY <2>2, <2>4 DEF UploadsFit
  <2> QED
    BY <2>1, <2>3, <2>4, UploadsAct
<1> QED
  BY <1>1, <1>2, PTL DEF Spec

LEMMA DataActs ==
  ASSUME part = "dataset", [Next]_allVars
  PROVE  Dataset!Next \/ UNCHANGED <<v1, v2, v3, v4, v5>>
  BY DEF Next, allVars

LEMMA DataFineAlways == ASSUME CommandsAreGiven PROVE Spec => []DataFine
<1>1. Init => DataFine
  BY DataStarts DEF Init, DataFine
<1>2. DataFine /\ [Next]_allVars => DataFine'
  <2> SUFFICES ASSUME DataFine, [Next]_allVars, part' = "dataset"
               PROVE  DataFits'
    BY DEF DataFine
  <2>1. part = "dataset"
    BY DEF Next, allVars
  <2>2. DataFits
    BY <2>1 DEF DataFine
  <2>3. CASE Dataset!Next
    BY <2>2, <2>3, LoadKeeps, RefusedKeeps, LoadRawKeeps, OpenTempKeeps, WriteKeeps,
       ReplaceKeeps, MergeKeepsAll DEF Dataset!Next
  <2>4. CASE UNCHANGED <<v1, v2, v3, v4, v5>>
    BY <2>2, <2>4 DEF DataFits
  <2> QED
    BY <2>1, <2>3, <2>4, DataActs
<1> QED
  BY <1>1, <1>2, PTL DEF Spec

LEMMA UserStep ==
  ASSUME part = "user", [Next]_allVars
  PROVE  User!Next \/ UNCHANGED <<v1, v2, v3, v4, v5, v6, v7, v8, v9>>
  BY DEF Next, allVars

LEMMA UserInvAlways == ASSUME LimitsAreGiven PROVE Spec => []UserInv
<1>1. Init => UserInv
  <2>1. part = "user" /\ Init => User!Init
    BY DEF Init
  <2>2. User!Init => UserTyped
    BY UserIdle DEF User!Init, UserTyped, LimitsAreGiven, Statuses
  <2>3. User!Init => Numbered /\ RoomIsHeld
    BY FS_EmptySet DEF User!Init, Numbered, RoomIsHeld, User!Idle
  <2>4. User!Init => User!TokenIsSpentOnce /\ User!CapacityIsKept
    <3>1. User!Init => \A t \in Tasks : v7[t] = "none"
      BY DEF User!Init
    <3>2. User!Init => User!Alive = {}
      BY <3>1 DEF User!Alive
    <3>3. User!Init => User!CapacityIsKept
      BY <3>2, FS_EmptySet, UserCounts DEF User!CapacityIsKept, LimitsAreGiven
    <3>4. User!Init => User!TokenIsSpentOnce
      <4>1. User!Init => v1.hash = 0 /\ \A t \in 0 .. MaxTokens : v2[t] = 0
        BY DEF User!Init
      <4> QED
        BY <4>1 DEF User!TokenIsSpentOnce
    <3> QED
      BY <3>3, <3>4
  <2>5. User!Init => User!QuotaIsKept
    <3>1. User!Init => v5 = {} /\ \A d : {c \in v5 : c[1] = d} = {}
      BY DEF User!Init
    <3> QED
      BY <3>1, FS_EmptySet, UserCounts DEF User!Init, User!QuotaIsKept, LimitsAreGiven
  <2> QED
    BY <2>1, <2>2, <2>3, <2>4, <2>5 DEF UserInv, UserHolds
<1>2. ASSUME UserInv, [Next]_allVars PROVE UserInv'
  <2> SUFFICES ASSUME part' = "user"
               PROVE  (UserTyped /\ Numbered /\ RoomIsHeld /\ UserHolds)'
    BY DEF UserInv
  <2>0. part = "user"
    BY <1>2 DEF Next, allVars
  <2>1. CASE User!Next
    BY <1>2, <2>0, <2>1, UserNext DEF UserInv
  <2>2. CASE UNCHANGED <<v1, v2, v3, v4, v5, v6, v7, v8, v9>>
    BY <1>2, <2>0, <2>2 DEF UserInv, UserTyped, Numbered, RoomIsHeld, UserHolds, User!Alive,
         User!TokenIsSpentOnce, User!QuotaIsKept, User!CapacityIsKept
  <2> QED
    BY <1>2, <2>0, <2>1, <2>2, UserStep
<1> QED
  BY <1>1, <1>2, PTL DEF Spec

LEMMA KeysStep ==
  ASSUME part = "keys", [Next]_allVars
  PROVE  Keyring!Next \/ UNCHANGED <<v1, v2, v3, v4, v5>>
  BY DEF Next, allVars

LEMMA KeysInvAlways == ASSUME ListsAreGiven PROVE Spec => []KeysInv
<1>1. Init => KeysInv
  <2>1. part = "keys" /\ Init => Keyring!Init
    BY DEF Init
  <2>2. Keyring!Init => KeysTyped /\ KeysAreFair /\ Keyring!VerifiedIsAccepted
    <3> SUFFICES ASSUME Keyring!Init PROVE KeysTyped /\ KeysAreFair /\ Keyring!VerifiedIsAccepted
      OBVIOUS
    <3>1. v1 = [cipher |-> 0, verified |-> FALSE, checks |-> 0] /\ v2 = 0
          /\ v5 \in {"plain", "cursor"}
      BY DEF Keyring!Init, Keyring!NoKey
    <3>2. v4 = [p \in Askers |-> Keyring!AtRest]
      BY DEF Keyring!Init
    <3>3. Keyring!AtRest \in KeyAskers /\ Fair(Keyring!AtRest)
      BY KeysRest DEF KeyAskers, Fair
    <3> QED
      BY <3>1, <3>2, <3>3 DEF KeysTyped, KeysAreFair, Keyring!VerifiedIsAccepted
  <2> QED
    BY <2>1, <2>2 DEF KeysInv
<1>2. ASSUME KeysInv, [Next]_allVars PROVE KeysInv'
  <2> SUFFICES ASSUME part' = "keys"
               PROVE  (KeysTyped /\ KeysAreFair /\ Keyring!VerifiedIsAccepted)'
    BY DEF KeysInv
  <2>0. part = "keys"
    BY <1>2 DEF Next, allVars
  <2>1. CASE Keyring!Next
    BY <1>2, <2>0, <2>1, KeysNext DEF KeysInv
  <2>2. CASE UNCHANGED <<v1, v2, v3, v4, v5>>
    BY <1>2, <2>0, <2>2 DEF KeysInv, KeysTyped, KeysAreFair, Fair, OnFile,
                            Keyring!VerifiedIsAccepted
  <2> QED
    BY <1>2, <2>0, <2>1, <2>2, KeysStep
<1> QED
  BY <1>1, <1>2, PTL DEF Spec

(* Whoever asks at once, through the turn of the day and the owner's       *)
(* logout: a refresh token is exchanged once, the rows of the quota tell   *)
(* the calls that were admitted and no limit is passed, no more            *)
(* evaluations are alive than may be (rotate, reserve_user_api_call,       *)
(* _check_evaluation_capacity); a key is called verified only of a secret  *)
(* that was accepted, and a list of models is read with the secret on file *)
(* (record_verification, models).                                          *)
THEOREM AccountIsKept ==
  ASSUME LimitsAreGiven, ListsAreGiven PROVE Spec => []AccountHolds
<1>1. UserInv /\ KeysInv => AccountHolds
  BY DEF UserInv, UserHolds, KeysInv, KeysAreFair, Fair, Keyring!ListIsHonest, AccountHolds
<1> QED
  BY UserInvAlways, KeysInvAlways, <1>1, PTL

LEMMA InboxStep ==
  ASSUME part = "inbox", [Next]_allVars
  PROVE  Inbox!Next \/ UNCHANGED <<v1, v2, v3, v4, v5, v6, v7>>
  BY DEF Next, allVars

LEMMA InboxInvAlways == ASSUME InboxIsGiven PROVE Spec => []InboxInv
<1>1. Init => InboxInv
  <2> SUFFICES ASSUME Inbox!Init PROVE InboxGood
    BY DEF Init, InboxInv
  <2>1. v1 = Cardinality(Standing) /\ v1 \in Nat /\ v4 = {} /\ v7 = {}
    BY InboxCounts, FS_CardinalityType DEF Inbox!Init, InboxIsGiven
  <2>2. /\ v2 \in [Inbox!Notes -> NoteRecords]
        /\ \A e \in Inbox!Notes : v2[e].state = IF e \in Standing THEN "kept" ELSE "none"
    BY DEF Inbox!Init, Inbox!NoNote, NoteRecords
  <2>3. v3 \in ViewRecords /\ v3.next = 0 /\ v3.time = 0
    BY DEF Inbox!Init, Inbox!Null, ViewRecords, KindsAsked
  <2>4. InboxTyped
    <3>1. Inbox!NoReq \in Requesting
      BY DEF Inbox!NoReq, Inbox!Null, Requesting, KindsAsked
    <3> QED
      BY <2>1, <2>2, <2>3, <3>1 DEF Inbox!Init, InboxTyped
  <2>5. DatedIsTrue
    BY <2>1, <2>2 DEF DatedIsTrue, InboxIsGiven
  <2>6. ShownIsTrue
    BY <2>1, <2>3 DEF ShownIsTrue, EndsAt
  <2>7. RequestsAreTrue
    BY <2>4, NothingAsked DEF Inbox!Init, RequestsAreTrue, PresentIsTrue
  <2> QED
    BY <2>4, <2>5, <2>6, <2>7 DEF InboxGood
<1>2. ASSUME InboxInv, [Next]_allVars PROVE InboxInv'
  <2> SUFFICES ASSUME part' = "inbox" PROVE InboxGood'
    BY DEF InboxInv
  <2>1. part = "inbox" /\ InboxGood
    BY <1>2 DEF Next, allVars, InboxInv
  <2>2. CASE Inbox!Next
    BY <2>1, <2>2, StageNoteIsTrue, CommitNoteIsTrue, ListIsTrue, PostIsTrue, ArriveIsTrue,
       LoadIsTrue, LoadMoreIsTrue, ChangeIsTrue DEF Inbox!Next
  <2>3. CASE UNCHANGED <<v1, v2, v3, v4, v5, v6, v7>>
    BY <2>1, <2>3 DEF InboxGood, InboxTyped, DatedIsTrue, ShownIsTrue, RequestsAreTrue,
       AskedIsTrue, PresentIsTrue, PageIsTrue, EndsAt, Told, Inbox!Visible
  <2> QED
    BY <1>2, <2>1, <2>2, <2>3, InboxStep
<1> QED
  BY <1>1, <1>2, PTL DEF Spec

(* However the answers overtake each other, transactions commit late and   *)
(* notices expire or are cleared in between: what is shown is of the kind  *)
(* asked for and has no gap down to its end, and a batch takes nothing     *)
(* that came after it was asked for (notifications.ts, list_notifications  *)
(* and _batch of api/routes/notifications.py).                             *)
THEOREM NoticesAreTrue == ASSUME InboxIsGiven PROVE Spec => []NotesAreTrue
<1>1. ASSUME InboxInv, part = "inbox" PROVE Inbox!NotesAreTrue
  <2>1. InboxTyped /\ DatedIsTrue /\ ShownIsTrue
    BY <1>1 DEF InboxInv, InboxGood
  <2>2. v4 \in SUBSET Nat /\ IsFiniteSet(v4) /\ Inbox!Visible \in SUBSET Nat
    BY <2>1, NotesAreNumbers, FS_Subset DEF InboxTyped
  <2>3. v4 # {} => Inbox!Oldest(v4) \in v4
    BY <2>2, EndsExist DEF Inbox!Oldest
  <2>4. ASSUME NEW e \in Inbox!Visible \ v4
        PROVE  \/ v2[e].late \/ ~Inbox!IsOf(e, v3.kind) \/ v4 = {}
               \/ \A s \in v4 : e > s
               \/ e < Inbox!Oldest(v4) /\ v3.next # Inbox!Null
    BY <2>1, <2>3 DEF ShownIsTrue, Told, Inbox!Null
  <2> QED
    BY <2>1, <2>4 DEF ShownIsTrue, DatedIsTrue, Inbox!NotesAreTrue
<1>2. InboxInv => NotesAreTrue
  BY <1>1 DEF NotesAreTrue
<1> QED
  BY <1>2, InboxInvAlways, PTL DEF Spec

LEMMA CacheActs == [Next]_allVars /\ part = "cache" => Answers!Next \/ UNCHANGED <<v1, v2, v3, v4, v5>>
  BY DEF Next, allVars

LEMMA CacheFineAlways == ASSUME CacheIsGiven PROVE Spec => []CacheFine
<1>1. Init => CacheFine
  BY CacheStarts DEF Init, CacheFine
<1>2. CacheFine /\ [Next]_allVars => CacheFine'
  <2> SUFFICES ASSUME CacheFine, [Next]_allVars, part' = "cache"
               PROVE  CacheFits'
    BY DEF CacheFine
  <2>1. part = "cache"
    BY DEF Next, allVars
  <2>2. CacheFits
    BY <2>1 DEF CacheFine
  <2>3. CASE Answers!Next
    BY <2>2, <2>3, CacheStepFits
  <2>4. CASE UNCHANGED <<v1, v2, v3, v4, v5>>
    BY <2>2, <2>4 DEF CacheFits
  <2> QED
    BY <2>1, <2>3, <2>4, CacheActs
<1> QED
  BY <1>1, <1>2, PTL DEF Spec

LEMMA IncrementalStep ==
  ASSUME part = "incremental", [Next]_allVars
  PROVE  Incremental!Next \/ UNCHANGED <<v1, v2, v3, v4, v5, v6, v7>>
  BY DEF Next, allVars

LEMMA IncrementalInvAlways == ASSUME BoundsAreGiven PROVE Spec => []IncrementalInv
<1>1. Init => IncrementalInv
  BY IncrementalInit DEF Init, IncrementalInv
<1>2. IncrementalInv /\ [Next]_allVars => IncrementalInv'
  <2> SUFFICES ASSUME IncrementalInv, [Next]_allVars, (part = "incremental")'
               PROVE  IncrementalGood'
    BY DEF IncrementalInv
  <2>1. part = "incremental"
    BY DEF Next, allVars
  <2>2. IncrementalGood
    BY <2>1 DEF IncrementalInv
  <2>3. Incremental!Next \/ UNCHANGED <<v1, v2, v3, v4, v5, v6, v7>>
    BY <2>1, IncrementalStep
  <2>4. CASE UNCHANGED <<v1, v2, v3, v4, v5, v6, v7>>
    <3>1. JobsKnown' = JobsKnown
      BY <2>4 DEF JobsKnown
    <3>2. Holders' = Holders
      BY <2>4, <3>1 DEF Holders, Items
    <3>3. IncrementalTyped'
      BY <2>2, <2>4 DEF IncrementalGood, IncrementalTyped
    <3>4. HoldersAgree'
      BY <2>2, <2>4, <3>2 DEF IncrementalGood, HoldersAgree
    <3>5. JobsAreTrue'
      BY <2>2, <3>1 DEF IncrementalGood, JobsAreTrue
    <3> QED
      BY <3>3, <3>4, <3>5 DEF IncrementalGood
  <2>5. ASSUME NEW p \in RunProblems, NEW v \in 0 .. MaxVersion, Incremental!Edit(p, v)
        PROVE  IncrementalGood'
    BY <2>2, <2>5, EditKeeps DEF BoundsAreGiven
  <2>6. ASSUME NEW q \in RunProcs, NEW l \in Incremental!StrategyLists, NEW m \in RunModels,
               Incremental!Begin(q, l, m)
        PROVE  IncrementalGood'
    BY <2>2, <2>6, BeginKeeps DEF BoundsAreGiven
  <2>7. ASSUME NEW q \in RunProcs, NEW r \in Incremental!RunIds, Incremental!Resume(q, r)
        PROVE  IncrementalGood'
    BY <2>2, <2>7, ResumeKeeps
  <2>8. ASSUME NEW q \in RunProcs, NEW cut \in BOOLEAN, Incremental!Evaluate(q, cut)
        PROVE  IncrementalGood'
    BY <2>2, <2>8, EvaluateKeeps
  <2>9. ASSUME NEW q \in RunProcs, Incremental!Refuse(q) PROVE IncrementalGood'
    BY <2>2, <2>9, RefuseKeeps
  <2>a. ASSUME NEW q \in RunProcs, NEW how, Incremental!Merge(q, how) PROVE IncrementalGood'
    BY <2>2, <2>a, MergeKeeps
  <2>b. ASSUME NEW q \in RunProcs, Incremental!SaveFirst(q) PROVE IncrementalGood'
    BY <2>2, <2>b, SaveFirstKeeps
  <2>c. ASSUME NEW q \in RunProcs, Incremental!SaveRest(q) PROVE IncrementalGood'
    BY <2>2, <2>c, SaveRestKeeps
  <2>d. ASSUME NEW q \in RunProcs, Incremental!Record(q) PROVE IncrementalGood'
    BY <2>2, <2>d, RecordKeeps
  <2>e. ASSUME NEW q \in RunProcs, Incremental!Crash(q) PROVE IncrementalGood'
    BY <2>2, <2>e, CrashKeeps
  <2> HIDE DEF IncrementalGood
  <2> QED
    BY <2>3, <2>4, <2>5, <2>6, <2>7, <2>8, <2>9, <2>a, <2>b, <2>c, <2>d, <2>e DEF Incremental!Next
<1> QED
  BY <1>1, <1>2, PTL DEF Spec

LEMMA ReuseIsAlwaysSound ==
  ASSUME BoundsAreGiven
  PROVE  Spec => [](part = "incremental" => Incremental!ReuseIsSound)
<1>1. ASSUME IncrementalGood PROVE Incremental!ReuseIsSound
  <2>1. Incremental!ReusedIsCurrent
    <3> SUFFICES ASSUME NEW q \in RunProcs, NEW s \in Incremental!StrategyNames,
                        NEW p \in RunProblems, v5[q].files[s][p] # Incremental!NoRow
                 PROVE  /\ v5[q].files[s][p].model = v5[q].model
                        /\ v5[q].files[s][p].torn
                           \/ v5[q].files[s][p].version = v5[q].print[p]
      BY DEF Incremental!ReusedIsCurrent
    <3>1. RowsAreOf(v5[q].files[s], v5[q])
      BY <1>1, JobsAre DEF JobIsTrue
    <3> QED
      BY <3>1 DEF RowsAreOf
  <2>2. Incremental!NeverASubset
    <3> SUFFICES ASSUME NEW q \in RunProcs, NEW s \in Incremental!ToSet(v5[q].strategies)
                 PROVE  /\ \A p \in v5[q].todo : ~v5[q].reports[s][p].reused
                        /\ (\E t \in Incremental!StrategyNames :
                              \E p \in Incremental!Rows(v5[q].reports[t]) : v5[q].reports[t][p].reused)
                           => Incremental!Present(v5[q].print) \ v5[q].todo
                                \subseteq Incremental!Rows(v5[q].reports[s])
      BY DEF Incremental!NeverASubset
    <3>1. JobIsTrue(v5[q])
      BY <1>1, JobsAre
    <3>2. \A t \in Incremental!StrategyNames :
            Incremental!Rows(v5[q].reports[t]) \subseteq RunProblems
      BY DEF Incremental!Rows
    <3> QED
      BY <3>1, <3>2 DEF JobIsTrue, Fresh
  <2>3. Incremental!HistoryIsTrue
    <3> SUFFICES ASSUME NEW i \in DOMAIN v2, NEW s \in Incremental!StrategyNames,
                        NEW p \in RunProblems, v3[v2[i].run][s][p] # Incremental!NoRow,
                        v3[v2[i].run][s] # Incremental!Broken
                 PROVE  /\ v3[v2[i].run][s][p].model = v2[i].model
                        /\ v3[v2[i].run][s][p].torn
                           \/ v3[v2[i].run][s][p].version = v2[i].print[p]
      BY DEF Incremental!HistoryIsTrue
    <3>1. v2[i] \in Holders
      BY DEF Holders, Items
    <3>2. RowsAreOf(v3[v2[i].run][s], v2[i])
      BY <1>1, <3>1 DEF IncrementalGood, HoldersAgree
    <3> QED
      BY <3>2 DEF RowsAreOf
  <2> QED
    BY <2>1, <2>2, <2>3 DEF Incremental!ReuseIsSound
<1>2. IncrementalInv => (part = "incremental" => Incremental!ReuseIsSound)
  BY <1>1 DEF IncrementalInv
<1> QED
  BY <1>2, IncrementalInvAlways, PTL

(* What is recorded as published is what the registry serves, whatever     *)
(* publications, failures, deaths and requests of the owner lie between,   *)
(* and deleted content stays deleted (publish, retry, delete_file); an     *)
(* upload that is listed or being imported is stored, but for the three    *)
(* kinds of upload that the program is known to lose (_persist, cleanup);  *)
(* an import keeps what it does not overwrite, and a deduplication each    *)
(* problem once, when no other command was at the file meanwhile           *)
(* (persist_dataset, run_problems_deduplicate_command).                    *)
THEOREM RegistryHolds ==
  ASSUME FilesAreGiven, UploadsAreGiven, CommandsAreGiven PROVE Spec => []RegistryIsTrue
<1>1. PublicationFine /\ UploadsFine /\ DataFine => RegistryIsTrue
  BY PublicationGives, UploadsGive, DataGives
     DEF PublicationFine, UploadsFine, DataFine, RegistryIsTrue
<1> QED
  BY PublicationFineAlways, UploadsFineAlways, DataFineAlways, <1>1, PTL

---------------------------------------------------------------------------
(* The runner of units *)

(* Sequences: their elements, and that none is named twice.                *)
Elems(s) == {s[i] : i \in DOMAIN s}
Apart(s) == \A i, j \in DOMAIN s : s[i] = s[j] => i = j

LEMMA ElemsAre == \A s : Runner!ToSet(s) = Elems(s) /\ (Runner!IsInjective(s) <=> Apart(s))
  BY DEF Runner!ToSet, Elems, Runner!IsInjective, Apart

LEMMA AppendElems ==
  ASSUME NEW S, NEW s \in Seq(S), NEW e \in S
  PROVE  /\ Append(s, e) \in Seq(S) /\ Elems(Append(s, e)) = Elems(s) \cup {e}
         /\ Apart(s) /\ e \notin Elems(s) => Apart(Append(s, e))
<1> DEFINE t == Append(s, e)
<1>1. /\ t \in Seq(S) /\ DOMAIN s = 1 .. Len(s) /\ DOMAIN t = 1 .. Len(s) + 1 /\ Len(s) \in Nat
      /\ t[Len(s) + 1] = e /\ \A i \in 1 .. Len(s) : t[i] = s[i]
  OBVIOUS
<1> HIDE DEF t
<1>2. Elems(t) = Elems(s) \cup {e}
  BY <1>1 DEF Elems
<1>3. ASSUME Apart(s), e \notin Elems(s) PROVE Apart(t)
  <2> SUFFICES ASSUME NEW i \in DOMAIN t, NEW j \in DOMAIN t, t[i] = t[j] PROVE i = j
    BY DEF Apart
  <2>1. \A k \in DOMAIN s : s[k] # e
    BY <1>3 DEF Elems
  <2> QED
    BY <1>1, <1>3, <2>1 DEF Apart
<1> QED
  BY <1>1, <1>2, <1>3 DEF t

LEMMA ConcatElems ==
  ASSUME NEW S, NEW s \in Seq(S), NEW t \in Seq(S)
  PROVE  /\ s \o t \in Seq(S) /\ Elems(s \o t) = Elems(s) \cup Elems(t)
         /\ Apart(s) /\ Apart(t) /\ Elems(s) \cap Elems(t) = {} => Apart(s \o t)
<1> DEFINE r == s \o t
<1>1. /\ r \in Seq(S) /\ DOMAIN s = 1 .. Len(s) /\ DOMAIN t = 1 .. Len(t)
      /\ DOMAIN r = 1 .. Len(s) + Len(t) /\ Len(s) \in Nat /\ Len(t) \in Nat
      /\ \A i \in 1 .. Len(s) + Len(t) : r[i] = IF i <= Len(s) THEN s[i] ELSE t[i - Len(s)]
  OBVIOUS
<1> HIDE DEF r
<1>2. Elems(r) = Elems(s) \cup Elems(t)
  <2>1. Elems(r) \subseteq Elems(s) \cup Elems(t)
    <3> SUFFICES ASSUME NEW i \in DOMAIN r PROVE r[i] \in Elems(s) \cup Elems(t)
      BY DEF Elems
    <3>1. CASE i <= Len(s)
      <4>1. i \in DOMAIN s /\ r[i] = s[i]
        BY <1>1, <3>1
      <4> QED
        BY <4>1 DEF Elems
    <3>2. CASE ~(i <= Len(s))
      <4>1. i - Len(s) \in DOMAIN t /\ r[i] = t[i - Len(s)]
        BY <1>1, <3>2
      <4> QED
        BY <4>1 DEF Elems
    <3> QED
      BY <3>1, <3>2
  <2>2. \A i \in 1 .. Len(s) : i \in DOMAIN r /\ r[i] = s[i]
    BY <1>1
  <2>3. \A i \in 1 .. Len(t) : i + Len(s) \in DOMAIN r /\ r[i + Len(s)] = t[i]
    BY <1>1
  <2>4. Elems(s) \subseteq Elems(r)
    BY <1>1, <2>2 DEF Elems
  <2>5. Elems(t) \subseteq Elems(r)
    BY <1>1, <2>3 DEF Elems
  <2> QED
    BY <2>1, <2>4, <2>5
<1>3. ASSUME Apart(s), Apart(t), Elems(s) \cap Elems(t) = {} PROVE Apart(r)
  <2> SUFFICES ASSUME NEW i \in DOMAIN r, NEW j \in DOMAIN r, r[i] = r[j] PROVE i = j
    BY DEF Apart
  <2>1. \A a \in 1 .. Len(s), b \in 1 .. Len(t) : s[a] # t[b]
    <3>1. \A a \in 1 .. Len(s) : s[a] \in Elems(s)
      BY <1>1 DEF Elems
    <3>2. \A b \in 1 .. Len(t) : t[b] \in Elems(t)
      BY <1>1 DEF Elems
    <3> QED
      BY <1>3, <3>1, <3>2
  <2>2. CASE i <= Len(s) /\ j <= Len(s)
    BY <1>1, <1>3, <2>2 DEF Apart
  <2>3. CASE i > Len(s) /\ j > Len(s)
    <3>1. i - Len(s) \in DOMAIN t /\ j - Len(s) \in DOMAIN t /\ t[i - Len(s)] = t[j - Len(s)]
      BY <1>1, <2>3
    <3>2. i - Len(s) = j - Len(s)
      BY <1>3, <3>1 DEF Apart
    <3> QED
      BY <1>1, <3>2
  <2>4. CASE i <= Len(s) /\ j > Len(s)
    BY <1>1, <2>1, <2>4
  <2>5. CASE i > Len(s) /\ j <= Len(s)
    BY <1>1, <2>1, <2>5
  <2> QED
    BY <1>1, <2>2, <2>3, <2>4, <2>5
<1> QED
  BY <1>1, <1>2, <1>3 DEF r

LEMMA RunnerCounts == \A S : Runner!Cardinality(S) = Cardinality(S)
  BY DEF Runner!Cardinality, Cardinality

(* Units in their order: each once.                                        *)
LEMMA InOrderIs ==
  ASSUME NUnits \in Nat, NEW S \in SUBSET Runner!Units
  PROVE  /\ Runner!InOrder(S) \in Seq(Runner!Units)
         /\ Apart(Runner!InOrder(S)) /\ Elems(Runner!InOrder(S)) = S
<1> DEFINE n == Cardinality(S)
           s == Runner!InOrder(S)
<1>1. S \in SUBSET Nat /\ IsFiniteSet(S) /\ n \in Nat
  <2>1. Runner!Units \in SUBSET Nat /\ IsFiniteSet(Runner!Units)
    BY FS_Interval DEF Runner!Units
  <2>2. IsFiniteSet(S)
    BY <2>1, FS_Subset
  <2> QED
    BY <2>1, <2>2, FS_CardinalityType
<1>2. s \in [1 .. n -> S] /\ \A i, j \in 1 .. n : i < j => s[i] < s[j]
  <2>1. \E t \in [1 .. n -> S] : \A i, j \in 1 .. n : i < j => t[i] < t[j]
    BY <1>1, OrderExists
  <2> QED
    BY <2>1, RunnerCounts DEF Runner!InOrder
<1> HIDE DEF s, n
<1>3. \A i, j \in 1 .. n : s[i] = s[j] => i = j
  <2> SUFFICES ASSUME NEW i \in 1 .. n, NEW j \in 1 .. n, s[i] = s[j], i # j PROVE FALSE
    OBVIOUS
  <2>1. s[i] \in Nat /\ s[j] \in Nat
    BY <1>1, <1>2
  <2>2. i < j \/ j < i
    BY <1>1
  <2> QED
    BY <1>2, <2>1, <2>2
<1>4. s \in Seq(Runner!Units) /\ DOMAIN s = 1 .. n
  <2>1. s \in [1 .. n -> Runner!Units]
    BY <1>2
  <2> QED
    BY <1>1, <2>1, SeqDef
<1>5. \A u \in S : \E i \in 1 .. n : s[i] = u
  <2>1. s \in Injection(1 .. n, S)
    BY <1>2, <1>3 DEF Injection, IsInjective
  <2>2. IsFiniteSet(1 .. n) /\ Cardinality(1 .. n) = n
    BY <1>1, FS_Interval
  <2>3. s \in Surjection(1 .. n, S)
    BY <1>1, <2>1, <2>2, FS_Injection DEF n
  <2> QED
    BY <2>3 DEF Surjection
<1>6. Apart(s) /\ Elems(s) = S
  BY <1>2, <1>3, <1>4, <1>5 DEF Apart, Elems
<1> QED
  BY <1>4, <1>6 DEF s

(* What the runner knows of a unit: where it is, what is saved of it, and  *)
(* what that says once the execution is over.                              *)
UnitStates == {"none", "queued", "running", "saving", "done", "skipped", "raised", "got"}

RunnerKinds == {"experiment", "abtest", "suite"}

RunnerTyped ==
  /\ v1 \in RunnerKinds
  /\ v3 \in [Runner!Units -> [run : Nat, paid : BOOLEAN]]
  /\ v4 \in Seq(Runner!Units) /\ v5 \in Seq(Runner!Units)
  /\ v6 \in [Runner!Units -> UnitStates]
  /\ v7 \in {"out", "run", "raise", "verdict"}
  /\ v8 \in Nat /\ (v7 # "out" => v8 >= 1)
  /\ v10 \in BOOLEAN /\ v11 \in BOOLEAN /\ (v1 = "suite" => ~v11)

(* Neither list names a unit twice, nor one that is not saved.             *)
ListsAreTrue ==
  /\ Apart(v4) /\ \A u \in Elems(v4) : Runner!IsSaved(u)
  /\ Apart(v5) /\ \A u \in Elems(v5) : Runner!IsSaved(u) /\ (v7 # "out" => v6[u] = "got")

(* A thread has only what is not saved; what an experiment has not had yet *)
(* is not saved either; what was left out is remembered.                   *)
UnitIsTrue(u) ==
  /\ v6[u] = "done" => Runner!IsSaved(u)
  /\ v6[u] = "got" => u \in Elems(v5) \/ v10
  /\ v6[u] = "skipped" => v10
  /\ v6[u] \in {"running", "saving"} => ~Runner!IsSaved(u)
  /\ v1 = "experiment" /\ v7 # "out" /\ v6[u] \in {"none", "queued"} => ~Runner!IsSaved(u)
  /\ v6[u] = "queued" => v1 # "suite"
  /\ v7 = "out" => v6[u] \notin {"queued", "running", "saving"}
  /\ v7 = "verdict" => v6[u] \in {"none", "got"} /\ (~v10 => v6[u] = "got")
  /\ v3[u].run <= v8
  /\ Runner!IsSaved(u) /\ v3[u].run = v8 /\ ~v11 => v3[u].paid
UnitsAreTrue == \A u \in Runner!Units : UnitIsTrue(u)

(* Nothing is submitted any more only when that is remembered; and a       *)
(* verdict is about the execution that is over.                            *)
WholeRun ==
  /\ Elems(v5) = Runner!Units
  /\ \A u \in Runner!Units : Runner!IsSaved(u) /\ (v3[u].run = v8 => v3[u].paid)
VerdictIsTrue ==
  /\ v9 => v10
  /\ v7 # "out" => v14 = "none"
  /\ v14 = "completed" => WholeRun

RunnerGood == RunnerTyped /\ ListsAreTrue /\ UnitsAreTrue /\ VerdictIsTrue
RunnerInv  == part = "runner" => RunnerGood

LEMMA RunnerStep ==
  ASSUME part = "runner", [Next]_allVars
  PROVE  Runner!Next \/ UNCHANGED <<v1, v2, v3, v4, v5, v6, v7, v8, v9, v10, v11, v12, v13, v14>>
  BY DEF Next, allVars

LEMMA RunnerIdle ==
  ASSUME RunnerGood, UNCHANGED <<v1, v3, v4, v5, v6, v7, v8, v9, v10, v11, v14>>
  PROVE  RunnerGood'
<1>1. RunnerTyped'
  BY DEF RunnerGood, RunnerTyped
<1>2. ListsAreTrue'
  BY DEF RunnerGood, ListsAreTrue, Apart, Elems, Runner!IsSaved
<1>3. UnitsAreTrue'
  BY DEF RunnerGood, UnitsAreTrue, UnitIsTrue, Elems, Runner!IsSaved
<1>4. VerdictIsTrue'
  BY DEF RunnerGood, VerdictIsTrue, WholeRun, Elems, Runner!IsSaved
<1> QED
  BY <1>1, <1>2, <1>3, <1>4 DEF RunnerGood

LEMMA StartIsTrue ==
  ASSUME NUnits \in Nat, RunnerGood, Runner!Start PROVE RunnerGood'
<1> DEFINE held == IF v1 = "experiment" THEN Runner!Restores ELSE <<>>
           rest == {u \in Runner!Units : Runner!IsSaved(u) /\ u \notin Runner!ToSet(v4)}
<1> USE DEF RunnerGood
<1>1. /\ held \in Seq(Runner!Units) /\ Apart(held) /\ \A u \in Elems(held) : Runner!IsSaved(u)
      /\ v1 = "experiment" => \A u \in Runner!Units : Runner!IsSaved(u) => u \in Elems(held)
  <2>1. CASE v1 # "experiment"
    <3>1. held = <<>>
      BY <2>1
    <3> QED
      BY <2>1, <3>1 DEF Apart, Elems
  <2>2. CASE v1 = "experiment"
    <3>1. /\ Runner!InOrder(rest) \in Seq(Runner!Units) /\ Apart(Runner!InOrder(rest))
          /\ Elems(Runner!InOrder(rest)) = rest
      BY InOrderIs
    <3>2. held = v4 \o Runner!InOrder(rest)
      BY <2>2 DEF Runner!Restores
    <3>3. rest = {u \in Runner!Units : Runner!IsSaved(u) /\ u \notin Elems(v4)}
      BY ElemsAre
    <3>4. v4 \in Seq(Runner!Units) /\ Apart(v4) /\ \A u \in Elems(v4) : Runner!IsSaved(u)
      BY DEF RunnerTyped, ListsAreTrue
    <3> HIDE DEF held, rest
    <3>5. Elems(v4) \cap rest = {}
      BY <3>3
    <3>6. /\ held \in Seq(Runner!Units) /\ Apart(held) /\ Elems(held) = Elems(v4) \cup rest
      BY <3>1, <3>2, <3>4, <3>5, ConcatElems
    <3> QED
      BY <3>3, <3>4, <3>6
  <2> QED
    BY <2>1, <2>2
<1>2. /\ v7 = "out" /\ v7' = "run" /\ v8' = v8 + 1 /\ v5' = held
      /\ v6' = [u \in Runner!Units |-> IF u \in Elems(held) THEN "got" ELSE "none"]
      /\ v9' = FALSE /\ v10' = FALSE /\ v11' = FALSE /\ v14' = "none" /\ UNCHANGED <<v1, v3, v4>>
  BY ElemsAre DEF Runner!Start
<1> HIDE DEF held
<1>3. RunnerTyped'
  <2>1. v6' \in [Runner!Units -> UnitStates]
    BY <1>2 DEF UnitStates
  <2>2. v8' \in Nat /\ v8' >= 1
    BY <1>2 DEF RunnerTyped
  <2> QED
    BY <1>1, <1>2, <2>1, <2>2 DEF RunnerTyped
<1>4. \A u \in Elems(held) : u \in Runner!Units
  BY <1>1 DEF Elems
<1>5. \A u : Runner!IsSaved(u)' <=> Runner!IsSaved(u)
  BY <1>2 DEF Runner!IsSaved
<1>6. Elems(v4)' = Elems(v4) /\ Elems(v5)' = Elems(held) /\ (Apart(v4) => Apart(v4)')
      /\ Apart(v5)'
  BY <1>1, <1>2 DEF Elems, Apart
<1>7. ListsAreTrue'
  BY <1>1, <1>2, <1>4, <1>5, <1>6 DEF ListsAreTrue
<1>8. ASSUME NEW w \in Runner!Units PROVE UnitIsTrue(w)'
  <2>1. v3[w].run <= v8 /\ v3[w].run \in Nat /\ v8 \in Nat
    BY DEF UnitsAreTrue, UnitIsTrue, RunnerTyped
  <2>2. v3'[w].run <= v8' /\ v3'[w].run # v8'
    BY <1>2, <2>1
  <2> QED
    BY <1>1, <1>2, <1>5, <1>6, <2>2 DEF UnitIsTrue
<1>9. VerdictIsTrue'
  BY <1>2 DEF VerdictIsTrue
<1> QED
  BY <1>3, <1>7, <1>8, <1>9 DEF UnitsAreTrue

(* A unit moves, and what is saved and listed stays.                       *)
LEMMA MoveIsTrue ==
  ASSUME RunnerGood, NEW u \in Runner!Units, NEW s \in UnitStates, v6' = [v6 EXCEPT ![u] = s],
         UNCHANGED <<v1, v3, v4, v5, v7, v8, v14>>, v7 \in {"run", "raise"} \/ v6[u] = "queued",
         v6[u] # "got", v10 => v10', v10' \in BOOLEAN, v11 => v11', v11' \in BOOLEAN,
         v1 = "suite" => ~v11',
         v9' => v9 \/ v10',
         s \notin {"none", "got", "saving", "running"} \/ (s = "running" /\ ~Runner!IsSaved(u))
           \/ (s = "saving" /\ v6[u] = "running"),
         s = "done" => Runner!IsSaved(u), s = "skipped" => v10',
         s = "queued" => v6[u] = "none" /\ v1 # "suite"
  PROVE  RunnerGood'
<1> USE DEF RunnerGood
<1>1. \A w \in Runner!Units : v6'[w] = IF w = u THEN s ELSE v6[w]
  BY DEF RunnerTyped
<1>2. v7 \in {"run", "raise"}
  BY DEF UnitsAreTrue, UnitIsTrue, RunnerTyped
<1>3. RunnerTyped'
  BY DEF RunnerTyped
<1>4. \A w : Runner!IsSaved(w)' <=> Runner!IsSaved(w)
  BY DEF Runner!IsSaved
<1>5. Elems(v4)' = Elems(v4) /\ Elems(v5)' = Elems(v5) /\ (Apart(v4) => Apart(v4)')
      /\ (Apart(v5) => Apart(v5)')
  BY DEF Elems, Apart
<1>6. \A w \in Elems(v5) : w \in Runner!Units
  BY DEF Elems, RunnerTyped
<1>7. ListsAreTrue'
  BY <1>1, <1>4, <1>5, <1>6 DEF ListsAreTrue
<1>8. ASSUME NEW w \in Runner!Units PROVE UnitIsTrue(w)'
  BY <1>1, <1>2, <1>4, <1>5 DEF UnitsAreTrue, UnitIsTrue, UnitStates
<1>9. VerdictIsTrue'
  BY <1>2 DEF VerdictIsTrue
<1> QED
  BY <1>3, <1>7, <1>8, <1>9 DEF UnitsAreTrue

(* A unit's result is taken into the list: it is saved and was not there,  *)
(* or it was left out, which is remembered.                                *)
LEMMA TakenIsTrue ==
  ASSUME RunnerGood, NEW u \in Runner!Units, v6' = [v6 EXCEPT ![u] = "got"], v7 = "run",
         UNCHANGED <<v1, v3, v7, v8, v9, v10, v11, v14>>, v6[u] # "got",
         \/ Runner!IsSaved(u) /\ v5' = Append(v5, u)
         \/ v10 /\ v5' = v5,
         v4' \in {v4, v5'}
  PROVE  RunnerGood'
<1> USE DEF RunnerGood
<1>1. \A w \in Runner!Units : v6'[w] = IF w = u THEN "got" ELSE v6[w]
  BY DEF RunnerTyped
<1>2. v4 \in Seq(Runner!Units) /\ v5 \in Seq(Runner!Units) /\ u \notin Elems(v5)
  BY DEF RunnerTyped, ListsAreTrue
<1>3. /\ v5' \in Seq(Runner!Units) /\ (Apart(v5) => Apart(v5'))
      /\ \/ Runner!IsSaved(u) /\ Elems(v5') = Elems(v5) \cup {u}
         \/ v10 /\ Elems(v5') = Elems(v5)
  <2>1. CASE Runner!IsSaved(u) /\ v5' = Append(v5, u)
    BY <1>2, <2>1, AppendElems
  <2>2. CASE v10 /\ v5' = v5
    BY <1>2, <2>2
  <2> QED
    BY <2>1, <2>2
<1>4. RunnerTyped'
  <2>1. v4' \in Seq(Runner!Units)
    BY <1>2, <1>3
  <2> QED
    BY <1>3, <2>1 DEF RunnerTyped, UnitStates
<1>5. \A w : Runner!IsSaved(w)' <=> Runner!IsSaved(w)
  BY DEF Runner!IsSaved
<1>6. Elems(v4)' = Elems(v4') /\ Elems(v5)' = Elems(v5') /\ (Apart(v4)' <=> Apart(v4'))
      /\ (Apart(v5)' <=> Apart(v5'))
  BY DEF Elems, Apart
<1>7. Elems(v5) \subseteq Runner!Units
  BY <1>2 DEF Elems
<1>8. ListsAreTrue'
  <2>1. Apart(v5)' /\ \A w \in Elems(v5') : Runner!IsSaved(w) /\ v6'[w] = "got"
    BY <1>1, <1>3, <1>6, <1>7 DEF ListsAreTrue
  <2>2. Apart(v4') /\ \A w \in Elems(v4') : Runner!IsSaved(w)
    BY <1>6, <2>1 DEF ListsAreTrue
  <2> QED
    BY <1>5, <1>6, <2>1, <2>2 DEF ListsAreTrue
<1>9. ASSUME NEW w \in Runner!Units PROVE UnitIsTrue(w)'
  BY <1>1, <1>3, <1>5, <1>6 DEF UnitsAreTrue, UnitIsTrue
<1>10. VerdictIsTrue'
  BY DEF VerdictIsTrue
<1> QED
  BY <1>4, <1>8, <1>9, <1>10 DEF UnitsAreTrue

(* A result is saved: it was not, so no list has it.                       *)
LEMMA PutIsTrue ==
  ASSUME RunnerGood, NEW u \in Runner!Units, v6[u] = "saving",
         v3' = [v3 EXCEPT ![u] = [run |-> v8, paid |-> ~v11]], v6' = [v6 EXCEPT ![u] = "done"],
         UNCHANGED <<v1, v4, v5, v7, v8, v9, v10, v11, v14>>
  PROVE  RunnerGood'
<1> USE DEF RunnerGood
<1>1. /\ \A w \in Runner!Units : v6'[w] = IF w = u THEN "done" ELSE v6[w]
      /\ \A w \in Runner!Units : w # u => v3'[w] = v3[w]
      /\ v3'[u] = [run |-> v8, paid |-> ~v11]
  BY DEF RunnerTyped
<1>2. v7 \in {"run", "raise"} /\ v8 \in Nat /\ v8 >= 1 /\ ~Runner!IsSaved(u)
  BY DEF UnitsAreTrue, UnitIsTrue, RunnerTyped
<1>3. RunnerTyped'
  <2>1. v6' \in [Runner!Units -> UnitStates]
    BY DEF RunnerTyped, UnitStates
  <2>2. v3' \in [Runner!Units -> [run : Nat, paid : BOOLEAN]]
    BY DEF RunnerTyped
  <2> QED
    BY <2>1, <2>2 DEF RunnerTyped
<1>4. /\ \A w \in Runner!Units : w # u => (Runner!IsSaved(w)' <=> Runner!IsSaved(w))
      /\ Runner!IsSaved(u)' /\ v3'[u].run = v8 /\ (v3'[u].paid <=> ~v11)
  <2>1. v3'[u].run = v8 /\ v3'[u].paid = ~v11 /\ v8 # 0
    BY <1>1, <1>2
  <2>2. v3'[u] # [run |-> 0, paid |-> FALSE]
    BY <2>1
  <2> QED
    BY <1>1, <2>1, <2>2 DEF Runner!IsSaved, Runner!Unsaved
<1>5. Elems(v4)' = Elems(v4) /\ Elems(v5)' = Elems(v5) /\ (Apart(v4) => Apart(v4)')
      /\ (Apart(v5) => Apart(v5)')
  BY DEF Elems, Apart
<1>6. Elems(v4) \subseteq Runner!Units /\ Elems(v5) \subseteq Runner!Units
  BY DEF Elems, RunnerTyped
<1>7. ListsAreTrue'
  BY <1>1, <1>2, <1>4, <1>5, <1>6 DEF ListsAreTrue
<1>8. ASSUME NEW w \in Runner!Units PROVE UnitIsTrue(w)'
  BY <1>1, <1>2, <1>4, <1>5 DEF UnitsAreTrue, UnitIsTrue
<1>9. VerdictIsTrue'
  BY <1>2 DEF VerdictIsTrue
<1> QED
  BY <1>3, <1>7, <1>8, <1>9 DEF UnitsAreTrue

LEMMA SubmitIsTrue ==
  ASSUME RunnerGood, NEW u \in Runner!Units, Runner!Submit(u) PROVE RunnerGood'
<1>1. /\ v7 = "run" /\ v6[u] = "none" /\ ~v9
      /\ UNCHANGED <<v1, v3, v4, v7, v8, v11, v14>>
  BY DEF Runner!Submit, Runner!Turn
<1>0. v10 \in BOOLEAN /\ v11 \in BOOLEAN /\ (v1 = "suite" => ~v11)
  BY DEF RunnerGood, RunnerTyped
<1>2. CASE /\ Runner!IsSaved(u) /\ v6' = [v6 EXCEPT ![u] = "got"] /\ v5' = Append(v5, u)
           /\ UNCHANGED <<v9, v10>>
  BY <1>1, <1>2, TakenIsTrue
<1>3. CASE /\ v6' = [v6 EXCEPT ![u] = IF v1 = "suite" THEN "running" ELSE "queued"]
           /\ v1 = "suite" => ~Runner!IsSaved(u)
           /\ UNCHANGED <<v5, v9, v10>>
  <2>1. CASE v1 = "suite"
    BY <1>0, <1>1, <1>3, <2>1, MoveIsTrue DEF UnitStates
  <2>2. CASE v1 # "suite"
    BY <1>0, <1>1, <1>3, <2>2, MoveIsTrue DEF UnitStates
  <2> QED
    BY <2>1, <2>2
<1>4. CASE v9' = TRUE /\ v10' = TRUE /\ UNCHANGED <<v5, v6>>
  <2>1. RunnerTyped'
    BY <1>1, <1>4 DEF RunnerGood, RunnerTyped
  <2>2. ListsAreTrue'
    BY <1>1, <1>4 DEF RunnerGood, ListsAreTrue, Apart, Elems, Runner!IsSaved
  <2>3. UnitsAreTrue'
    BY <1>1, <1>4 DEF RunnerGood, UnitsAreTrue, UnitIsTrue, Elems, Runner!IsSaved
  <2>4. VerdictIsTrue'
    BY <1>1, <1>4 DEF RunnerGood, VerdictIsTrue
  <2> QED
    BY <2>1, <2>2, <2>3, <2>4 DEF RunnerGood
<1> QED
  BY <1>2, <1>3, <1>4 DEF Runner!Submit

LEMMA TakeIsTrue ==
  ASSUME RunnerGood, NEW u \in Runner!Units, Runner!Take(u) PROVE RunnerGood'
<1>1. /\ v6[u] = "queued" /\ UNCHANGED <<v1, v3, v4, v5, v7, v8, v9, v11, v14>>
  BY DEF Runner!Take
<1>0. v10 \in BOOLEAN /\ v11 \in BOOLEAN /\ (v1 = "suite" => ~v11)
  BY DEF RunnerGood, RunnerTyped
<1>2. CASE Runner!IsSaved(u) /\ v6' = [v6 EXCEPT ![u] = "done"] /\ v10' = v10
  BY <1>0, <1>1, <1>2, MoveIsTrue DEF UnitStates
<1>3. CASE ~(v1 = "abtest" /\ Runner!IsSaved(u)) /\ v6' = [v6 EXCEPT ![u] = "running"] /\ v10' = v10
  <2>1. ~Runner!IsSaved(u)
    BY <1>1, <1>3 DEF RunnerGood, RunnerTyped, RunnerKinds, UnitsAreTrue, UnitIsTrue
  <2> QED
    BY <1>0, <1>1, <1>3, <2>1, MoveIsTrue DEF UnitStates
<1>4. CASE v6' = [v6 EXCEPT ![u] = "skipped"] /\ v10' = TRUE
  BY <1>0, <1>1, <1>4, MoveIsTrue DEF UnitStates
<1> QED
  BY <1>2, <1>3, <1>4 DEF Runner!Take, Runner!Skips

LEMMA ExecuteIsTrue ==
  ASSUME RunnerGood, NEW u \in Runner!Units, Runner!Execute(u) PROVE RunnerGood'
<1>1. /\ v6[u] = "running" /\ UNCHANGED <<v1, v3, v4, v5, v7, v8, v9, v10, v14>>
  BY DEF Runner!Execute
<1>2. v7 \in {"run", "raise"} /\ v10 \in BOOLEAN /\ v11 \in BOOLEAN /\ (v1 = "suite" => ~v11)
  BY <1>1 DEF RunnerGood, RunnerTyped, UnitsAreTrue, UnitIsTrue
<1>3. CASE v6' = [v6 EXCEPT ![u] = "saving"] /\ v11' \in {v11, v1 # "suite"}
  <2>1. v11' \in BOOLEAN /\ (v11 => v11') /\ (v1 = "suite" => ~v11')
    BY <1>2, <1>3
  <2> QED
    BY <1>1, <1>2, <1>3, <2>1, MoveIsTrue DEF UnitStates
<1>4. CASE v6' = [v6 EXCEPT ![u] = "raised"] /\ v11' = v11
  BY <1>1, <1>2, <1>4, MoveIsTrue DEF UnitStates
<1> QED
  BY <1>3, <1>4 DEF Runner!Execute

LEMMA SaveIsTrue ==
  ASSUME RunnerGood, NEW u \in Runner!Units, Runner!Put(u) PROVE RunnerGood'
<1>1. /\ v6[u] = "saving" /\ UNCHANGED <<v1, v4, v5, v7, v8, v9, v10, v11, v14>>
  BY DEF Runner!Put
<1>2. CASE /\ v3' = [v3 EXCEPT ![u] = [run |-> v8, paid |-> ~v11]]
           /\ v6' = [v6 EXCEPT ![u] = "done"]
  BY <1>1, <1>2, PutIsTrue
<1>3. CASE v6' = [v6 EXCEPT ![u] = "raised"] /\ v3' = v3
  <2>1. v7 \in {"run", "raise"} /\ v10 \in BOOLEAN /\ v11 \in BOOLEAN /\ (v1 = "suite" => ~v11)
    BY <1>1 DEF RunnerGood, RunnerTyped, UnitsAreTrue, UnitIsTrue
  <2> QED
    BY <1>1, <1>3, <2>1, MoveIsTrue DEF UnitStates
<1> QED
  BY <1>2, <1>3 DEF Runner!Put

LEMMA CollectIsTrue ==
  ASSUME RunnerGood, NEW u \in Runner!Units, Runner!Collect(u) PROVE RunnerGood'
<1>1. /\ v7 = "run" /\ v6[u] \in {"done", "skipped"} /\ v6' = [v6 EXCEPT ![u] = "got"]
      /\ v5' = (IF v6[u] = "done" THEN Append(v5, u) ELSE v5)
      /\ v4' = (IF v1 = "experiment" THEN v5' ELSE v4)
      /\ UNCHANGED <<v1, v3, v7, v8, v9, v10, v11, v14>>
  BY DEF Runner!Collect, Runner!Collects
<1>2. (v6[u] = "done" => Runner!IsSaved(u)) /\ (v6[u] = "skipped" => v10)
  BY DEF RunnerGood, UnitsAreTrue, UnitIsTrue
<1>3. v4' \in {v4, v5'}
  BY <1>1
<1>4. CASE v6[u] = "done"
  BY <1>1, <1>2, <1>3, <1>4, TakenIsTrue
<1>5. CASE v6[u] = "skipped"
  BY <1>1, <1>2, <1>3, <1>5, TakenIsTrue
<1> QED
  BY <1>1, <1>4, <1>5

(* The end of an execution: by an exception, by a verdict, by the worker's *)
(* death. Of the units only their place changes.                           *)
LEMMA RaiseIsTrue ==
  ASSUME RunnerGood, NEW u \in Runner!Units, Runner!Raise(u) PROVE RunnerGood'
<1> USE DEF RunnerGood
<1>1. /\ v7 = "run" /\ v7' = "raise"
      /\ \A w \in Runner!Units :
           \/ v6'[w] = v6[w]
           \/ v6'[w] = "none" /\ v1 = "abtest" /\ v6[w] = "queued"
      /\ v6' \in [Runner!Units -> UnitStates]
      /\ UNCHANGED <<v1, v3, v4, v5, v8, v9, v10, v11, v14>>
  BY DEF Runner!Raise, Runner!Collects, RunnerTyped, UnitStates
<1>2. RunnerTyped'
  BY <1>1 DEF RunnerTyped
<1>3. \A w : Runner!IsSaved(w)' <=> Runner!IsSaved(w)
  BY <1>1 DEF Runner!IsSaved
<1>4. Elems(v4)' = Elems(v4) /\ Elems(v5)' = Elems(v5) /\ (Apart(v4) => Apart(v4)')
      /\ (Apart(v5) => Apart(v5)')
  BY <1>1 DEF Elems, Apart
<1>5. Elems(v5) \subseteq Runner!Units
  BY DEF Elems, RunnerTyped
<1>6. ListsAreTrue'
  BY <1>1, <1>3, <1>4, <1>5 DEF ListsAreTrue
<1>7. ASSUME NEW w \in Runner!Units PROVE UnitIsTrue(w)'
  BY <1>1, <1>3, <1>4 DEF UnitsAreTrue, UnitIsTrue
<1>8. VerdictIsTrue'
  BY <1>1 DEF VerdictIsTrue
<1> QED
  BY <1>2, <1>6, <1>7, <1>8 DEF UnitsAreTrue

LEMMA EndIsTrue ==
  ASSUME RunnerGood, Runner!End PROVE RunnerGood'
<1> USE DEF RunnerGood
<1>1. /\ v7 = "run" /\ v7' = "verdict" /\ v4' \in {v4, v5} /\ v10' \in {v10, TRUE}
      /\ v9 \/ \A w \in Runner!Units : v6[w] # "none"
      /\ \A w \in Runner!Units : v6[w] \in {"none", "got"}
      /\ UNCHANGED <<v1, v3, v5, v6, v8, v9, v11, v14>>
  BY DEF Runner!End, Runner!Submitted
<1>2. RunnerTyped'
  BY <1>1 DEF RunnerTyped
<1>3. \A w : Runner!IsSaved(w)' <=> Runner!IsSaved(w)
  BY <1>1 DEF Runner!IsSaved
<1>4. /\ Elems(v4)' \in {Elems(v4), Elems(v5)} /\ Elems(v5)' = Elems(v5)
      /\ Apart(v4) /\ Apart(v5) => Apart(v4)' /\ Apart(v5)'
  BY <1>1 DEF Elems, Apart
<1>5. ListsAreTrue'
  BY <1>1, <1>3, <1>4 DEF ListsAreTrue
<1>6. ASSUME NEW w \in Runner!Units PROVE UnitIsTrue(w)'
  <2>1. v10 \in BOOLEAN /\ (v9 => v10)
    BY DEF RunnerTyped, VerdictIsTrue
  <2> QED
    BY <1>1, <1>3, <1>4, <2>1 DEF UnitsAreTrue, UnitIsTrue
<1>7. VerdictIsTrue'
  <2>1. v14 = "none"
    BY <1>1 DEF VerdictIsTrue
  <2>2. v9 => v10 = TRUE
    BY DEF VerdictIsTrue, RunnerTyped
  <2>3. v9' => v10' = TRUE
    BY <1>1, <2>2
  <2> QED
    BY <1>1, <2>1, <2>3 DEF VerdictIsTrue
<1> QED
  BY <1>2, <1>5, <1>6, <1>7 DEF UnitsAreTrue

LEMMA VerdictStep ==
  ASSUME RunnerGood, Runner!Verdict PROVE RunnerGood'
<1> USE DEF RunnerGood
<1>1. /\ v7' = "out" /\ UNCHANGED <<v1, v3, v4, v5, v6, v8, v9, v10, v11>>
      /\ \A w \in Runner!Units : v6[w] \notin {"queued", "running", "saving"}
  <2>1. CASE v7 = "verdict"
    BY <2>1 DEF Runner!Verdict, UnitsAreTrue, UnitIsTrue
  <2>2. CASE Runner!Pooled = {}
    BY <2>2 DEF Runner!Verdict, Runner!Pooled
  <2> QED
    BY <2>1, <2>2 DEF Runner!Verdict
<1>2. v14' = "completed" => v7 = "verdict" /\ ~v11 /\ ~v10
  BY DEF Runner!Verdict, Runner!DoubtsAccount, RunnerTyped
<1>3. RunnerTyped'
  BY <1>1 DEF RunnerTyped
<1>4. \A w : Runner!IsSaved(w)' <=> Runner!IsSaved(w)
  BY <1>1 DEF Runner!IsSaved
<1>5. Elems(v4)' = Elems(v4) /\ Elems(v5)' = Elems(v5) /\ (Apart(v4) => Apart(v4)')
      /\ (Apart(v5) => Apart(v5)')
  BY <1>1 DEF Elems, Apart
<1>6. ListsAreTrue'
  BY <1>1, <1>4, <1>5 DEF ListsAreTrue
<1>7. ASSUME NEW w \in Runner!Units PROVE UnitIsTrue(w)'
  BY <1>1, <1>4, <1>5 DEF UnitsAreTrue, UnitIsTrue
<1>8. v14' = "completed" => WholeRun'
  <2> SUFFICES ASSUME v14' = "completed" PROVE WholeRun'
    OBVIOUS
  <2>1. \A w \in Runner!Units : w \in Elems(v5)
    BY <1>2 DEF UnitsAreTrue, UnitIsTrue
  <2>2. Elems(v5) \subseteq Runner!Units
    BY DEF Elems, RunnerTyped
  <2>3. \A w \in Runner!Units : Runner!IsSaved(w)
    BY <2>1 DEF ListsAreTrue
  <2>4. \A w \in Runner!Units : v3[w].run = v8 => v3[w].paid
    BY <1>2, <2>3 DEF UnitsAreTrue, UnitIsTrue
  <2> QED
    BY <1>1, <1>4, <1>5, <2>1, <2>2, <2>3, <2>4 DEF WholeRun
<1>9. VerdictIsTrue'
  BY <1>1, <1>8 DEF VerdictIsTrue
<1> QED
  BY <1>3, <1>6, <1>7, <1>9 DEF UnitsAreTrue

LEMMA CrashIsTrue ==
  ASSUME RunnerGood, Runner!Crash PROVE RunnerGood'
<1> USE DEF RunnerGood
<1>1. /\ v7' = "out" /\ v14' = "crashed" /\ v6' = [w \in Runner!Units |-> "none"]
      /\ UNCHANGED <<v1, v3, v4, v5, v8, v9, v10, v11>>
  BY DEF Runner!Crash
<1>2. RunnerTyped'
  BY <1>1 DEF RunnerTyped, UnitStates
<1>3. \A w : Runner!IsSaved(w)' <=> Runner!IsSaved(w)
  BY <1>1 DEF Runner!IsSaved
<1>4. Elems(v4)' = Elems(v4) /\ Elems(v5)' = Elems(v5) /\ (Apart(v4) => Apart(v4)')
      /\ (Apart(v5) => Apart(v5)')
  BY <1>1 DEF Elems, Apart
<1>5. ListsAreTrue'
  BY <1>1, <1>3, <1>4 DEF ListsAreTrue
<1>6. ASSUME NEW w \in Runner!Units PROVE UnitIsTrue(w)'
  BY <1>1, <1>3 DEF UnitsAreTrue, UnitIsTrue
<1>7. VerdictIsTrue'
  BY <1>1 DEF VerdictIsTrue
<1> QED
  BY <1>2, <1>5, <1>6, <1>7 DEF UnitsAreTrue

LEMMA RunnerNext ==
  ASSUME NUnits \in Nat, RunnerGood, Runner!Next PROVE RunnerGood'
<1>1. CASE Runner!RequestStop \/ Runner!Spend
  BY <1>1, RunnerIdle DEF Runner!RequestStop, Runner!Spend
<1> QED
  BY <1>1, StartIsTrue, SubmitIsTrue, TakeIsTrue, ExecuteIsTrue, SaveIsTrue, CollectIsTrue,
     RaiseIsTrue, EndIsTrue, VerdictStep, CrashIsTrue DEF Runner!Next

RunnerIsGiven == NUnits \in Nat /\ Kinds \subseteq RunnerKinds

LEMMA RunnerInvAlways == ASSUME RunnerIsGiven PROVE Spec => []RunnerInv
<1>1. Init => RunnerInv
  <2> SUFFICES ASSUME Runner!Init PROVE RunnerGood
    BY DEF Init, RunnerInv
  <2>1. RunnerTyped
    <3>1. v3 \in [Runner!Units -> [run : Nat, paid : BOOLEAN]]
      BY DEF Runner!Init, Runner!Unsaved
    <3>2. v6 \in [Runner!Units -> UnitStates]
      BY DEF Runner!Init, UnitStates
    <3>3. v4 \in Seq(Runner!Units) /\ v5 \in Seq(Runner!Units)
      BY DEF Runner!Init
    <3> QED
      BY <3>1, <3>2, <3>3 DEF RunnerIsGiven, RunnerTyped, Runner!Init
  <2>2. Elems(v4) = {} /\ Elems(v5) = {} /\ Apart(v4) /\ Apart(v5) /\ v7 = "out"
    BY DEF Runner!Init, Elems, Apart
  <2>3. \A u \in Runner!Units : v3[u] = [run |-> 0, paid |-> FALSE] /\ v6[u] = "none"
    BY DEF Runner!Init, Runner!Unsaved
  <2>4. UnitsAreTrue
    BY <2>2, <2>3 DEF Runner!Init, UnitsAreTrue, UnitIsTrue, Runner!IsSaved, Runner!Unsaved
  <2> QED
    BY <2>1, <2>2, <2>4 DEF Runner!Init, RunnerGood, ListsAreTrue, VerdictIsTrue
<1>2. ASSUME RunnerInv, [Next]_allVars PROVE RunnerInv'
  <2> SUFFICES ASSUME part' = "runner" PROVE RunnerGood'
    BY DEF RunnerInv
  <2>1. part = "runner" /\ RunnerGood
    BY <1>2 DEF Next, allVars, RunnerInv
  <2>2. CASE Runner!Next
    BY <2>1, <2>2, RunnerNext DEF RunnerIsGiven
  <2>3. CASE UNCHANGED <<v1, v2, v3, v4, v5, v6, v7, v8, v9, v10, v11, v12, v13, v14>>
    BY <2>1, <2>3, RunnerIdle
  <2> QED
    BY <1>2, <2>1, <2>2, <2>3, RunnerStep
<1> QED
  BY <1>1, <1>2, PTL DEF Spec

(* Whatever stops, crashes and resumptions lie between: no execution of an *)
(* experiment, an A/B test or a suite buys again what an earlier one has   *)
(* saved (UnitCheckpoint of src/checkpoints.py, ExperimentRunner.run).     *)
THEOREM SavedOnce == ASSUME RunnerIsGiven PROVE Spec => SavedIsFinal
<1>1. ASSUME RunnerInv, [Next]_allVars, part = "runner" PROVE Runner!KeepsSaved
  <2>1. RunnerGood
    BY <1>1 DEF RunnerInv
  <2>2. CASE v3' = v3
    BY <2>2 DEF Runner!KeepsSaved
  <2>3. ASSUME NEW u \in Runner!Units, Runner!Put(u) PROVE Runner!KeepsSaved
    <3>1. ~Runner!IsSaved(u) /\ (v3' = v3 \/ \E r : v3' = [v3 EXCEPT ![u] = r])
      BY <2>1, <2>3 DEF RunnerGood, UnitsAreTrue, UnitIsTrue, Runner!Put
    <3> QED
      BY <2>1, <3>1 DEF RunnerGood, RunnerTyped, Runner!KeepsSaved
  <2>4. (\E u \in Runner!Units : Runner!Put(u)) \/ v3' = v3
    BY <1>1, RunnerStep DEF Runner!Next, Runner!Start, Runner!End, Runner!Verdict,
       Runner!RequestStop, Runner!Spend, Runner!Crash, Runner!Submit, Runner!Take,
       Runner!Execute, Runner!Collect, Runner!Raise
  <2> QED
    BY <2>2, <2>3, <2>4
<1>2. RunnerInv /\ [Next]_allVars => [part = "runner" => Runner!KeepsSaved]_allVars
  BY <1>1
<1> QED
  BY <1>2, RunnerInvAlways, PTL DEF Spec, SavedIsFinal

(* A run that asks to be completed holds every unit once, saved, with its  *)
(* spend on file, whatever its threads and the stops did, and the list on  *)
(* disk names saved units, each once, wherever the worker dies (run and    *)
(* _execute of src/experiment.py, src/ab_testing.py, src/harness.py).      *)
LEMMA RunnerIsWhole ==
  ASSUME RunnerIsGiven
  PROVE  Spec => [](part = "runner" => Runner!CompletedIsWhole /\ Runner!ListedOnce)
<1>1. ASSUME RunnerInv, part = "runner" PROVE Runner!CompletedIsWhole /\ Runner!ListedOnce
  <2>1. RunnerGood /\ v5 \in Seq(Runner!Units) /\ Apart(v5)
    BY <1>1 DEF RunnerInv, RunnerGood, RunnerTyped, ListsAreTrue
  <2>2. Runner!ListedOnce
    BY <2>1, ElemsAre DEF RunnerGood, ListsAreTrue, Runner!ListedOnce
  <2>3. ASSUME v14 = "completed" PROVE WholeRun /\ Len(v5) = NUnits
    <3>1. WholeRun
      BY <2>1, <2>3 DEF RunnerGood, VerdictIsTrue
    <3> DEFINE n == Len(v5)
    <3>2. n \in Nat /\ v5 \in [1 .. n -> Runner!Units] /\ DOMAIN v5 = 1 .. n
      BY <2>1
    <3> HIDE DEF n
    <3>3. v5 \in Bijection(1 .. n, Runner!Units)
      <4>1. v5 \in Injection(1 .. n, Runner!Units)
        BY <2>1, <3>2 DEF Apart, Injection, IsInjective
      <4>2. v5 \in Surjection(1 .. n, Runner!Units)
        BY <3>1, <3>2 DEF WholeRun, Elems, Surjection
      <4> QED
        BY <4>1, <4>2 DEF Bijection
    <3>4. IsFiniteSet(1 .. n) /\ Cardinality(1 .. n) = n
      BY <3>2, FS_Interval
    <3>5. Cardinality(1 .. NUnits) = NUnits
      BY FS_Interval DEF RunnerIsGiven
    <3>6. Cardinality(Runner!Units) = n
      BY <3>3, <3>4, FS_Bijection DEF ExistsBijection
    <3> QED
      BY <3>1, <3>5, <3>6 DEF n, Runner!Units
  <2> QED
    BY <2>2, <2>3, ElemsAre DEF WholeRun, Runner!CompletedIsWhole
<1> QED
  BY <1>1, RunnerInvAlways, PTL DEF Spec

(* A run that asks to be completed holds every unit once, saved and with   *)
(* its spend on file, and a run that reuses rows reports none but of its   *)
(* own model and of problems as its fingerprint has them, of the whole     *)
(* dataset or of nothing reused, whoever edits, crashes, resumes or runs   *)
(* beside it (ExperimentRunner.run; main.py, merge_results, history.json). *)
THEOREM RunsAreWhole == ASSUME RunnerIsGiven, BoundsAreGiven PROVE Spec => []RunIsWhole
<1>1. /\ part = "runner" => Runner!CompletedIsWhole /\ Runner!ListedOnce
      /\ part = "incremental" => Incremental!ReuseIsSound
      => RunIsWhole
  BY DEF RunIsWhole
<1> QED
  BY <1>1, RunnerIsWhole, ReuseIsAlwaysSound, PTL

---------------------------------------------------------------------------
(* The model calls of one execution *)

CallsAreGiven == MaxCalls \in Nat /\ TokenBudget \in Nat \ {0} /\ PerCall \in Nat

Events  == {"none", "hit", "answer", "error", "retry"}
Working == {"check", "lookup", "reserve", "attempt", "save", "lose"}
Callings == [pc : {"idle", "ready", "end"} \cup Working, try : Nat, event : Events, tokens : 0 .. PerCall]
Ledgers == [calls : Nat, tokens : Nat, stop : {"none", "completed", "max_calls", "max_tokens"}]

CallsTyped ==
  /\ v1 \in [Threads -> Callings] /\ v2 \in [Threads -> Ledgers] /\ v4 \in BOOLEAN
  /\ v5 \in [Threads -> Nat] /\ v6 \in [Threads -> Nat] /\ v7 \in [Threads -> Nat]

(* An attempt whose row is not on file: the call is about to write it, or  *)
(* lost it, and then no call of the thread gets past the check.            *)
Owes(c) == c.pc \in {"save", "lose"} /\ c.event # "hit"
RowsFit(c, failed, reserved, attempts, rows) ==
  /\ reserved = attempts + (IF c.pc = "attempt" THEN 1 ELSE 0)
  /\ \/ attempts = rows /\ ~Owes(c)
     \/ attempts = rows + 1 /\ (Owes(c) \/ (failed /\ c.pc \in {"idle", "ready", "end", "check"}))
  /\ c.pc = "save" => c.event # "none"

(* Whoever is past the gate was below both limits.                         *)
GateFits(c, e) ==
  /\ e.calls <= MaxCalls /\ e.tokens < TokenBudget + PerCall
  /\ c.pc \in Working => e.tokens < TokenBudget
  /\ c.pc \in Working \cup {"ready"} => e.stop = "none"
  /\ e.stop = "max_calls" => e.calls = MaxCalls
  /\ e.stop = "max_tokens" => e.tokens >= TokenBudget

CallFits(t) == RowsFit(v1[t], v4, v5[t], v6[t], v7[t]) /\ GateFits(v1[t], v2[t])
CallsFit == CallsTyped /\ \A t \in Threads : CallFits(t)
CallsFine == part = "model" => CallsFit

LEMMA CallsActs ==
  ASSUME part = "model", [Next]_allVars
  PROVE  Model!Next \/ UNCHANGED <<v1, v2, v3, v4, v5, v6, v7, v8>>
  BY DEF Next, allVars

LEMMA FreshIs ==
  ASSUME CallsAreGiven
  PROVE  Model!Fresh \in Callings /\ Model!Fresh.pc = "ready"
         /\ Model!Entry \in Ledgers /\ Model!Entry.calls = 0 /\ Model!Entry.tokens = 0
         /\ Model!Entry.stop = "none"
  BY DEF Model!Fresh, Model!Entry, Callings, Ledgers, Events, CallsAreGiven

LEMMA CallsStart ==
  ASSUME CallsAreGiven, Model!Init
  PROVE  CallsFit
<1>0. PICK c : c = [Model!Fresh EXCEPT !.pc = "idle"]
  OBVIOUS
<1>3. c \in Callings /\ Model!Entry \in Ledgers
  BY <1>0, FreshIs DEF Callings
<1>4. v1 = [t \in Threads |-> c] /\ v2 = [t \in Threads |-> Model!Entry] /\ v4 = FALSE
      /\ v5 = [t \in Threads |-> 0] /\ v6 = v5 /\ v7 = v5
  BY <1>0 DEF Model!Init
<1>1. CallsTyped
  BY <1>3, <1>4 DEF CallsTyped
<1>2. ASSUME NEW t \in Threads
      PROVE  CallFits(t)
  BY <1>2 DEF Model!Init, Model!Fresh, Model!Entry, CallFits, RowsFit, GateFits, Owes, Working,
     CallsAreGiven
<1> QED
  BY <1>1, <1>2 DEF CallsFit

(* One thread takes a step of its own: the others are untouched, but for   *)
(* the flag, which is only ever set.                                       *)
LEMMA CallTurns ==
  ASSUME CallsFit, NEW t \in Threads,
         NEW c \in Callings, NEW e \in Ledgers, NEW r \in Nat, NEW a \in Nat, NEW w \in Nat,
         v1' = [v1 EXCEPT ![t] = c], v2' = [v2 EXCEPT ![t] = e], v4' \in BOOLEAN, v4 => v4',
         v5' = [v5 EXCEPT ![t] = r], v6' = [v6 EXCEPT ![t] = a], v7' = [v7 EXCEPT ![t] = w],
         RowsFit(c, v4', r, a, w), GateFits(c, e)
  PROVE  CallsFit'
<1>1. CallsTyped'
  BY DEF CallsFit, CallsTyped
<1>2. ASSUME NEW u \in Threads
      PROVE  CallFits(u)'
  <2>1. CASE u = t
    BY <2>1 DEF CallsFit, CallsTyped, CallFits
  <2>2. CASE u # t
    <3>1. v1'[u] = v1[u] /\ v2'[u] = v2[u] /\ v5'[u] = v5[u] /\ v6'[u] = v6[u] /\ v7'[u] = v7[u]
      BY <2>2 DEF CallsFit, CallsTyped
    <3>2. CallFits(u)
      BY DEF CallsFit
    <3> QED
      BY <3>1, <3>2 DEF CallFits, RowsFit
  <2> QED
    BY <2>1, <2>2
<1> QED
  BY <1>1, <1>2 DEF CallsFit

LEMMA CallOf ==
  ASSUME CallsFit, NEW t \in Threads
  PROVE  /\ v1[t] \in Callings /\ v2[t] \in Ledgers /\ v5[t] \in Nat /\ v6[t] \in Nat /\ v7[t] \in Nat
         /\ RowsFit(v1[t], v4, v5[t], v6[t], v7[t]) /\ GateFits(v1[t], v2[t]) /\ v4 \in BOOLEAN
         /\ v1 = [v1 EXCEPT ![t] = v1[t]] /\ v2 = [v2 EXCEPT ![t] = v2[t]]
         /\ v5 = [v5 EXCEPT ![t] = v5[t]] /\ v6 = [v6 EXCEPT ![t] = v6[t]]
         /\ v7 = [v7 EXCEPT ![t] = v7[t]]
  BY DEF CallsFit, CallsTyped, CallFits

LEMMA CallStepFits ==
  ASSUME CallsAreGiven, CallsFit, NEW t \in Threads,
         \/ Model!Begin(t) \/ Model!Admit(t) \/ Model!Check(t) \/ Model!Lookup(t) \/ Model!Reserve(t)
         \/ Model!Attempt(t) \/ Model!Save(t) \/ Model!SaveFails(t) \/ Model!Lose(t) \/ Model!End(t)
  PROVE  CallsFit'
<1>0. /\ MaxCalls \in Nat /\ TokenBudget \in Nat /\ TokenBudget > 0 /\ PerCall \in Nat
  BY DEF CallsAreGiven
<1> PICK c : c = v1[t]
  OBVIOUS
<1> PICK e : e = v2[t]
  OBVIOUS
<1>9. /\ c \in Callings /\ e \in Ledgers /\ v5[t] \in Nat /\ v6[t] \in Nat /\ v7[t] \in Nat
      /\ RowsFit(c, v4, v5[t], v6[t], v7[t]) /\ GateFits(c, e) /\ v4 \in BOOLEAN
      /\ v1 = [v1 EXCEPT ![t] = c] /\ v2 = [v2 EXCEPT ![t] = e]
      /\ v5 = [v5 EXCEPT ![t] = v5[t]] /\ v6 = [v6 EXCEPT ![t] = v6[t]]
      /\ v7 = [v7 EXCEPT ![t] = v7[t]]
  BY CallOf
(* A step that writes no row leaves who owes none, or who has lost one.    *)
<1>8. ASSUME NEW d \in Callings, NEW f \in Ledgers, v1' = [v1 EXCEPT ![t] = d],
             v2' = [v2 EXCEPT ![t] = f], UNCHANGED <<v4, v5, v6, v7>>,
             RowsFit(d, v4, v5[t], v6[t], v7[t]), GateFits(d, f)
      PROVE  CallsFit'
  <2>1. v5' = [v5 EXCEPT ![t] = v5[t]] /\ v6' = [v6 EXCEPT ![t] = v6[t]]
        /\ v7' = [v7 EXCEPT ![t] = v7[t]] /\ v4' = v4 /\ v4' \in BOOLEAN
    BY <1>8, <1>9
  <2>2. RowsFit(d, v4', v5[t], v6[t], v7[t])
    BY <1>8, <2>1
  <2>3. v5[t] \in Nat /\ v6[t] \in Nat /\ v7[t] \in Nat /\ (v4 => v4')
    BY <1>9, <2>1
  <2>4. v1' = [v1 EXCEPT ![t] = d] /\ v2' = [v2 EXCEPT ![t] = f] /\ GateFits(d, f)
    BY <1>8
  <2> QED
    BY <2>1, <2>2, <2>3, <2>4, CallTurns
<1>1. ASSUME Model!Begin(t)
      PROVE  CallsFit'
  <2>1. c.pc = "idle" /\ UNCHANGED <<v4, v5, v6, v7>>
        /\ v1' = [v1 EXCEPT ![t] = Model!Fresh] /\ v2' = [v2 EXCEPT ![t] = Model!Entry]
    BY <1>1 DEF Model!Begin
  <2>2. RowsFit(Model!Fresh, v4, v5[t], v6[t], v7[t])
    BY <1>9, <2>1, FreshIs DEF RowsFit, Owes
  <2>3. GateFits(Model!Fresh, Model!Entry)
    BY <1>0, FreshIs DEF GateFits, Working
  <2> QED
    BY <1>8, <2>1, <2>2, <2>3, FreshIs
<1>2. ASSUME Model!Admit(t)
      PROVE  CallsFit'
  <2>0. PICK stop : stop = Model!Stops(e)
    OBVIOUS
  <2>1. c.pc = "ready" /\ UNCHANGED <<v4, v5, v6, v7>>
    BY <1>2 DEF Model!Admit
  <2>2. e.calls \in Nat /\ e.tokens \in Nat
    BY <1>9 DEF Ledgers
  <2>3. \/ stop = "max_calls" /\ e.calls >= MaxCalls
        \/ stop = "max_tokens" /\ e.tokens >= TokenBudget
        \/ stop = "none" /\ e.calls < MaxCalls /\ e.tokens < TokenBudget
    BY <1>0, <2>0, <2>2 DEF Model!Stops
  <2>4. PICK f : f = IF stop = "none" THEN [e EXCEPT !.calls = @ + 1] ELSE [e EXCEPT !.stop = stop]
    OBVIOUS
  <2>5. v2' = [v2 EXCEPT ![t] = f]
    <3>1. v2' = IF stop = "none" THEN [v2 EXCEPT ![t].calls = @ + 1] ELSE [v2 EXCEPT ![t].stop = stop]
      BY <1>2, <2>0 DEF Model!Admit
    <3>2. CASE stop = "none"
      BY <2>4, <3>1, <3>2
    <3>3. CASE stop # "none"
      BY <2>4, <3>1, <3>3
    <3> QED
      BY <3>2, <3>3
  <2>6. PICK d : d = [c EXCEPT !.pc = IF stop = "none" THEN "check" ELSE "end"]
    OBVIOUS
  <2>7. v1' = [v1 EXCEPT ![t] = d]
    BY <1>2, <1>9, <2>0, <2>6 DEF Model!Admit
  <2>8. d \in Callings /\ d.pc = IF stop = "none" THEN "check" ELSE "end"
    BY <1>9, <2>6 DEF Callings, Working
  <2>9. f \in Ledgers /\ f.tokens = e.tokens
        /\ (stop = "none" => f.calls = e.calls + 1 /\ f.stop = e.stop)
        /\ (stop # "none" => f.calls = e.calls /\ f.stop = stop)
    BY <1>9, <2>2, <2>3, <2>4 DEF Ledgers
  <2>10. RowsFit(d, v4, v5[t], v6[t], v7[t])
    BY <1>9, <2>1, <2>8 DEF RowsFit, Owes
  <2>11. e.calls <= MaxCalls /\ e.tokens < TokenBudget + PerCall /\ e.stop = "none"
    BY <1>9, <2>1 DEF GateFits
  <2>12. GateFits(d, f)
    BY <1>0, <2>2, <2>3, <2>8, <2>9, <2>11 DEF GateFits, Working
  <2> QED
    BY <1>8, <2>1, <2>5, <2>7, <2>8, <2>9, <2>10, <2>12
<1>3. ASSUME NEW d \in Callings, v1' = [v1 EXCEPT ![t] = d], UNCHANGED <<v2, v4, v5, v6, v7>>,
             c.pc \in Working, d.pc \in Working \cup {"ready"},
             RowsFit(d, v4, v5[t], v6[t], v7[t])
      PROVE  CallsFit'
  <2>1. GateFits(d, e)
    BY <1>3, <1>9 DEF GateFits
  <2>2. v2' = [v2 EXCEPT ![t] = e]
    BY <1>3, <1>9
  <2> QED
    BY <1>3, <1>8, <1>9, <2>1, <2>2
<1>4. ASSUME Model!Check(t)
      PROVE  CallsFit'
  <2>1. c.pc = "check" /\ UNCHANGED <<v2, v4, v5, v6, v7>>
    BY <1>4 DEF Model!Check
  <2>2. PICK d : d = IF v4 THEN Model!Fresh ELSE [c EXCEPT !.pc = "lookup"]
    OBVIOUS
  <2>3. v1' = [v1 EXCEPT ![t] = d]
    BY <1>4, <1>9, <2>2 DEF Model!Check, Model!Blocks
  <2>4. d \in Callings /\ d.pc = IF v4 THEN "ready" ELSE "lookup"
    BY <1>9, <2>2, FreshIs DEF Callings, Working
  <2>5. RowsFit(d, v4, v5[t], v6[t], v7[t])
    BY <1>9, <2>1, <2>4 DEF RowsFit, Owes
  <2> QED
    BY <1>3, <2>1, <2>3, <2>4, <2>5 DEF Working
<1>5. ASSUME Model!Lookup(t)
      PROVE  CallsFit'
  <2>1. c.pc = "lookup" /\ UNCHANGED <<v2, v4, v5, v6, v7>>
    BY <1>5 DEF Model!Lookup
  <2>2. \/ \E n \in 0 .. PerCall : v1' = [v1 EXCEPT ![t] = [c EXCEPT !.pc = "save", !.event = "hit", !.tokens = n]]
        \/ v1' = [v1 EXCEPT ![t] = [c EXCEPT !.pc = "reserve"]]
    BY <1>5, <1>9 DEF Model!Lookup
  <2>3. ASSUME NEW n \in 0 .. PerCall, v1' = [v1 EXCEPT ![t] = [c EXCEPT !.pc = "save", !.event = "hit", !.tokens = n]]
        PROVE  CallsFit'
    <3>1. PICK d : d = [c EXCEPT !.pc = "save", !.event = "hit", !.tokens = n]
      OBVIOUS
    <3>2. d \in Callings /\ d.pc = "save" /\ d.event = "hit"
      BY <1>9, <3>1 DEF Callings, Working, Events
    <3>3. RowsFit(d, v4, v5[t], v6[t], v7[t])
      BY <1>9, <2>1, <3>2 DEF RowsFit, Owes
    <3> QED
      BY <1>3, <2>1, <2>3, <3>1, <3>2, <3>3 DEF Working
  <2>4. ASSUME v1' = [v1 EXCEPT ![t] = [c EXCEPT !.pc = "reserve"]]
        PROVE  CallsFit'
    <3>1. PICK d : d = [c EXCEPT !.pc = "reserve"]
      OBVIOUS
    <3>2. d \in Callings /\ d.pc = "reserve"
      BY <1>9, <3>1 DEF Callings, Working
    <3>3. RowsFit(d, v4, v5[t], v6[t], v7[t])
      BY <1>9, <2>1, <3>2 DEF RowsFit, Owes
    <3> QED
      BY <1>3, <2>1, <2>4, <3>1, <3>2, <3>3 DEF Working
  <2> QED
    BY <2>2, <2>3, <2>4
<1>6. ASSUME Model!Reserve(t)
      PROVE  CallsFit'
  <2>1. c.pc = "reserve" /\ UNCHANGED <<v2, v4, v6, v7>>
    BY <1>6 DEF Model!Reserve
  <2>2. CASE v1' = [v1 EXCEPT ![t].pc = "attempt"] /\ v5' = [v5 EXCEPT ![t] = @ + 1]
    <3>1. PICK d : d = [c EXCEPT !.pc = "attempt"]
      OBVIOUS
    <3>2. d \in Callings /\ d.pc = "attempt"
      BY <1>9, <3>1 DEF Callings, Working
    <3>3. PICK r : r = v5[t] + 1
      OBVIOUS
    <3>4. r \in Nat
      BY <1>9, <3>3
    <3>5. v1' = [v1 EXCEPT ![t] = d] /\ v5' = [v5 EXCEPT ![t] = r]
      BY <2>2, <3>1, <3>3 DEF CallsFit, CallsTyped
    <3>6. RowsFit(d, v4, r, v6[t], v7[t])
      BY <1>9, <2>1, <3>2, <3>3 DEF RowsFit, Owes
    <3>7. GateFits(d, e)
      BY <1>9, <2>1, <3>2 DEF GateFits, Working
    <3>8. v2' = [v2 EXCEPT ![t] = e] /\ v6' = [v6 EXCEPT ![t] = v6[t]] /\ v7' = [v7 EXCEPT ![t] = v7[t]]
          /\ v4' = v4
      BY <1>9, <2>1
    <3> QED
      BY <1>9, <3>2, <3>4, <3>5, <3>6, <3>7, <3>8, CallTurns
  <2>3. CASE Model!Refused(t) /\ v5' = v5
    <3>1. v1' = [v1 EXCEPT ![t] = Model!Fresh]
      BY <2>3 DEF Model!Refused
    <3>2. RowsFit(Model!Fresh, v4, v5[t], v6[t], v7[t])
      BY <1>9, <2>1, FreshIs DEF RowsFit, Owes
    <3> QED
      BY <1>3, <2>1, <2>3, <3>1, <3>2, FreshIs DEF Working
  <2> QED
    BY <1>6, <2>2, <2>3 DEF Model!Reserve
<1>7. ASSUME Model!Attempt(t)
      PROVE  CallsFit'
  <2>1. c.pc = "attempt" /\ UNCHANGED <<v2, v4, v5, v7>> /\ v6' = [v6 EXCEPT ![t] = @ + 1]
    BY <1>7 DEF Model!Attempt
  <2>2. PICK a : a = v6[t] + 1
    OBVIOUS
  <2>3. a \in Nat /\ v6' = [v6 EXCEPT ![t] = a]
    BY <1>9, <2>1, <2>2
  <2>4. \E d \in Callings : v1' = [v1 EXCEPT ![t] = d] /\ d.pc = "save" /\ d.event \in {"answer", "error", "retry"}
    <3>1. CASE \E n \in 0 .. PerCall : v1' = [v1 EXCEPT ![t] = [@ EXCEPT !.pc = "save", !.event = "answer", !.tokens = n]]
      <4>1. PICK n \in 0 .. PerCall : v1' = [v1 EXCEPT ![t] = [c EXCEPT !.pc = "save", !.event = "answer", !.tokens = n]]
        BY <1>9, <3>1
      <4>2. PICK d : d = [c EXCEPT !.pc = "save", !.event = "answer", !.tokens = n]
        OBVIOUS
      <4>3. d \in Callings /\ d.pc = "save" /\ d.event = "answer"
        BY <1>9, <4>2 DEF Callings, Working, Events
      <4> QED
        BY <4>1, <4>2, <4>3
    <3>2. CASE \E x \in {"error", "retry"} : v1' = [v1 EXCEPT ![t] = [@ EXCEPT !.pc = "save", !.event = x]]
      <4>1. PICK x \in {"error", "retry"} : v1' = [v1 EXCEPT ![t] = [c EXCEPT !.pc = "save", !.event = x]]
        BY <1>9, <3>2
      <4>2. PICK d : d = [c EXCEPT !.pc = "save", !.event = x]
        OBVIOUS
      <4>3. d \in Callings /\ d.pc = "save" /\ d.event = x
        BY <1>9, <4>2 DEF Callings, Working, Events
      <4> QED
        BY <4>1, <4>2, <4>3
    <3> QED
      BY <1>7, <3>1, <3>2 DEF Model!Attempt
  <2>5. PICK d \in Callings : v1' = [v1 EXCEPT ![t] = d] /\ d.pc = "save" /\ d.event \in {"answer", "error", "retry"}
    BY <2>4
  <2>6. RowsFit(d, v4, v5[t], a, v7[t])
    BY <1>9, <2>1, <2>2, <2>5 DEF RowsFit, Owes
  <2>7. GateFits(d, e)
    BY <1>9, <2>1, <2>5 DEF GateFits, Working
  <2>8. v2' = [v2 EXCEPT ![t] = e] /\ v5' = [v5 EXCEPT ![t] = v5[t]] /\ v7' = [v7 EXCEPT ![t] = v7[t]]
        /\ v4' = v4
    BY <1>9, <2>1
  <2> QED
    BY <1>9, <2>3, <2>5, <2>6, <2>7, <2>8, CallTurns
<1>10. ASSUME Model!Save(t)
       PROVE  CallsFit'
  <2>1. c.pc = "save" /\ UNCHANGED <<v4, v5, v6>>
    BY <1>10 DEF Model!Save
  <2>2. PICK w : w = IF c.event = "hit" THEN v7[t] ELSE v7[t] + 1
    OBVIOUS
  <2>3. w \in Nat /\ v7' = [v7 EXCEPT ![t] = w]
    BY <1>9, <1>10, <2>2 DEF Model!Save
  <2>4. PICK again : again = [Model!Fresh EXCEPT !.pc = "reserve", !.try = c.try + 1]
    OBVIOUS
  <2>5. again \in Callings /\ again.pc = "reserve"
    <3>1. PICK k : k = c.try + 1
      OBVIOUS
    <3>2. k \in Nat
      BY <1>9, <3>1 DEF Callings
    <3>3. again = [Model!Fresh EXCEPT !.pc = "reserve", !.try = k]
      BY <2>4, <3>1
    <3> QED
      BY <3>2, <3>3, FreshIs DEF Callings, Working
  <2>6. PICK d : d = IF c.event = "retry" THEN again ELSE Model!Fresh
    OBVIOUS
  <2>7. d \in Callings /\ (d.pc = "reserve" \/ d.pc = "ready") /\ (c.event # "retry" => d.pc = "ready")
    BY <2>5, <2>6, FreshIs
  <2>8. v1' = [v1 EXCEPT ![t] = d]
    BY <1>9, <1>10, <2>4, <2>6 DEF Model!Save
  <2>9. RowsFit(d, v4, v5[t], v6[t], w)
    BY <1>9, <2>1, <2>2, <2>7 DEF RowsFit, Owes
  <2>10. e.tokens \in Nat /\ c.tokens \in 0 .. PerCall /\ e.tokens < TokenBudget /\ e.stop = "none"
         /\ e.calls \in Nat /\ e.calls <= MaxCalls
    BY <1>9, <2>1 DEF GateFits, Working, Ledgers, Callings
  <2>11. PICK n : n = e.tokens + c.tokens
    OBVIOUS
  <2>12. n \in Nat /\ n < TokenBudget + PerCall
    BY <1>0, <2>10, <2>11
  <2>13. PICK f : f = [e EXCEPT !.tokens = n]
    OBVIOUS
  <2>14. f \in Ledgers /\ f.tokens = n /\ f.stop = "none" /\ f.calls = e.calls
    BY <1>9, <2>10, <2>12, <2>13 DEF Ledgers
  <2>15. v2' = [v2 EXCEPT ![t] = e] \/ (c.event # "retry" /\ v2' = [v2 EXCEPT ![t] = f])
    <3>1. \/ c.event \in {"hit", "answer"} /\ v2' = [v2 EXCEPT ![t].tokens = @ + c.tokens]
          \/ v2' = v2
      BY <1>10 DEF Model!Save
    <3>2. [v2 EXCEPT ![t].tokens = @ + c.tokens] = [v2 EXCEPT ![t] = f]
      BY <2>11, <2>13
    <3> QED
      BY <1>9, <3>1, <3>2
  <2>16. c.event # "retry" => GateFits(d, f)
    BY <1>0, <2>7, <2>10, <2>12, <2>14 DEF GateFits, Working
  <2>17. GateFits(d, e)
    BY <1>9, <2>1, <2>7, <2>10 DEF GateFits, Working
  <2>18. v5' = [v5 EXCEPT ![t] = v5[t]] /\ v6' = [v6 EXCEPT ![t] = v6[t]] /\ v4' = v4
    BY <1>9, <2>1
  <2> QED
    BY <1>9, <2>3, <2>7, <2>8, <2>9, <2>14, <2>15, <2>16, <2>17, <2>18, CallTurns
<1>11. ASSUME Model!SaveFails(t)
       PROVE  CallsFit'
  <2>1. c.pc = "save" /\ UNCHANGED <<v2, v4, v5, v6, v7>>
    BY <1>11 DEF Model!SaveFails
  <2>2. PICK d : d = [c EXCEPT !.pc = "lose"]
    OBVIOUS
  <2>3. d \in Callings /\ d.pc = "lose" /\ d.event = c.event
    BY <1>9, <2>2 DEF Callings, Working
  <2>4. RowsFit(d, v4, v5[t], v6[t], v7[t])
    BY <1>9, <2>1, <2>3 DEF RowsFit, Owes
  <2>5. v1' = [v1 EXCEPT ![t] = d]
    BY <1>11, <2>2 DEF Model!SaveFails
  <2> QED
    BY <1>3, <2>1, <2>3, <2>4, <2>5 DEF Working
<1>12. ASSUME Model!Lose(t)
       PROVE  CallsFit'
  <2>1. c.pc = "lose" /\ UNCHANGED <<v2, v5, v6, v7>> /\ v4' = TRUE /\ v1' = [v1 EXCEPT ![t] = Model!Fresh]
    BY <1>12 DEF Model!Lose
  <2>2. RowsFit(Model!Fresh, v4', v5[t], v6[t], v7[t])
    BY <1>9, <2>1, FreshIs DEF RowsFit, Owes
  <2>3. GateFits(Model!Fresh, e)
    BY <1>9, <2>1, FreshIs DEF GateFits, Working
  <2>4. v2' = [v2 EXCEPT ![t] = e] /\ v5' = [v5 EXCEPT ![t] = v5[t]] /\ v6' = [v6 EXCEPT ![t] = v6[t]]
        /\ v7' = [v7 EXCEPT ![t] = v7[t]] /\ v4' \in BOOLEAN /\ (v4 => v4')
    BY <1>9, <2>1
  <2>5. v1' = [v1 EXCEPT ![t] = Model!Fresh] /\ Model!Fresh \in Callings
    BY <2>1, FreshIs
  <2> QED
    BY <1>9, <2>2, <2>3, <2>4, <2>5, CallTurns
<1>13. ASSUME Model!End(t)
       PROVE  CallsFit'
  <2>1. c.pc \in {"ready", "end"} /\ UNCHANGED <<v4, v5, v6, v7>>
    BY <1>13 DEF Model!End
  <2>2. PICK d : d = [c EXCEPT !.pc = "idle"]
    OBVIOUS
  <2>3. d \in Callings /\ d.pc = "idle"
    BY <1>9, <2>2 DEF Callings
  <2>4. PICK stop : stop = IF e.stop = "none" THEN "completed" ELSE e.stop
    OBVIOUS
  <2>5. PICK f : f = [e EXCEPT !.stop = stop]
    OBVIOUS
  <2>6. f \in Ledgers /\ f.stop = stop /\ f.calls = e.calls /\ f.tokens = e.tokens
    BY <1>9, <2>4, <2>5 DEF Ledgers
  <2>7. v1' = [v1 EXCEPT ![t] = d] /\ v2' = [v2 EXCEPT ![t] = f]
    BY <1>13, <2>2, <2>4, <2>5 DEF Model!End
  <2>8. RowsFit(d, v4, v5[t], v6[t], v7[t])
    BY <1>9, <2>1, <2>3 DEF RowsFit, Owes
  <2>9. GateFits(d, f)
    BY <1>9, <2>3, <2>4, <2>6 DEF GateFits, Working
  <2> QED
    BY <1>8, <2>1, <2>3, <2>6, <2>7, <2>8, <2>9
<1> QED
  BY <1>1, <1>2, <1>4, <1>5, <1>6, <1>7, <1>10, <1>11, <1>12, <1>13

LEMMA CallsGive ==
  ASSUME CallsFit
  PROVE  Model!SpendIsOnFile /\ Model!BudgetIsKept
<1>1. ASSUME NEW t \in Threads
      PROVE  /\ v7[t] <= v6[t] /\ v6[t] <= v7[t] + 1
             /\ v6[t] > v7[t] => v1[t].pc \in {"save", "lose"} \/ v4
             /\ v5[t] = v6[t] + (IF v1[t].pc = "attempt" THEN 1 ELSE 0)
  BY <1>1, CallOf DEF RowsFit, Owes
<1>2. Model!BudgetIsKept
  BY CallOf DEF GateFits, Model!BudgetIsKept
<1> QED
  BY <1>1, <1>2 DEF Model!SpendIsOnFile

LEMMA CallsFineAlways == ASSUME CallsAreGiven PROVE Spec => []CallsFine
<1>1. Init => CallsFine
  BY CallsStart DEF Init, CallsFine
<1>2. CallsFine /\ [Next]_allVars => CallsFine'
  <2> SUFFICES ASSUME CallsFine, [Next]_allVars, part' = "model"
               PROVE  CallsFit'
    BY DEF CallsFine
  <2>1. part = "model"
    BY DEF Next, allVars
  <2>2. CallsFit
    BY <2>1 DEF CallsFine
  <2>3. CASE Model!Next
    BY <2>2, <2>3, CallStepFits DEF Model!Next
  <2>4. CASE UNCHANGED <<v1, v2, v3, v4, v5, v6, v7, v8>>
    BY <2>2, <2>4 DEF CallsFit, CallsTyped, CallFits, RowsFit
  <2> QED
    BY <2>1, <2>3, <2>4, CallsActs
<1> QED
  BY <1>1, <1>2, PTL DEF Spec

---------------------------------------------------------------------------
(* The requests of the models *)

(* What a client is asked depends on its own record only.                  *)
EffectiveOf(k, r) ==
  LET params == [temperature |-> r.temperature, timeout |-> k.timeout, system_prompt |-> r.system]
      thinking == IF k.thinking = Asked!None THEN <<>> ELSE [enable_thinking |-> k.thinking]
      custom == DOMAIN r.custom \ Asked!Reserved
  IN [field \in custom \cup DOMAIN params \cup DOMAIN thinking |->
        IF field \in custom THEN r.custom[field]
        ELSE IF field \in DOMAIN params THEN params[field] ELSE thinking[field]]
Params(e) == Asked!Restrict(e, DOMAIN e \ {"timeout"})
KeyOf(k, r) == [provider |-> k.provider, base |-> k.base, params |-> Params(EffectiveOf(k, r))]
SentFrom(provider, base, e) ==
  LET Has(field) == field \in DOMAIN e
      thinking == IF ~Has("enable_thinking") \/ provider = "anthropic" THEN Asked!None
                  ELSE e.enable_thinking
  IN [base |-> base,
      anthropic |-> provider = "anthropic",
      system |-> IF e.system_prompt = "empty" THEN Asked!None ELSE e.system_prompt,
      temperature |-> e.temperature,
      body |-> IF Has("extra_body") THEN e.extra_body ELSE Asked!None,
      thinking |-> IF thinking = Asked!None THEN <<>>
                   ELSE <<thinking, provider = "deepseek">>,
      others |-> Asked!Restrict(e, DOMAIN e \
                   {"system_prompt", "temperature", "timeout", "enable_thinking", "extra_body"})]
SentOf(k, r) == SentFrom(k.provider, k.base, EffectiveOf(k, r))

(* A price, and what of it is the evaluation's own.                        *)
PricingOf(k, c, m) ==
  LET model == IF Asked!Alias \in k.overrides THEN Asked!Alias ELSE m
      Begins(S) == {p \in S : Asked!IsPrefix(p, model)}
  IN IF model \in k.overrides THEN Asked!Price("override", model, c)
     ELSE IF Begins(k.custom) # {}
     THEN Asked!Price("custom", Asked!Longest(Begins(k.custom)), 0)
     ELSE IF Begins(Asked!Builtin) # {}
     THEN Asked!Price("builtin", Asked!Longest(Begins(Asked!Builtin)), 0)
     ELSE Asked!Unpriced
OwnOf(k, m) == k.overrides \cap {Asked!Alias, m}

(* A cost that is told has a price and usage.                              *)
IsTold(cost, usage) == cost.known => ~usage.missing /\ cost.price # Asked!Unpriced
CostFits(k, a) ==
  /\ IsTold(a.cost, a.usage)
  /\ OwnOf(k, a.model) # {} => /\ a.cost.known = ~a.usage.missing
                               /\ a.cost.known => /\ a.cost.price.source = "override"
                                                  /\ a.cost.price.of = a.of
                                                  /\ a.cost.price.key \in OwnOf(k, a.model)
  /\ ~a.hit => a.cost = Asked!Cost(PricingOf(k, a.of, a.model), a.usage)

IsAnswer(a) ==
  /\ a = [of |-> a.of, hit |-> a.hit, failed |-> a.failed, sent |-> a.sent, model |-> a.model,
          usage |-> a.usage, cost |-> a.cost, raw |-> a.raw, field |-> a.field, text |-> a.text,
          reasoning |-> a.reasoning]
  /\ a.usage.missing \in BOOLEAN /\ IsTold(a.cost, a.usage)

(* What the cache holds somebody asked, whose configuration stays.         *)
IsAsked(key) ==
  \E d \in ModelClients, q \in Asked!Request :
    v2[d].made /\ key = KeyOf(v2[d], q) /\ v4[key].sent = SentOf(v2[d], q)

AskedFits ==
  /\ DOMAIN v2 = ModelClients
  /\ \A key \in DOMAIN v4 : IsAsked(key) /\ IsAnswer(v4[key])
  /\ ~v5.failed => v5.of \in ModelClients /\ v2[v5.of].made /\ CostFits(v2[v5.of], v5)
AskedFine == part = "request" => AskedFits

LEMMA KeyIs ==
  ASSUME NEW c, NEW r
  PROVE  Asked!Key(c, r) = KeyOf(v2[c], r) /\ Asked!Sent(c, r) = SentOf(v2[c], r)
<1>1. Asked!Effective(c, r) = EffectiveOf(v2[c], r)
  BY DEF Asked!Effective, EffectiveOf
<1> QED
  BY <1>1 DEF Asked!Key, KeyOf, Params, Asked!Sent, SentOf, SentFrom

LEMMA EffectiveHas ==
  ASSUME NEW k, NEW r
  PROVE  {"system_prompt", "temperature"} \subseteq DOMAIN EffectiveOf(k, r)
  BY DEF EffectiveOf

LEMMA SameParams ==
  ASSUME NEW e, NEW f, Params(e) = Params(f)
  PROVE  /\ \A x : x # "timeout" => /\ x \in DOMAIN e <=> x \in DOMAIN f
                                    /\ x \in DOMAIN e => e[x] = f[x]
         /\ \A S : "timeout" \in S => Asked!Restrict(e, DOMAIN e \ S) = Asked!Restrict(f, DOMAIN f \ S)
<1>1. DOMAIN Params(e) = DOMAIN e \ {"timeout"} /\ DOMAIN Params(f) = DOMAIN f \ {"timeout"}
  BY DEF Params, Asked!Restrict
<1>2. /\ \A x \in DOMAIN e \ {"timeout"} : Params(e)[x] = e[x]
      /\ \A x \in DOMAIN f \ {"timeout"} : Params(f)[x] = f[x]
  BY DEF Params, Asked!Restrict
<1>3. ASSUME NEW x, x # "timeout"
      PROVE  (x \in DOMAIN e <=> x \in DOMAIN f) /\ (x \in DOMAIN e => e[x] = f[x])
  BY <1>1, <1>2, <1>3
<1>4. ASSUME NEW S, "timeout" \in S
      PROVE  Asked!Restrict(e, DOMAIN e \ S) = Asked!Restrict(f, DOMAIN f \ S)
  <2>1. DOMAIN e \ S = DOMAIN f \ S
    BY <1>3, <1>4
  <2>2. \A x \in DOMAIN e \ S : e[x] = f[x]
    BY <1>3, <1>4
  <2> QED
    BY <2>1, <2>2 DEF Asked!Restrict
<1> QED
  BY <1>3, <1>4

(* Two questions with the same key in the cache are sent alike.            *)
LEMMA KeyTells ==
  ASSUME NEW k, NEW l, NEW r, NEW q, KeyOf(k, r) = KeyOf(l, q)
  PROVE  SentOf(k, r) = SentOf(l, q)
<1> PICK e : e = EffectiveOf(k, r)
  OBVIOUS
<1> PICK f : f = EffectiveOf(l, q)
  OBVIOUS
<1>1. k.provider = l.provider /\ k.base = l.base /\ Params(e) = Params(f)
  BY DEF KeyOf
<1>2. {"system_prompt", "temperature"} \subseteq DOMAIN e /\ {"system_prompt", "temperature"} \subseteq DOMAIN f
  BY EffectiveHas
<1>3. e.system_prompt = f.system_prompt /\ e.temperature = f.temperature
  BY <1>1, <1>2, SameParams
<1>4. /\ "enable_thinking" \in DOMAIN e <=> "enable_thinking" \in DOMAIN f
      /\ "enable_thinking" \in DOMAIN e => e.enable_thinking = f.enable_thinking
      /\ "extra_body" \in DOMAIN e <=> "extra_body" \in DOMAIN f
      /\ "extra_body" \in DOMAIN e => e.extra_body = f.extra_body
  BY <1>1, SameParams
<1>5. Asked!Restrict(e, DOMAIN e \ {"system_prompt", "temperature", "timeout", "enable_thinking", "extra_body"})
      = Asked!Restrict(f, DOMAIN f \ {"system_prompt", "temperature", "timeout", "enable_thinking", "extra_body"})
  <2>1. PICK S : S = {"system_prompt", "temperature", "timeout", "enable_thinking", "extra_body"}
    OBVIOUS
  <2>2. Asked!Restrict(e, DOMAIN e \ S) = Asked!Restrict(f, DOMAIN f \ S)
    BY <1>1, <2>1, SameParams
  <2> QED
    BY <2>1, <2>2
<1>6. SentFrom(k.provider, k.base, e) = SentFrom(k.provider, k.base, f)
  <2> PICK p : p = k.provider
    OBVIOUS
  <2>1. (IF ~("enable_thinking" \in DOMAIN e) \/ p = "anthropic" THEN Asked!None ELSE e.enable_thinking)
        = (IF ~("enable_thinking" \in DOMAIN f) \/ p = "anthropic" THEN Asked!None ELSE f.enable_thinking)
    BY <1>4
  <2>2. (IF "extra_body" \in DOMAIN e THEN e.extra_body ELSE Asked!None)
        = (IF "extra_body" \in DOMAIN f THEN f.extra_body ELSE Asked!None)
    BY <1>4
  <2> QED
    BY <1>3, <1>5, <2>1, <2>2, Zenon DEF SentFrom
<1> QED
  BY <1>1, <1>6 DEF SentOf

LEMMA PricingIs ==
  ASSUME NEW c, NEW m
  PROVE  Asked!ResponsePricing(c, m) = PricingOf(v2[c], c, m)
  BY DEF Asked!ResponsePricing, Asked!GetPricing, PricingOf

LEMMA CostIs ==
  ASSUME NEW p, NEW u, u.missing \in BOOLEAN
  PROVE  LET cost == Asked!Cost(p, u)
         IN /\ IsTold(cost, u)
            /\ p # Asked!Unpriced => cost.known = ~u.missing /\ (cost.known => cost.price = p)
<1>1. CASE u.missing \/ p = Asked!Unpriced
  <2>1. Asked!Cost(p, u).known = FALSE
    BY <1>1 DEF Asked!Cost
  <2> QED
    BY <1>1, <2>1 DEF IsTold
<1>2. CASE ~(u.missing \/ p = Asked!Unpriced)
  <2>1. Asked!Cost(p, u).known = TRUE /\ Asked!Cost(p, u).price = p
    BY <1>2 DEF Asked!Cost
  <2> QED
    BY <1>2, <2>1 DEF IsTold
<1> QED
  BY <1>1, <1>2

LEMMA OwnPrice ==
  ASSUME NEW k, NEW c, NEW m, OwnOf(k, m) # {}
  PROVE  LET p == PricingOf(k, c, m)
         IN p.source = "override" /\ p.of = c /\ p.key \in OwnOf(k, m) /\ p # Asked!Unpriced
<1> PICK n : n = IF Asked!Alias \in k.overrides THEN Asked!Alias ELSE m
  OBVIOUS
<1>1. n \in OwnOf(k, m)
  BY DEF OwnOf
<1>2. n \in k.overrides
  BY <1>1 DEF OwnOf
<1>3. PricingOf(k, c, m) = Asked!Price("override", n, c)
  BY <1>2 DEF PricingOf
<1>4. Asked!Price("override", n, c).source = "override" /\ Asked!Price("override", n, c).of = c
      /\ Asked!Price("override", n, c).key = n
  BY DEF Asked!Price
<1>5. Asked!Unpriced.source = "unknown"
  BY DEF Asked!Unpriced
<1> QED
  BY <1>1, <1>3, <1>4, <1>5

LEMMA UsageIs ==
  ASSUME NEW raw
  PROVE  Asked!Usage(raw).missing \in BOOLEAN
  BY DEF Asked!Usage

(* The cost of an answer that was priced for its client.                   *)
LEMMA PricedFits ==
  ASSUME NEW k, NEW a, a.usage.missing \in BOOLEAN,
         a.cost = Asked!Cost(PricingOf(k, a.of, a.model), a.usage)
  PROVE  CostFits(k, a)
<1> PICK p : p = PricingOf(k, a.of, a.model)
  OBVIOUS
<1>1. IsTold(a.cost, a.usage)
      /\ (p # Asked!Unpriced => a.cost.known = ~a.usage.missing /\ (a.cost.known => a.cost.price = p))
  BY CostIs
<1>2. OwnOf(k, a.model) # {} => p.source = "override" /\ p.of = a.of /\ p.key \in OwnOf(k, a.model)
                                /\ p # Asked!Unpriced
  BY OwnPrice
<1> QED
  BY <1>1, <1>2 DEF CostFits

LEMMA AskedActs ==
  ASSUME part = "request", [Next]_allVars
  PROVE  Asked!Next \/ UNCHANGED <<v1, v2, v3, v4, v5, v6, v7>>
  BY DEF Next, allVars

LEMMA AskedStarts ==
  ASSUME Asked!Init
  PROVE  AskedFits
<1>1. DOMAIN v2 = ModelClients /\ v4 = <<>> /\ v5.failed
  BY DEF Asked!Init, Asked!NoAnswer
<1> QED
  BY <1>1 DEF AskedFits

(* A client that is made leaves those that were made before as they are.   *)
LEMMA CreateFits ==
  ASSUME AskedFits, NEW c \in ModelClients, ~v2[c].made, NEW k, v2' = [v2 EXCEPT ![c] = k],
         UNCHANGED <<v4, v5>>
  PROVE  AskedFits'
<1>1. DOMAIN v2' = ModelClients /\ \A d \in ModelClients : v2[d].made => v2'[d] = v2[d]
  BY DEF AskedFits
<1>2. ASSUME NEW key \in DOMAIN v4'
      PROVE  IsAsked(key)' /\ IsAnswer(v4'[key])
  BY <1>1, <1>2 DEF AskedFits, IsAsked
<1>3. ~v5'.failed => v5'.of \in ModelClients /\ v2'[v5'.of].made /\ CostFits(v2'[v5'.of], v5')
  BY <1>1 DEF AskedFits
<1> QED
  BY <1>1, <1>2, <1>3 DEF AskedFits

LEMMA HitFits ==
  ASSUME AskedFits, NEW c \in ModelClients, NEW r \in Asked!Request, Asked!Hit(c, r)
  PROVE  AskedFits'
<1>1. PICK key : key = Asked!Key(c, r)
  OBVIOUS
<1>2. key \in DOMAIN v4 /\ v2[c].made /\ UNCHANGED <<v2, v4>>
  BY <1>1 DEF Asked!Hit
<1>3. PICK found : found = v4[key]
  OBVIOUS
<1>4. PICK cost : cost = Asked!Repriced(c, found)
  OBVIOUS
<1>5. v5' = [found EXCEPT !.of = c, !.hit = TRUE, !.cost = cost]
  BY <1>1, <1>3, <1>4 DEF Asked!Hit
<1>6. IsAnswer(found)
  BY <1>2, <1>3 DEF AskedFits
<1>7. /\ v5'.of = c /\ v5'.hit = TRUE /\ v5'.cost = cost /\ v5'.usage = found.usage
      /\ v5'.model = found.model
  BY <1>5, <1>6 DEF IsAnswer
<1>8. CostFits(v2[c], v5')
  <2>1. CASE OwnOf(v2[c], found.model) # {}
    <3>1. cost = Asked!Cost(PricingOf(v2[c], c, found.model), found.usage)
      BY <1>4, <2>1, PricingIs DEF Asked!Repriced, OwnOf
    <3>2. v5'.usage.missing \in BOOLEAN
      BY <1>6, <1>7 DEF IsAnswer
    <3> QED
      BY <1>7, <3>1, <3>2, PricedFits
  <2>2. CASE OwnOf(v2[c], found.model) = {}
    <3>1. cost = found.cost
      BY <1>4, <2>2 DEF Asked!Repriced, OwnOf
    <3> QED
      BY <1>6, <1>7, <2>2, <3>1 DEF IsAnswer, CostFits
  <2> QED
    BY <2>1, <2>2
<1>9. \A x \in DOMAIN v4' : IsAsked(x)' /\ IsAnswer(v4'[x])
  BY <1>2 DEF AskedFits, IsAsked
<1> QED
  BY <1>2, <1>7, <1>8, <1>9 DEF AskedFits

LEMMA AskAnswersFit ==
  ASSUME AskedFits, NEW c \in ModelClients, NEW r \in Asked!Request, NEW model, NEW raw, NEW field,
         NEW content, Asked!Ask(c, r, model, raw, field, content)
  PROVE  AskedFits'
<1>1. PICK named : named = IF model = <<>> THEN Asked!Alias ELSE model
  OBVIOUS
<1>2. PICK usage : usage = Asked!Usage(raw)
  OBVIOUS
<1>3. PICK key : key = Asked!Key(c, r)
  OBVIOUS
<1>4. /\ v2[c].made /\ v2' = v2 /\ v4' = [x \in {key} |-> v5']
      /\ v5' = [of |-> c, hit |-> FALSE, failed |-> FALSE, sent |-> Asked!Sent(c, r),
                model |-> named, usage |-> usage,
                cost |-> Asked!Cost(Asked!ResponsePricing(c, named), usage),
                raw |-> content, field |-> field, text |-> Asked!Text(content),
                reasoning |-> Asked!Reasoning(field, content)]
  BY <1>1, <1>2, <1>3 DEF Asked!Ask
<1>5. /\ v5'.of = c /\ v5'.sent = Asked!Sent(c, r) /\ v5'.model = named /\ v5'.usage = usage
      /\ v5'.cost = Asked!Cost(Asked!ResponsePricing(c, named), usage)
      /\ v5' = [of |-> v5'.of, hit |-> v5'.hit, failed |-> v5'.failed, sent |-> v5'.sent,
                model |-> v5'.model, usage |-> v5'.usage, cost |-> v5'.cost, raw |-> v5'.raw,
                field |-> v5'.field, text |-> v5'.text, reasoning |-> v5'.reasoning]
  BY <1>4
<1>6. usage.missing \in BOOLEAN
  BY <1>2, UsageIs
<1>7. v5'.cost = Asked!Cost(PricingOf(v2[c], v5'.of, v5'.model), v5'.usage)
  BY <1>5, PricingIs
<1>8. CostFits(v2[c], v5')
  BY <1>5, <1>6, <1>7, PricedFits
<1>9. IsAnswer(v5')
  BY <1>5, <1>6, <1>8 DEF IsAnswer, CostFits
<1>10. key = KeyOf(v2[c], r) /\ v5'.sent = SentOf(v2[c], r)
  BY <1>3, <1>5, KeyIs
<1>11. \A x \in DOMAIN v4' : x = key /\ v4'[x] = v5'
  BY <1>4
<1>12. \A x \in DOMAIN v4' : IsAsked(x)' /\ IsAnswer(v4'[x])
  BY <1>4, <1>9, <1>10, <1>11 DEF IsAsked
<1> QED
  BY <1>4, <1>5, <1>8, <1>12 DEF AskedFits

LEMMA FailFits ==
  ASSUME AskedFits, NEW c, NEW r, Asked!Fail(c, r)
  PROVE  AskedFits'
<1>1. v5'.failed = TRUE
  BY DEF Asked!Fail, Asked!NoAnswer
<1>2. UNCHANGED <<v2, v4>>
  BY DEF Asked!Fail
<1> QED
  BY <1>1, <1>2 DEF AskedFits, IsAsked

LEMMA PlainIs == Asked!Plain \in Asked!Request
  BY DEF Asked!Plain, Asked!Request

LEMMA AskedStepFits ==
  ASSUME AskedFits, Asked!Next
  PROVE  AskedFits'
<1>1. ASSUME NEW f, Asked!Edit(f)
      PROVE  AskedFits'
  BY <1>1 DEF Asked!Edit, AskedFits, IsAsked
<1>2. ASSUME NEW c \in ModelClients, NEW provider, NEW base, NEW configured, NEW env, NEW thinking,
             NEW overrides, Asked!Create(c, provider, base, configured, env, thinking, overrides)
      PROVE  AskedFits'
  BY <1>2, CreateFits DEF Asked!Create
<1>3. Asked!Questions \subseteq Asked!Request
  BY PlainIs DEF Asked!Questions, Asked!Vary
<1>4. CASE \E c \in ModelClients, r \in Asked!Request :
             \/ Asked!Hit(c, r) \/ Asked!Fail(c, r)
             \/ \E model, raw, field, content : Asked!Ask(c, r, model, raw, field, content)
  BY <1>4, HitFits, FailFits, AskAnswersFit
<1>5. CASE \E n \in Asked!Names, entry \in {"priced", "unpriced"} : Asked!Edit([v3 EXCEPT ![n] = entry])
  BY <1>1, <1>5
<1> QED
  BY <1>1, <1>2, <1>3, <1>4, <1>5 DEF Asked!Next

LEMMA AskedGives ==
  ASSUME AskedFits
  PROVE  Asked!RequestsAreOwn
<1>1. ASSUME NEW c \in ModelClients, NEW r \in Asked!Request, Asked!Key(c, r) \in DOMAIN v4
      PROVE  v4[Asked!Key(c, r)].sent = Asked!Sent(c, r)
  <2>1. PICK key : key = Asked!Key(c, r)
    OBVIOUS
  <2>2. IsAsked(key)
    BY <1>1, <2>1 DEF AskedFits
  <2>3. PICK d \in ModelClients, q \in Asked!Request :
          key = KeyOf(v2[d], q) /\ v4[key].sent = SentOf(v2[d], q)
    BY <2>2 DEF IsAsked
  <2>4. key = KeyOf(v2[c], r) /\ Asked!Sent(c, r) = SentOf(v2[c], r)
    BY <2>1, KeyIs
  <2>5. KeyOf(v2[d], q) = KeyOf(v2[c], r)
    BY <2>3, <2>4
  <2>6. SentOf(v2[d], q) = SentOf(v2[c], r)
    BY <2>5, KeyTells
  <2>7. v4[key].sent = Asked!Sent(c, r)
    BY <2>3, <2>4, <2>6
  <2> QED
    BY <2>1, <2>7
<1>2. Asked!CostIsOwn
  BY PricingIs DEF Asked!CostIsOwn, AskedFits, CostFits, OwnOf, IsTold
<1> QED
  BY <1>1, <1>2 DEF Asked!RequestsAreOwn, Asked!CacheAnswersTheSame

LEMMA AskedFineAlways == Spec => []AskedFine
<1>1. Init => AskedFine
  BY AskedStarts DEF Init, AskedFine
<1>2. AskedFine /\ [Next]_allVars => AskedFine'
  <2> SUFFICES ASSUME AskedFine, [Next]_allVars, part' = "request"
               PROVE  AskedFits'
    BY DEF AskedFine
  <2>1. part = "request"
    BY DEF Next, allVars
  <2>2. AskedFits
    BY <2>1 DEF AskedFine
  <2>3. CASE Asked!Next
    BY <2>2, <2>3, AskedStepFits
  <2>4. CASE UNCHANGED <<v1, v2, v3, v4, v5, v6, v7>>
    BY <2>2, <2>4 DEF AskedFits, IsAsked
  <2> QED
    BY <2>1, <2>3, <2>4, AskedActs
<1> QED
  BY <1>1, <1>2, PTL DEF Spec

---------------------------------------------------------------------------
(* What is paid is on file, and an answer is that of the request           *)
(* Whatever fails between an attempt, its row and its checkpoint, and      *)
(* whichever thread or process uses the cache in between: the spend is on  *)
(* file up to the row being written, no call passes a limit, every get is  *)
(* counted once, a set that nobody disturbed leaves its entry and a cache  *)
(* within its size, and a cached answer is one to the request that is made *)
(* (llm_client.py, BudgetTracker; cache.py; _cache_key of llm_client.py).  *)
THEOREM CallsAreOnFile == ASSUME CallsAreGiven, CacheIsGiven PROVE Spec => []CallsAreCharged
<1>1. CallsFine /\ CacheFine /\ AskedFine => CallsAreCharged
  BY CallsGive, CacheGives, AskedGives DEF CallsFine, CacheFine, AskedFine, CallsAreCharged
<1> QED
  BY <1>1, CallsFineAlways, CacheFineAlways, AskedFineAlways, PTL

=============================================================================
