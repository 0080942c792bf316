------------------------- MODULE Enforcement_proofs -------------------------
(* Theorems about Enforcement, for any reviewers and other requests.          *)
EXTENDS Enforcement, TLAPS

CallRecords ==
  [at : CallPlaces, copy : Documents \cup {Missing}, about : Actor, seen : RestrictionDocuments]

\* Places of a request that has read the report, or made it.
ReadPlaces ==
  {"saveFrame", "saveReport", "autoAction", "fetch", "markViewed", "acknowledge", "dismiss", "decide",
   "copy", "copying", "erase", "freeze", "restrict", "link", "release", "shred"}

CopiesRead == \A c \in Actor : calls[c].at \in ReadPlaces => calls[c].copy \in Documents

Typed == EnforcementTypeOK /\ CopiesRead

(***************************************************************************)
(* Types.                                                                  *)
(***************************************************************************)

\* What a step may do to the calls.
CallsKept ==
  /\ calls' \in [Actor -> CallRecords]
  /\ \A c \in Actor : calls'[c].at \in ReadPlaces => calls'[c].copy \in Documents

LEMMA ToKeeps ==
  ASSUME Typed, NEW c \in Actor, NEW at \in CallPlaces, To(c, at),
         at \in ReadPlaces => calls[c].at \in ReadPlaces
  PROVE  CallsKept
BY DEF Typed, EnforcementTypeOK, CopiesRead, CallsKept, CallRecords, To

LEMMA CopyKeeps ==
  ASSUME Typed, NEW c \in Actor, NEW at \in CallPlaces, NEW doc \in Documents \cup {Missing},
         calls' = [calls EXCEPT ![c].at = at, ![c].copy = doc],
         at \in ReadPlaces => doc \in Documents
  PROVE  CallsKept
BY DEF Typed, EnforcementTypeOK, CopiesRead, CallsKept, CallRecords

LEMMA PutKeeps ==
  ASSUME Typed, NEW c \in Actor, NEW at \in CallPlaces, NEW doc \in Documents \cup {Missing},
         Put(c, doc, at), at \in ReadPlaces => doc \in Documents
  PROVE  /\ CallsKept /\ report' = doc
         /\ outdated' \subseteq Actor /\ overwritten' \in BOOLEAN
<1>1. overwritten' \in BOOLEAN
  BY Zenon DEF Put
<1> QED
  BY <1>1, CopyKeeps DEF Put

LEMMA ReadKeeps ==
  ASSUME Typed, NEW c \in Actor, NEW at \in CallPlaces, Read(c, at)
  PROVE  Typed'
<1>1. CallsKept
  BY CopyKeeps DEF Read, Typed, EnforcementTypeOK
<1> QED
  BY <1>1 DEF Typed, EnforcementTypeOK, CopiesRead, CallsKept, CallRecords, Read, Clock

LEMMA SeenKeeps ==
  ASSUME Typed, NEW c \in Actor, NEW at \in CallPlaces \ ReadPlaces, NEW k \in Actor,
         NEW doc \in RestrictionDocuments,
         calls' = [calls EXCEPT ![c].at = at, ![c].about = k, ![c].seen = doc]
  PROVE  CallsKept
<1> DEFINE new == [calls[c] EXCEPT !.at = at, !.about = k, !.seen = doc]
<1>1. calls' = [calls EXCEPT ![c] = new]
  BY DEF Typed, EnforcementTypeOK
<1>2. calls \in [Actor -> CallRecords] /\ calls[c] \in CallRecords
  BY DEF Typed, EnforcementTypeOK, CallRecords
<1>3. new \in CallRecords /\ new.at = at
  BY <1>2 DEF CallRecords
<1> HIDE DEF new
<1>4. calls' \in [Actor -> CallRecords]
  BY <1>1, <1>2, <1>3
<1>5. \A d \in Actor : calls'[d].at \in ReadPlaces => calls'[d].copy \in Documents
  BY <1>1, <1>2, <1>3 DEF Typed, CopiesRead
<1> QED
  BY <1>4, <1>5 DEF CallsKept

\* A step types what it writes; the rest it leaves alone.
LEMMA KeepsTyped ==
  ASSUME Typed, CallsKept,
         report' \in Documents \cup {Missing},
         files' \in [BOOLEAN -> {"none", "part", "whole"}],
         restrictions' \in [Actor -> RestrictionDocuments],
         appeals' \in [Actor -> {"none", "claimed", "pending", "decided"}],
         {overdue', lapsed', frozen', shredded', overwritten'} \subseteq BOOLEAN,
         outdated' \subseteq Actor
  PROVE  Typed'
BY DEF Typed, EnforcementTypeOK, CopiesRead, CallsKept, CallRecords

LEMMA Unfold ==
  ASSUME Typed
  PROVE  /\ report \in Documents \cup {Missing}
         /\ files \in [BOOLEAN -> {"none", "part", "whole"}]
         /\ restrictions \in [Actor -> RestrictionDocuments]
         /\ appeals \in [Actor -> {"none", "claimed", "pending", "decided"}]
         /\ {overdue, lapsed, frozen, shredded, overwritten} \subseteq BOOLEAN
         /\ outdated \subseteq Actor
         /\ calls \in [Actor -> CallRecords]
         /\ \A c \in Actor : /\ calls[c].at \in CallPlaces
                             /\ calls[c].about \in Actor /\ calls[c].seen \in RestrictionDocuments
                             /\ calls[c].at \in ReadPlaces => calls[c].copy \in Documents
BY DEF Typed, EnforcementTypeOK, CopiesRead, CallRecords

\* What a request may change in its copy of the report.
LEMMA DocumentChanges ==
  ASSUME NEW doc \in Documents
  PROVE  /\ [doc EXCEPT !.viewed = TRUE] \in Documents
         /\ [doc EXCEPT !.hold = FALSE] \in Documents
         /\ \A s \in {"acknowledged", "dismissed", "actioned"} : [doc EXCEPT !.status = s] \in Documents
         /\ [doc EXCEPT !.restricted = TRUE, !.hold = TRUE, !.status = "escalated"] \in Documents
         /\ \A c \in Actor : [doc EXCEPT !.link = c] \in Documents
         /\ doc.restricted \in BOOLEAN
         /\ doc # Missing
BY MissingAssumption DEF Documents

LEMMA NewReportType == \A restricted \in BOOLEAN : NewReport(restricted) \in Documents
BY DEF NewReport, Documents

LEMMA SubmitType ==
  ASSUME Typed, NEW c \in Actor, submitReport(c)
  PROVE  Typed'
<1> USE Unfold DEF Clock, Trail, Is, Copy
<1>1. CASE StoreFrame(c)
  <2>1. PICK restricted \in BOOLEAN :
          /\ files' = [files EXCEPT ![restricted] = "part"]
          /\ calls' = [calls EXCEPT ![c].at = "saveFrame", ![c].copy = NewReport(restricted)]
    BY <1>1 DEF StoreFrame
  <2>2. CallsKept
    BY ZenonT(60), <2>1, NewReportType, CopyKeeps DEF CallPlaces
  <2> QED
    BY <1>1, <2>1, <2>2, KeepsTyped DEF StoreFrame
<1>2. CASE SaveFrame(c)
  <2>1. CallsKept
    BY <1>2, ToKeeps DEF SaveFrame, CallPlaces, ReadPlaces
  <2>2. Copy(c) \in Documents
    BY <1>2 DEF SaveFrame, ReadPlaces
  <2> QED
    BY <1>2, <2>1, <2>2, DocumentChanges, KeepsTyped DEF SaveFrame
<1>3. CASE SaveReport(c)
  <2>1. Copy(c) \in Documents
    BY <1>3 DEF SaveReport, ReadPlaces
  <2> QED
    BY <1>3, <2>1, PutKeeps, KeepsTyped DEF SaveReport, CallPlaces
<1>4. CASE SaveReportFails(c)
  <2>1. CallsKept
    BY <1>4, ToKeeps DEF SaveReportFails, CallPlaces, ReadPlaces
  <2>2. Copy(c) \in Documents
    BY <1>4 DEF SaveReportFails, ReadPlaces
  <2> QED
    BY <1>4, <2>1, <2>2, DocumentChanges, KeepsTyped DEF SaveReportFails
<1>5. CASE autoAction(c)
  <2>1. CallsKept
    BY <1>5, ToKeeps DEF autoAction, CallPlaces, ReadPlaces
  <2> QED
    BY <1>5, <2>1, KeepsTyped DEF autoAction
<1> QED
  BY <1>1, <1>2, <1>3, <1>4, <1>5 DEF submitReport

LEMMA RestrictType ==
  ASSUME Typed, NEW c \in Actor, restrict(c) \/ linkReport(c) \/ Broken(c)
  PROVE  Typed'
<1> USE Unfold DEF Clock, Trail, Is, Copy
<1>1. CASE restrict(c)
  <2>1. CallsKept
    BY <1>1, ToKeeps DEF restrict, CallPlaces, ReadPlaces
  <2>2. (Copy(c).status = "escalated") \in BOOLEAN
    BY Zenon
  <2>3. restrictions' \in [Actor -> RestrictionDocuments]
    BY <1>1, <2>2 DEF restrict, RestrictionDocuments
  <2> QED
    BY <1>1, <2>1, <2>3, KeepsTyped DEF restrict
<1>2. CASE linkReport(c)
  <2>1. [Copy(c) EXCEPT !.link = c] \in Documents
    BY <1>2, DocumentChanges DEF linkReport, ReadPlaces
  <2> QED
    BY <1>2, <2>1, PutKeeps, KeepsTyped DEF linkReport, CallPlaces
<1>3. CASE Broken(c)
  <2>1. CallsKept
    BY <1>3, ToKeeps DEF Broken, CallPlaces, ReadPlaces
  <2> QED
    BY <1>3, <2>1, KeepsTyped DEF Broken
<1> QED
  BY <1>1, <1>2, <1>3

LEMMA ReviewType ==
  ASSUME Typed, NEW c \in Actor,
         \/ evidenceImage(c) \/ FetchEvidence(c) \/ MarkViewed(c)
         \/ Acknowledge(c) \/ Dismiss(c) \/ RestrictUser(c) \/ releaseHold(c)
  PROVE  Typed'
<1> USE Unfold DEF Clock, Trail, Is, Copy
<1>1. CASE \E at \in {"fetch", "acknowledge", "dismiss", "decide", "release"} : Read(c, at)
  BY <1>1, ReadKeeps DEF CallPlaces
<1>2. CASE FetchEvidence(c)
  <2>1. CallsKept
    BY <1>2, ToKeeps DEF FetchEvidence, CallPlaces, ReadPlaces
  <2> QED
    BY <1>2, <2>1, KeepsTyped DEF FetchEvidence
<1>3. ASSUME NEW doc \in Documents, NEW at \in CallPlaces, Put(c, doc, at),
             UNCHANGED <<files, restrictions, appeals, Clock, shredded>>, frozen' \in BOOLEAN
      PROVE  Typed'
  BY <1>3, PutKeeps, KeepsTyped
<1>4. CASE MarkViewed(c)
  <2>1. [Copy(c) EXCEPT !.viewed = TRUE] \in Documents
    BY <1>4, DocumentChanges DEF MarkViewed, ReadPlaces
  <2> QED
    BY <1>3, <1>4, <2>1 DEF MarkViewed, CallPlaces
<1>5. ASSUME Is(c, "acknowledge") \/ Is(c, "dismiss") \/ Is(c, "decide") \/ Is(c, "release")
      PROVE  /\ \A s \in {"acknowledged", "dismissed", "actioned"} : [Copy(c) EXCEPT !.status = s] \in Documents
             /\ [Copy(c) EXCEPT !.hold = FALSE] \in Documents
  <2>1. Copy(c) \in Documents
    BY <1>5 DEF ReadPlaces
  <2> QED
    BY <2>1, DocumentChanges
<1>6. CASE Acknowledge(c)
  BY <1>1, <1>3, <1>5, <1>6 DEF Acknowledge, CallPlaces
<1>7. CASE Dismiss(c)
  BY <1>1, <1>3, <1>5, <1>7 DEF Dismiss, CallPlaces
<1>8. CASE RestrictUser(c)
  BY <1>1, <1>3, <1>5, <1>8 DEF RestrictUser, CallPlaces
<1>9. CASE releaseHold(c)
  BY <1>1, <1>3, <1>5, <1>9 DEF releaseHold, CallPlaces
<1>10. CASE evidenceImage(c)
  BY <1>1, <1>10 DEF evidenceImage
<1> QED
  BY <1>2, <1>4, <1>6, <1>7, <1>8, <1>9, <1>10

LEMMA EscalateType ==
  ASSUME Typed, NEW c \in Actor,
         escalate(c) \/ CopyEvidence(c) \/ EvidenceCopied(c) \/ EraseOriginal(c) \/ Freeze(c)
  PROVE  Typed'
<1> USE Unfold DEF Clock, Trail, Is
<1>1. CASE escalate(c)
  BY <1>1, ReadKeeps DEF escalate, CallPlaces
<1>2. CASE CopyEvidence(c)
  <2>1. CallsKept
    BY <1>2, ToKeeps DEF CopyEvidence, CallPlaces, ReadPlaces
  <2>2. files' \in [BOOLEAN -> {"none", "part", "whole"}]
    BY <1>2 DEF CopyEvidence
  <2> QED
    BY <1>2, <2>1, <2>2, KeepsTyped DEF CopyEvidence
<1>3. CASE EvidenceCopied(c) \/ EraseOriginal(c)
  <2>1. CallsKept
    BY <1>3, ToKeeps DEF EvidenceCopied, EraseOriginal, CallPlaces, ReadPlaces
  <2> QED
    BY <1>3, <2>1, KeepsTyped DEF EvidenceCopied, EraseOriginal
<1>4. CASE Freeze(c)
  <2>1. [Copy(c) EXCEPT !.restricted = TRUE, !.hold = TRUE, !.status = "escalated"] \in Documents
    BY <1>4, DocumentChanges DEF Freeze, ReadPlaces, Copy
  <2> QED
    BY <1>4, <2>1, PutKeeps, KeepsTyped DEF Freeze, CallPlaces
<1> QED
  BY <1>1, <1>2, <1>3, <1>4

LEMMA RestrictionChanges ==
  ASSUME NEW doc \in RestrictionDocuments
  PROVE  /\ [doc EXCEPT !.is = "lifted"] \in RestrictionDocuments
         /\ \A a \in {"pending", "upheld", "overturned"} : [doc EXCEPT !.appeal = a] \in RestrictionDocuments
BY DEF RestrictionDocuments

LEMMA PutRestrictionKeeps ==
  ASSUME Typed, NEW c \in Actor, NEW at \in CallPlaces \ ReadPlaces, NEW doc \in RestrictionDocuments,
         PutRestriction(c, doc, at)
  PROVE  CallsKept /\ restrictions' \in [Actor -> RestrictionDocuments]
<1>1. calls' = [calls EXCEPT ![c].at = at, ![c].about = calls[c].about, ![c].seen = doc]
  BY Unfold DEF PutRestriction, CallRecords
<1>2. calls[c].about \in Actor
  BY Unfold
<1>3. CallsKept
  BY <1>1, <1>2, SeenKeeps
<1>4. restrictions' \in [Actor -> RestrictionDocuments]
  BY <1>2, Unfold DEF PutRestriction
<1> QED
  BY <1>3, <1>4

LEMMA LiftType ==
  ASSUME Typed, NEW c \in Actor, Lift(c)
  PROVE  Typed'
<1> USE Unfold DEF Clock, Trail, Is
<1>1. CASE Is(c, "lift")
  <2>1. PICK at \in {"lifting", "done"} :
          calls' = [calls EXCEPT ![c].at = at, ![c].about = Reporter, ![c].seen = restrictions[Reporter]]
    BY <1>1 DEF Lift, CallRecords
  <2>2. at \in CallPlaces \ ReadPlaces /\ Reporter \in Actor /\ restrictions[Reporter] \in RestrictionDocuments
    BY DEF CallPlaces, ReadPlaces, Actor
  <2>3. CallsKept
    BY <2>1, <2>2, SeenKeeps
  <2> QED
    BY <1>1, <2>3, KeepsTyped DEF Lift
<1>2. CASE Is(c, "lifting")
  <2>1. CallsKept /\ restrictions' \in [Actor -> RestrictionDocuments]
    BY <1>2, RestrictionChanges, PutRestrictionKeeps DEF Lift, CallPlaces, ReadPlaces
  <2> QED
    BY <1>2, <2>1, KeepsTyped DEF Lift
<1> QED
  BY <1>1, <1>2 DEF Lift

LEMMA SubmitAppealType ==
  ASSUME Typed, NEW c \in Actor, submitAppeal(c)
  PROVE  Typed'
<1> USE Unfold DEF Clock, Trail, Is
<1>1. CASE Is(c, "new")
  <2>1. PICK k \in Actor :
          calls' = [calls EXCEPT ![c].at = "claim", ![c].about = k, ![c].seen = restrictions[k]]
    BY <1>1 DEF submitAppeal
  <2>2. "claim" \in CallPlaces \ ReadPlaces /\ restrictions[k] \in RestrictionDocuments
    BY DEF CallPlaces, ReadPlaces
  <2>3. CallsKept
    BY <2>1, <2>2, SeenKeeps
  <2> QED
    BY <1>1, <2>3, KeepsTyped DEF submitAppeal
<1>2. CASE Is(c, "claim") \/ Is(c, "file")
  <2>1. CallsKept
    BY <1>2, ToKeeps DEF submitAppeal, CallPlaces, ReadPlaces
  <2>2. appeals' \in [Actor -> {"none", "claimed", "pending", "decided"}]
    BY <1>2 DEF submitAppeal, AppealIs
  <2> QED
    BY <1>2, <2>1, <2>2, KeepsTyped DEF submitAppeal
<1>3. CASE Is(c, "appeal")
  <2>1. CallsKept /\ restrictions' \in [Actor -> RestrictionDocuments]
    BY <1>3, RestrictionChanges, PutRestrictionKeeps DEF submitAppeal, CallPlaces, ReadPlaces
  <2> QED
    BY <1>3, <2>1, KeepsTyped DEF submitAppeal
<1> QED
  BY <1>1, <1>2, <1>3 DEF submitAppeal

LEMMA DecideAppealType ==
  ASSUME Typed, NEW c \in Actor, decideAppeal(c)
  PROVE  Typed'
<1> USE Unfold DEF Clock, Trail, Is
<1>1. CASE Is(c, "new")
  <2>1. PICK k \in Actor :
          calls' = [calls EXCEPT ![c].at = "judge", ![c].about = k, ![c].seen = restrictions[k]]
    BY <1>1 DEF decideAppeal
  <2>2. "judge" \in CallPlaces \ ReadPlaces /\ restrictions[k] \in RestrictionDocuments
    BY DEF CallPlaces, ReadPlaces
  <2>3. CallsKept
    BY <2>1, <2>2, SeenKeeps
  <2> QED
    BY <1>1, <2>3, KeepsTyped DEF decideAppeal
<1>2. CASE Is(c, "judge")
  <2>1. PICK verdict \in {"upheld", "overturned"} :
          calls' = [calls EXCEPT ![c].at = "rule", ![c].seen.appeal = verdict]
    BY <1>2 DEF decideAppeal
  <2>2. calls' = [calls EXCEPT ![c].at = "rule", ![c].about = calls[c].about,
                               ![c].seen = [calls[c].seen EXCEPT !.appeal = verdict]]
    BY <2>1 DEF CallRecords
  <2>3. CallsKept
    BY <2>2, SeenKeeps, RestrictionChanges DEF CallPlaces, ReadPlaces
  <2>4. appeals' \in [Actor -> {"none", "claimed", "pending", "decided"}]
    BY <1>2 DEF decideAppeal, AppealIs
  <2> QED
    BY <1>2, <2>3, <2>4, KeepsTyped DEF decideAppeal
<1>3. CASE Is(c, "rule") \/ Is(c, "overturn")
  <2>1. CallsKept /\ restrictions' \in [Actor -> RestrictionDocuments]
    BY <1>3, RestrictionChanges, PutRestrictionKeeps DEF decideAppeal, CallPlaces, ReadPlaces
  <2> QED
    BY <1>3, <2>1, KeepsTyped DEF decideAppeal
<1> QED
  BY <1>1, <1>2, <1>3 DEF decideAppeal

LEMMA SweepType ==
  ASSUME Typed, NEW c \in Actor, sweepRetention(c)
  PROVE  Typed'
<1> USE Unfold DEF Clock, Trail, Is, Copy
<1>1. CASE Read(c, "shred")
  BY <1>1, ReadKeeps DEF CallPlaces
<1>2. CASE Is(c, "shred")
  <2>1. CallsKept
    BY <1>2, ToKeeps DEF sweepRetention, CallPlaces, ReadPlaces, Read
  <2>2. Copy(c).restricted \in BOOLEAN
    BY <1>2, DocumentChanges DEF ReadPlaces
  <2>3. files' \in [BOOLEAN -> {"none", "part", "whole"}]
    BY <1>2, <2>2 DEF sweepRetention, Read
  <2> QED
    BY <1>2, <2>1, <2>3, KeepsTyped DEF sweepRetention, Read
<1>3. CASE Is(c, "drop")
  BY <1>3, PutKeeps, KeepsTyped DEF sweepRetention, CallPlaces, ReadPlaces, Read
<1> QED
  BY <1>1, <1>2, <1>3 DEF sweepRetention

LEMMA EnforcementNextType ==
  ASSUME Typed, [EnforcementNext]_enforcementVars
  PROVE  Typed'
<1>1. CASE UNCHANGED enforcementVars
  BY <1>1 DEF enforcementVars, Typed, EnforcementTypeOK, CopiesRead
<1>2. CASE YearPasses
  <2>1. {overdue', lapsed'} \subseteq BOOLEAN
    BY <1>2, Unfold, Zenon DEF YearPasses
  <2> QED
    BY <1>2, <2>1 DEF YearPasses, Typed, EnforcementTypeOK, CopiesRead, Trail
<1>3. ASSUME NEW c \in Reviewer, Review(c)
      PROVE  Typed'
  <2>1. c \in Actor
    BY DEF Actor, Caller
  <2> QED
    BY <1>3, <2>1, ReviewType, LiftType, EscalateType, DecideAppealType DEF Review
<1>4. ASSUME NEW c \in Outsider, submitAppeal(c) \/ sweepRetention(c)
      PROVE  Typed'
  <2>1. c \in Actor
    BY DEF Actor, Caller
  <2> QED
    BY <1>4, <2>1, SubmitAppealType, SweepType
<1>5. CASE submitReport(Reporter)
  BY <1>5, SubmitType DEF Actor
<1> QED
  BY <1>1, <1>2, <1>3, <1>4, <1>5, RestrictType DEF EnforcementNext

LEMMA EnforcementInitType == EnforcementInit => Typed
<1> SUFFICES ASSUME EnforcementInit PROVE Typed
  OBVIOUS
<1>1. NoRestriction \in RestrictionDocuments /\ Reporter \in Actor
  BY DEF NoRestriction, RestrictionDocuments, Actor
<1>2. calls \in [Actor -> CallRecords]
  BY <1>1 DEF EnforcementInit, CallRecords, CallPlaces
<1>3. CopiesRead
  BY DEF EnforcementInit, CopiesRead, ReadPlaces
<1>4. {overdue, lapsed, frozen, shredded, overwritten} \subseteq BOOLEAN
  BY Zenon DEF EnforcementInit
<1> QED
  BY <1>1, <1>2, <1>3, <1>4 DEF EnforcementInit, Typed, EnforcementTypeOK, CallRecords

\* Every variable of enforcement keeps its type.
THEOREM EnforcementTypeCorrect == EnforcementSpec => []EnforcementTypeOK
<1>1. Typed => EnforcementTypeOK
  BY DEF Typed
<1> QED
  BY <1>1, EnforcementInitType, EnforcementNextType, PTL DEF EnforcementSpec

(***************************************************************************)
(* Evidence.                                                               *)
(***************************************************************************)

Submitting == {"storeFrame", "saveFrame", "saveReport"}

\* Before the report is stored nobody but the reporter has done anything, and the
\* frame it is about to store is complete.
Untouched ==
  report = Missing /\ ~shredded =>
    /\ \A c \in Caller : calls[c].at = "new"
    /\ \A k \in Actor : restrictions[k].is = "none" /\ appeals[k] = "none"
    /\ calls[Reporter].at \in Submitting \cup {"failed"}
    /\ calls[Reporter].at = "saveReport" => files[calls[Reporter].copy.restricted] = "whole"
NotYetStored == calls[Reporter].at \in Submitting => report = Missing /\ ~shredded

\* The original is deleted only next to a complete copy, the report after its frame.
ErasedCopies == ~shredded => \A c \in Actor : calls[c].at = "erase" => files[TRUE] = "whole"
DropsLast == \A c \in Actor : calls[c].at = "drop" => shredded
OneWhole == report # Missing /\ ~shredded => files[TRUE] = "whole" \/ files[FALSE] = "whole"

Kept == Untouched /\ NotYetStored /\ ErasedCopies /\ DropsLast /\ OneWhole

\* A request that is under way found the report.
LEMMA UnderWay ==
  ASSUME Kept, NEW c \in Actor, calls[c].at \notin Submitting \cup {"new", "failed"}
  PROVE  report # Missing \/ shredded
BY DEF Kept, Untouched, Actor

\* A step of c that leaves the frame and the report's existence alone.
LEMMA FilesLeftAlone ==
  ASSUME Kept, NEW c \in Actor, NEW at, UNCHANGED <<files, shredded>>,
         report # Missing \/ shredded, report' = report \/ report' # Missing,
         \A d \in Actor : calls'[d].at = IF d = c THEN at ELSE calls[d].at,
         at \notin Submitting \cup {"drop", "erase"}
  PROVE  Kept'
<1> USE DEF Kept
<1>1. Reporter \in Actor
  BY DEF Actor
<1>2. NotYetStored' /\ Untouched'
  BY <1>1 DEF NotYetStored, Untouched
<1>3. ErasedCopies' /\ DropsLast' /\ OneWhole'
  BY DEF ErasedCopies, DropsLast, OneWhole
<1> QED
  BY <1>2, <1>3

\* The same of the steps written with To and Put.
LEMMA ToLeavesAlone ==
  ASSUME Typed, Kept, NEW c \in Actor, NEW at, To(c, at), UNCHANGED <<files, shredded, report>>,
         at \notin Submitting \cup {"drop", "erase"},
         calls[c].at \notin Submitting \cup {"new", "failed"}
  PROVE  Kept'
<1>1. \A d \in Actor : calls'[d].at = IF d = c THEN at ELSE calls[d].at
  BY DEF To, Typed, EnforcementTypeOK
<1>2. report # Missing \/ shredded
  BY UnderWay
<1>3. report' = report /\ UNCHANGED <<files, shredded>>
  OBVIOUS
<1> QED
  BY <1>1, <1>2, <1>3, FilesLeftAlone

LEMMA PutLeavesAlone ==
  ASSUME Typed, Kept, NEW c \in Actor, NEW at, NEW doc \in Documents, Put(c, doc, at),
         UNCHANGED <<files, shredded>>, at \notin Submitting \cup {"drop", "erase"},
         calls[c].at \notin Submitting \cup {"new", "failed"}
  PROVE  Kept'
<1>1. \A d \in Actor : calls'[d].at = IF d = c THEN at ELSE calls[d].at
  BY DEF Put, Typed, EnforcementTypeOK
<1>2. report' # Missing
  BY DocumentChanges DEF Put
<1>3. report # Missing \/ shredded
  BY UnderWay
<1> QED
  BY <1>1, <1>2, <1>3, FilesLeftAlone

LEMMA ReadLeavesAlone ==
  ASSUME Typed, Kept, NEW c \in Actor, NEW at, Read(c, at), at \notin Submitting \cup {"drop", "erase"}
  PROVE  Kept'
<1>1. \A d \in Actor : calls'[d].at = IF d = c THEN at ELSE calls[d].at
  BY DEF Read, Typed, EnforcementTypeOK
<1>2. report # Missing /\ report' = report /\ UNCHANGED <<files, shredded>>
  BY DEF Read
<1> QED
  BY <1>1, <1>2, FilesLeftAlone

LEMMA SubmitKeeps ==
  ASSUME Typed, Kept, submitReport(Reporter)
  PROVE  Kept'
<1> USE Unfold DEF Is, Copy, Clock, Trail
<1>1. Reporter \in Actor /\ \A c \in Caller : c \in Actor /\ c # Reporter
  BY EnforcementAssumption DEF Actor
<1>2. \A c \in Actor : c = Reporter \/ c \in Caller
  BY DEF Actor
<1>3. CASE StoreFrame(Reporter) \/ SaveFrame(Reporter)
  <2>1. report = Missing /\ ~shredded /\ UNCHANGED <<report, shredded, restrictions, appeals>>
    BY <1>3 DEF StoreFrame, SaveFrame, Kept, NotYetStored, Submitting
  <2>2. /\ calls'[Reporter].at \in {"saveFrame", "saveReport"}
        /\ \A c \in Caller : calls'[c].at = calls[c].at
    <3>1. CASE StoreFrame(Reporter)
      BY <1>1, <3>1 DEF StoreFrame
    <3>2. CASE SaveFrame(Reporter)
      BY <1>1, <3>2 DEF SaveFrame, To
    <3> QED
      BY <1>3, <3>1, <3>2
  <2>3. calls'[Reporter].at = "saveReport" => files'[calls'[Reporter].copy.restricted] = "whole"
    <3>1. CASE StoreFrame(Reporter)
      BY <1>1, <3>1 DEF StoreFrame
    <3>2. CASE SaveFrame(Reporter)
      <4>1. calls[Reporter].copy.restricted \in BOOLEAN
        BY <1>1, <3>2, DocumentChanges DEF SaveFrame, ReadPlaces
      <4>2. calls'[Reporter].copy = calls[Reporter].copy
        BY <1>1, <3>2 DEF SaveFrame, To
      <4> QED
        BY <3>2, <4>1, <4>2 DEF SaveFrame
    <3> QED
      BY <1>3, <3>1, <3>2
  <2>4. Untouched'
    BY <2>1, <2>2, <2>3 DEF Kept, Untouched, Submitting
  <2>5. NotYetStored' /\ ErasedCopies' /\ DropsLast' /\ OneWhole'
    BY <1>2, <2>1, <2>2 DEF Kept, Untouched, NotYetStored, ErasedCopies, DropsLast, OneWhole
  <2> QED
    BY <2>4, <2>5 DEF Kept
<1>4. CASE SaveReport(Reporter)
  <2>1. report = Missing /\ ~shredded /\ UNCHANGED <<shredded, files>>
    BY <1>4 DEF SaveReport, Kept, NotYetStored, Submitting
  <2>2. calls[Reporter].copy \in Documents /\ report' = calls[Reporter].copy
    BY <1>1, <1>4 DEF SaveReport, Put, ReadPlaces
  <2>3. /\ files[calls[Reporter].copy.restricted] = "whole"
        /\ \A c \in Caller : calls[c].at = "new"
    BY <1>4, <2>1 DEF SaveReport, Kept, Untouched
  <2>4. calls'[Reporter].at = "autoAction" /\ \A c \in Caller : calls'[c].at = calls[c].at
    BY <1>1, <1>4 DEF SaveReport, Put
  <2>5. OneWhole'
    <3>1. calls[Reporter].copy.restricted \in {TRUE, FALSE}
      BY <2>2, DocumentChanges
    <3> QED
      BY <2>1, <2>3, <3>1 DEF OneWhole
  <2>6. report' # Missing
    BY <2>2, DocumentChanges
  <2> QED
    BY <1>2, <2>1, <2>3, <2>4, <2>5, <2>6
       DEF Kept, Untouched, NotYetStored, ErasedCopies, DropsLast, Submitting
<1>5. CASE SaveReportFails(Reporter)
  <2>1. shredded' /\ calls'[Reporter].at = "failed"
    BY <1>1, <1>5 DEF SaveReportFails, To
  <2> QED
    BY <2>1 DEF Kept, Untouched, NotYetStored, ErasedCopies, DropsLast, OneWhole, Submitting
<1>6. CASE autoAction(Reporter)
  BY <1>1, <1>6, ToLeavesAlone DEF autoAction, Submitting
<1> QED
  BY <1>3, <1>4, <1>5, <1>6 DEF submitReport

LEMMA RestrictKeeps ==
  ASSUME Typed, Kept, NEW c \in Actor, restrict(c) \/ linkReport(c) \/ Broken(c)
  PROVE  Kept'
<1> USE DEF Is, Clock, Trail
<1>1. CASE restrict(c)
  <2>1. report # Missing \/ shredded
    BY <1>1, UnderWay DEF restrict, Submitting
  <2> QED
    BY <1>1, ToLeavesAlone DEF restrict, Submitting
<1>2. CASE linkReport(c)
  <2>1. [Copy(c) EXCEPT !.link = c] \in Documents
    BY <1>2, Unfold, DocumentChanges DEF linkReport, ReadPlaces, Copy
  <2> QED
    BY <1>2, <2>1, PutLeavesAlone DEF linkReport, Submitting
<1>3. CASE Broken(c)
  <2>1. \A d \in Actor : calls'[d].at = IF d = c THEN "failed" ELSE calls[d].at
    BY <1>3, Unfold DEF Broken, To
  <2>2. UNCHANGED <<report, files, restrictions, appeals, shredded>> /\ calls[c].at # "new"
    BY <1>3 DEF Broken
  <2>3. Reporter \in Actor /\ \A d \in Caller : d \in Actor
    BY DEF Actor
  <2>4. Untouched'
    <3> SUFFICES ASSUME report = Missing, ~shredded
                 PROVE  /\ \A d \in Caller : calls'[d].at = "new"
                        /\ calls'[Reporter].at \in Submitting \cup {"failed"}
                        /\ calls'[Reporter].at = "saveReport" =>
                             files'[calls'[Reporter].copy.restricted] = "whole"
      BY <2>2 DEF Kept, Untouched
    <3>1. c = Reporter /\ calls'[Reporter].at = "failed"
      BY <2>1, <2>2, <2>3 DEF Kept, Untouched, Actor
    <3> QED
      BY <2>1, <2>3, <3>1, EnforcementAssumption DEF Kept, Untouched, Actor
  <2>5. NotYetStored' /\ ErasedCopies' /\ DropsLast' /\ OneWhole'
    BY <2>1, <2>2, <2>3 DEF Kept, NotYetStored, ErasedCopies, DropsLast, OneWhole, Submitting
  <2> QED
    BY <2>4, <2>5 DEF Kept
<1> QED
  BY <1>1, <1>2, <1>3

LEMMA ReviewKeeps ==
  ASSUME Typed, Kept, NEW c \in Actor,
         \/ evidenceImage(c) \/ FetchEvidence(c) \/ MarkViewed(c)
         \/ Acknowledge(c) \/ Dismiss(c) \/ RestrictUser(c) \/ releaseHold(c)
         \/ escalate(c) \/ Freeze(c)
  PROVE  Kept'
<1> USE DEF Is, Clock, Trail, Submitting
<1>1. CASE \E at \in {"fetch", "acknowledge", "dismiss", "decide", "release", "freeze", "copy"} : Read(c, at)
  BY <1>1, ReadLeavesAlone
<1>2. CASE FetchEvidence(c)
  BY <1>2, ToLeavesAlone DEF FetchEvidence
<1>3. ASSUME NEW doc \in Documents, NEW at \in {"done", "lift", "restrict"}, Put(c, doc, at),
             UNCHANGED <<files, shredded>>, calls[c].at \in ReadPlaces \ Submitting
      PROVE  Kept'
  BY <1>3, PutLeavesAlone DEF ReadPlaces
<1>4. ASSUME calls[c].at \in ReadPlaces
      PROVE  /\ \A s \in {"acknowledged", "dismissed", "actioned"} : [Copy(c) EXCEPT !.status = s] \in Documents
             /\ [Copy(c) EXCEPT !.hold = FALSE] \in Documents
             /\ [Copy(c) EXCEPT !.viewed = TRUE] \in Documents
             /\ [Copy(c) EXCEPT !.restricted = TRUE, !.hold = TRUE, !.status = "escalated"] \in Documents
  <2>1. Copy(c) \in Documents
    BY <1>4, Unfold DEF Copy
  <2> QED
    BY <2>1, DocumentChanges
<1>5. CASE MarkViewed(c)
  BY <1>3, <1>4, <1>5 DEF MarkViewed, ReadPlaces
<1>6. CASE Acknowledge(c)
  BY <1>1, <1>3, <1>4, <1>6 DEF Acknowledge, ReadPlaces
<1>7. CASE Dismiss(c)
  BY <1>1, <1>3, <1>4, <1>7 DEF Dismiss, ReadPlaces
<1>8. CASE RestrictUser(c)
  BY <1>1, <1>3, <1>4, <1>8 DEF RestrictUser, ReadPlaces
<1>9. CASE releaseHold(c)
  BY <1>1, <1>3, <1>4, <1>9 DEF releaseHold, ReadPlaces
<1>10. CASE Freeze(c)
  BY <1>3, <1>4, <1>10 DEF Freeze, ReadPlaces
<1>11. CASE evidenceImage(c) \/ escalate(c)
  BY <1>1, <1>11 DEF evidenceImage, escalate
<1> QED
  BY <1>2, <1>5, <1>6, <1>7, <1>8, <1>9, <1>10, <1>11

\* The original goes only after its copy: the step the whole theorem is about.
LEMMA CopyStepKeeps ==
  ASSUME Typed, Kept, NEW c \in Actor, CopyEvidence(c) \/ EvidenceCopied(c) \/ EraseOriginal(c)
  PROVE  Kept'
<1> USE Unfold DEF Is, Clock, Trail, To
<1>1. report # Missing \/ shredded
  BY UnderWay DEF CopyEvidence, EvidenceCopied, EraseOriginal, Submitting
<1>2. UNCHANGED <<report, restrictions, appeals, shredded>>
  BY DEF CopyEvidence, EvidenceCopied, EraseOriginal
<1>3. /\ calls'[c].at \in {"erase", "copying", "failed", "freeze"}
      /\ \A d \in Actor \ {c} : calls'[d].at = calls[d].at
  <2>1. PICK at \in {"erase", "copying", "failed", "freeze"} : calls' = [calls EXCEPT ![c].at = at]
    BY DEF CopyEvidence, EvidenceCopied, EraseOriginal
  <2> QED
    BY <2>1
<1>4. Untouched' /\ NotYetStored' /\ DropsLast'
  BY <1>1, <1>2, <1>3 DEF Kept, Untouched, NotYetStored, DropsLast, Submitting, Actor
<1>5. CASE shredded
  BY <1>2, <1>4, <1>5 DEF Kept, ErasedCopies, OneWhole
<1>6. CASE ~shredded
  <2>1. files[TRUE] = "whole" \/ files[FALSE] = "whole"
    BY <1>1, <1>6 DEF Kept, OneWhole
  <2>2. CASE CopyEvidence(c)
    <3>1. CASE files' = files /\ (files[TRUE] = "whole" \/ calls'[c].at # "erase")
      BY <1>2, <1>3, <1>4, <1>6, <2>1, <3>1 DEF Kept, ErasedCopies, OneWhole
    <3>2. CASE /\ files[FALSE] = "whole" /\ files[TRUE] = "none"
               /\ files' = [files EXCEPT ![TRUE] = "part"] /\ calls'[c].at = "copying"
      <4>1. files'[FALSE] = "whole"
        BY <3>2
      <4>2. \A d \in Actor : calls'[d].at # "erase"
        BY <1>3, <1>6, <3>2 DEF Kept, ErasedCopies
      <4> QED
        BY <1>4, <4>1, <4>2 DEF Kept, ErasedCopies, OneWhole
    <3>3. CASE files[FALSE] # "whole"
      BY <2>1, <2>2, <3>1, <3>3 DEF CopyEvidence
    <3>4. CASE files[FALSE] = "whole" /\ files[TRUE] = "none"
      <4>1. calls' = [calls EXCEPT ![c].at = "copying"] /\ files' = [files EXCEPT ![TRUE] = "part"]
        BY <2>2, <3>4 DEF CopyEvidence
      <4> QED
        BY <3>2, <3>4, <4>1
    <3>5. CASE files[FALSE] = "whole" /\ files[TRUE] = "part"
      <4>1. calls' = [calls EXCEPT ![c].at = "failed"] /\ files' = files
        BY <2>2, <3>5 DEF CopyEvidence
      <4> QED
        BY <3>1, <4>1
    <3>6. CASE files[FALSE] = "whole" /\ files[TRUE] = "whole"
      <4>1. files' = files
        BY <2>2, <3>6 DEF CopyEvidence
      <4> QED
        BY <3>1, <3>6, <4>1
    <3> QED
      BY <2>2, <3>3, <3>4, <3>5, <3>6 DEF CopyEvidence
  <2>3. CASE EvidenceCopied(c)
    <3>1. files'[TRUE] = "whole"
      BY <2>3 DEF EvidenceCopied
    <3> QED
      BY <1>4, <3>1 DEF Kept, ErasedCopies, OneWhole
  <2>4. CASE EraseOriginal(c)
    <3>1. files'[TRUE] = "whole"
      BY <1>6, <2>4 DEF EraseOriginal, Kept, ErasedCopies
    <3> QED
      BY <1>4, <3>1 DEF Kept, ErasedCopies, OneWhole
  <2> QED
    BY <2>2, <2>3, <2>4
<1> QED
  BY <1>5, <1>6

LEMMA AppealKeeps ==
  ASSUME Typed, Kept, NEW c \in Actor, Lift(c) \/ submitAppeal(c) \/ decideAppeal(c)
  PROVE  Kept'
<1> USE Unfold DEF Is, Clock, Trail, Submitting
<1>1. report # Missing \/ shredded
  <2>1. CASE calls[c].at = "new"
    BY <2>1 DEF Lift, submitAppeal, decideAppeal, Kept, Untouched
  <2>2. CASE calls[c].at # "new"
    <3>1. calls[c].at \notin Submitting \cup {"new", "failed"}
      BY <2>2 DEF Lift, submitAppeal, decideAppeal
    <3> QED
      BY <3>1, UnderWay
  <2> QED
    BY <2>1, <2>2
<1>2. UNCHANGED <<report, files, shredded>>
  BY DEF Lift, submitAppeal, decideAppeal
<1> DEFINE Later == {"lifting", "done", "claim", "file", "appeal", "judge", "rule", "overturn"}
<1>3. ASSUME NEW at \in Later, To(c, at)
      PROVE  Kept'
  <2>1. \A d \in Actor : calls'[d].at = IF d = c THEN at ELSE calls[d].at
    BY <1>3 DEF To
  <2> QED
    BY <1>1, <1>2, <2>1, FilesLeftAlone
<1>4. ASSUME NEW at \in Later, NEW k, NEW doc,
             calls' = [calls EXCEPT ![c].at = at, ![c].about = k, ![c].seen = doc]
      PROVE  Kept'
  <2>1. \A d \in Actor : calls'[d].at = IF d = c THEN at ELSE calls[d].at
    BY <1>4
  <2> QED
    BY <1>1, <1>2, <2>1, FilesLeftAlone
<1>5. ASSUME NEW at \in Later, NEW doc, calls' = [calls EXCEPT ![c].at = at, ![c].seen = doc]
      PROVE  Kept'
  <2>1. \A d \in Actor : calls'[d].at = IF d = c THEN at ELSE calls[d].at
    BY <1>5
  <2> QED
    BY <1>1, <1>2, <2>1, FilesLeftAlone
<1>6. ASSUME NEW at \in Later, NEW doc, PutRestriction(c, doc, at)
      PROVE  Kept'
  BY <1>5, <1>6 DEF PutRestriction
<1>7. CASE Lift(c)
  <2>1. CASE Is(c, "lift")
    <3>1. PICK at \in {"lifting", "done"} :
            calls' = [calls EXCEPT ![c].seen = restrictions[Reporter], ![c].about = Reporter, ![c].at = at]
      BY <1>7, <2>1 DEF Lift
    <3>2. \A d \in Actor : calls'[d].at = IF d = c THEN at ELSE calls[d].at
      BY <3>1
    <3> QED
      BY <1>1, <1>2, <3>2, FilesLeftAlone
  <2>2. CASE Is(c, "lifting")
    BY <1>6, <1>7, <2>2 DEF Lift
  <2> QED
    BY <1>7, <2>1, <2>2 DEF Lift
<1>8. CASE submitAppeal(c)
  BY <1>3, <1>4, <1>6, <1>8 DEF submitAppeal
<1>9. CASE decideAppeal(c)
  <2>1. CASE Is(c, "judge")
    <3>1. PICK verdict : calls' = [calls EXCEPT ![c].at = "rule", ![c].seen.appeal = verdict]
      BY <1>9, <2>1 DEF decideAppeal
    <3>2. \A d \in Actor : calls'[d].at = IF d = c THEN "rule" ELSE calls[d].at
      BY <3>1
    <3> QED
      BY <1>1, <1>2, <3>2, FilesLeftAlone
  <2>2. CASE ~Is(c, "judge")
    BY <1>4, <1>6, <1>9, <2>2 DEF decideAppeal
  <2> QED
    BY <2>1, <2>2
<1> QED
  BY <1>7, <1>8, <1>9

LEMMA SweepKeeps ==
  ASSUME Typed, Kept, NEW c \in Actor, sweepRetention(c)
  PROVE  Kept'
<1> USE Unfold DEF Is, Clock, Trail, Submitting
<1>1. CASE Read(c, "shred")
  BY <1>1, ReadLeavesAlone
<1>2. CASE Is(c, "shred") /\ shredded' = TRUE /\ To(c, "drop") /\ UNCHANGED report
  <2>1. shredded' /\ UNCHANGED report /\ \A d \in Actor : calls'[d].at = IF d = c THEN "drop" ELSE calls[d].at
    BY <1>2 DEF To
  <2>2. report # Missing \/ shredded
    BY <1>2, UnderWay
  <2>3. NotYetStored'
    BY <2>1, <2>2 DEF Kept, NotYetStored, Actor
  <2> QED
    BY <2>1, <2>3 DEF Kept, Untouched, ErasedCopies, DropsLast, OneWhole
<1>3. CASE Is(c, "drop") /\ Put(c, Missing, "done") /\ UNCHANGED shredded
  <2>1. shredded /\ UNCHANGED shredded /\ \A d \in Actor : calls'[d].at = IF d = c THEN "done" ELSE calls[d].at
    BY <1>3 DEF Put, Kept, DropsLast
  <2> QED
    BY <2>1 DEF Kept, Untouched, NotYetStored, ErasedCopies, DropsLast, OneWhole, Actor
<1> QED
  BY <1>1, <1>2, <1>3 DEF sweepRetention

LEMMA KeptNext ==
  ASSUME Typed, Kept, [EnforcementNext]_enforcementVars
  PROVE  Kept'
<1>1. CASE UNCHANGED <<report, files, restrictions, appeals, calls, shredded>>
  BY <1>1 DEF Kept, Untouched, NotYetStored, ErasedCopies, DropsLast, OneWhole
<1>2. ASSUME NEW c \in Reviewer, Review(c)
      PROVE  Kept'
  <2>1. c \in Actor
    BY DEF Actor, Caller
  <2> QED
    BY <1>2, <2>1, ReviewKeeps, CopyStepKeeps, AppealKeeps DEF Review
<1>3. ASSUME NEW c \in Outsider, submitAppeal(c) \/ sweepRetention(c)
      PROVE  Kept'
  <2>1. c \in Actor
    BY DEF Actor, Caller
  <2> QED
    BY <1>3, <2>1, AppealKeeps, SweepKeeps
<1> QED
  BY <1>1, <1>2, <1>3, SubmitKeeps, RestrictKeeps DEF EnforcementNext, enforcementVars, YearPasses, Trail

LEMMA InitKept == EnforcementInit => Kept
<1> SUFFICES ASSUME EnforcementInit PROVE Kept
  OBVIOUS
<1>1. /\ report = Missing /\ ~shredded /\ calls[Reporter].at = "storeFrame"
      /\ \A c \in Caller : calls[c].at = "new"
      /\ \A k \in Actor : restrictions[k].is = "none" /\ appeals[k] = "none"
  BY EnforcementAssumption DEF EnforcementInit, NoRestriction, Actor
<1> QED
  BY <1>1 DEF Kept, Untouched, NotYetStored, ErasedCopies, DropsLast, OneWhole, Submitting, Actor

\* A complete copy of a stored report's frame exists until the sweep deletes it
\* (escalate copies before it deletes, evidence.put refuses a half-written file),
\* whoever dies or interleaves, for any number of reviewers.
THEOREM EvidenceAlwaysSurvives == EnforcementSpec => []EvidenceSurvives
<1>1. Kept => EvidenceSurvives
  BY DEF Kept, OneWhole, EvidenceSurvives
<1> QED
  BY <1>1, InitKept, EnforcementInitType, EnforcementNextType, KeptNext, PTL DEF EnforcementSpec

(***************************************************************************)
(* The hold.                                                               *)
(***************************************************************************)

\* A request whose copy nobody changed meanwhile holds the stored report; if it is
\* about to delete the report, that one is not under hold.
CopiesAreFresh ==
  \A c \in Actor : c \notin outdated /\ calls[c].at \in (ReadPlaces \cup {"drop"}) \ Submitting
                     => calls[c].copy = report
DropsOnlyTheUnheld ==
  \A c \in Actor : c \notin outdated /\ calls[c].at \in {"shred", "drop"}
                     => lapsed \/ ~calls[c].copy.hold
NotFrozenYet == calls[Reporter].at \in Submitting => ~frozen
HoldKept == overwritten \/ LegalHoldIsKept

Held == CopiesAreFresh /\ DropsOnlyTheUnheld /\ NotFrozenYet /\ HoldKept

\* A step of c that leaves the report alone and its own copy, as far as c's next step uses it.
LEMMA ReportLeftAlone ==
  ASSUME Held, NEW c \in Actor, NEW at, UNCHANGED <<report, lapsed, frozen, outdated, overwritten>>,
         \A d \in Actor : calls'[d].at = IF d = c THEN at ELSE calls[d].at,
         \A d \in Actor : calls'[d].copy = calls[d].copy,
         at \in ReadPlaces \ Submitting => calls[c].at \in ReadPlaces \ Submitting,
         at = "drop" => calls[c].at = "shred", at # "shred",
         at \in Submitting => calls[c].at \in Submitting
  PROVE  Held'
<1>1. CopiesAreFresh'
  <2> SUFFICES ASSUME NEW d \in Actor, d \notin outdated,
                      calls'[d].at \in (ReadPlaces \cup {"drop"}) \ Submitting
               PROVE  calls'[d].copy = report
    BY DEF CopiesAreFresh
  <2>1. calls[d].at \in (ReadPlaces \cup {"drop"}) \ Submitting
    BY DEF ReadPlaces, Submitting
  <2> QED
    BY <2>1 DEF Held, CopiesAreFresh
<1>2. DropsOnlyTheUnheld'
  BY DEF Held, DropsOnlyTheUnheld
<1>3. NotFrozenYet'
  BY DEF Held, NotFrozenYet, Actor
<1>4. HoldKept'
  BY DEF Held, HoldKept, LegalHoldIsKept
<1> QED
  BY <1>1, <1>2, <1>3, <1>4 DEF Held

LEMMA ToHolds ==
  ASSUME Typed, Held, NEW c \in Actor, NEW at, To(c, at),
         UNCHANGED <<report, lapsed, frozen, outdated, overwritten>>,
         at \in ReadPlaces \ Submitting => calls[c].at \in ReadPlaces \ Submitting,
         at = "drop" => calls[c].at = "shred", at # "shred",
         at \in Submitting => calls[c].at \in Submitting
  PROVE  Held'
<1>1. /\ \A d \in Actor : calls'[d].at = IF d = c THEN at ELSE calls[d].at
      /\ \A d \in Actor : calls'[d].copy = calls[d].copy
  BY Unfold DEF To, CallRecords
<1> QED
  BY <1>1, ReportLeftAlone

LEMMA ReadHolds ==
  ASSUME Typed, Held, NEW c \in Actor, NEW at, Read(c, at), at \notin Submitting \cup {"drop"},
         at = "shred" => lapsed \/ ~report.hold
  PROVE  Held'
<1>1. /\ calls' = [calls EXCEPT ![c].at = at, ![c].copy = report] /\ outdated' = outdated \ {c}
      /\ UNCHANGED <<report, lapsed, frozen, overwritten>>
  BY DEF Read, Clock
<1>2. /\ \A d \in Actor \ {c} : calls'[d] = calls[d]
      /\ calls'[c].at = at /\ calls'[c].copy = report
  BY <1>1, Unfold DEF CallRecords
<1>3. CopiesAreFresh'
  BY <1>1, <1>2 DEF Held, CopiesAreFresh
<1>4. DropsOnlyTheUnheld'
  BY <1>1, <1>2 DEF Held, DropsOnlyTheUnheld
<1>5. NotFrozenYet'
  BY <1>1, <1>2 DEF Held, NotFrozenYet, Actor
<1>6. HoldKept'
  BY <1>1 DEF Held, HoldKept, LegalHoldIsKept
<1> QED
  BY <1>3, <1>4, <1>5, <1>6 DEF Held

\* What a put does to the others' copies, whatever it puts.
LEMMA PutHolds ==
  ASSUME Typed, Held, NEW c \in Actor, NEW doc, NEW at, Put(c, doc, at),
         at \notin Submitting \cup {"shred", "drop"},
         calls[Reporter].at \in Submitting /\ c # Reporter => ~frozen',
         HoldKept'
  PROVE  Held'
<1>1. /\ calls' = [calls EXCEPT ![c].at = at, ![c].copy = doc] /\ outdated' = Actor \ {c}
      /\ report' = doc
  BY DEF Put
<1>2. /\ \A d \in Actor \ {c} : calls'[d] = calls[d]
      /\ calls'[c].at = at /\ calls'[c].copy = doc
  BY <1>1, Unfold DEF CallRecords
<1>3. CopiesAreFresh' /\ DropsOnlyTheUnheld'
  BY <1>1, <1>2 DEF CopiesAreFresh, DropsOnlyTheUnheld
<1>4. NotFrozenYet'
  BY <1>2 DEF NotFrozenYet, Actor
<1> QED
  BY <1>3, <1>4 DEF Held

\* A request that puts a copy it read back keeps the hold of that copy: if it is not
\* outdated the stored report loses nothing, and if it is that is what overwritten says.
LEMMA CopyHolds ==
  ASSUME Typed, Held, NEW c \in Actor, NEW doc \in Documents, NEW at, Put(c, doc, at),
         at \notin Submitting \cup {"shred", "drop"},
         calls[c].at \in ReadPlaces \ Submitting,
         doc.hold = calls[c].copy.hold, doc.restricted = calls[c].copy.restricted,
         UNCHANGED <<lapsed, frozen>>
  PROVE  Held'
<1>1. report' = doc /\ (overwritten' = (overwritten \/ c \in outdated))
  BY DEF Put
<1>2. HoldKept'
  <2>1. CASE overwritten \/ c \in outdated
    <3>1. overwritten'
      BY <1>1, <2>1, Zenon
    <3> QED
      BY <3>1 DEF HoldKept
  <2>2. CASE ~(overwritten \/ c \in outdated)
    <3>1. calls[c].copy = report
      BY <2>2 DEF Held, CopiesAreFresh
    <3>2. LegalHoldIsKept
      BY <2>2 DEF Held, HoldKept
    <3>3. doc # Missing
      BY DocumentChanges
    <3>4. LegalHoldIsKept'
      BY <1>1, <3>1, <3>2, <3>3 DEF LegalHoldIsKept
    <3> QED
      BY <3>4 DEF HoldKept
  <2> QED
    BY <2>1, <2>2
<1>3. calls[Reporter].at \in Submitting => ~frozen'
  BY DEF Held, NotFrozenYet
<1> QED
  BY <1>2, <1>3, PutHolds

LEMMA SubmitHolds ==
  ASSUME Typed, Kept, Held, submitReport(Reporter)
  PROVE  Held'
<1> USE DEF Is, Copy, Clock, Trail
<1>1. Reporter \in Actor /\ \A c \in Actor : c = Reporter \/ c \in Caller
  BY DEF Actor
<1>2. CASE StoreFrame(Reporter)
  <2>1. PICK doc : calls' = [calls EXCEPT ![Reporter].at = "saveFrame", ![Reporter].copy = doc]
    BY <1>2 DEF StoreFrame
  <2>2. /\ \A d \in Actor \ {Reporter} : calls'[d] = calls[d]
        /\ calls'[Reporter].at = "saveFrame"
    BY <1>1, <2>1, Unfold DEF CallRecords
  <2>3. UNCHANGED <<report, lapsed, frozen, outdated, overwritten>>
    BY <1>2 DEF StoreFrame
  <2>4. CopiesAreFresh' /\ DropsOnlyTheUnheld'
    BY <2>2, <2>3 DEF Held, CopiesAreFresh, DropsOnlyTheUnheld, Submitting
  <2>5. NotFrozenYet' /\ HoldKept'
    BY <1>2, <2>3 DEF StoreFrame, Held, NotFrozenYet, HoldKept, LegalHoldIsKept, Submitting
  <2> QED
    BY <2>4, <2>5 DEF Held
<1>3. CASE SaveFrame(Reporter)
  BY <1>1, <1>3, ToHolds DEF SaveFrame, Submitting
<1>4. CASE SaveReport(Reporter)
  <2>1. ~frozen /\ UNCHANGED <<frozen, lapsed>> /\ Put(Reporter, Copy(Reporter), "autoAction")
    BY <1>4 DEF SaveReport, Held, NotFrozenYet, Submitting
  <2>2. HoldKept'
    BY <2>1 DEF HoldKept, LegalHoldIsKept
  <2> QED
    BY <1>1, <2>1, <2>2, PutHolds DEF Submitting
<1>5. CASE SaveReportFails(Reporter)
  <2>1. report = Missing /\ ~shredded /\ ~frozen
    BY <1>5 DEF SaveReportFails, Kept, NotYetStored, Held, NotFrozenYet, Submitting
  <2>2. \A c \in Caller : calls[c].at = "new"
    BY <2>1 DEF Kept, Untouched
  <2>3. /\ calls'[Reporter].at = "failed" /\ \A c \in Actor \ {Reporter} : calls'[c] = calls[c]
        /\ ~frozen'
    BY <1>1, <1>5, <2>1, Unfold DEF SaveReportFails, To
  <2>4. \A c \in Actor : calls'[c].at \in {"new", "failed"}
    BY <1>1, <2>2, <2>3
  <2> QED
    BY <2>3, <2>4 DEF Held, CopiesAreFresh, DropsOnlyTheUnheld, NotFrozenYet, HoldKept,
                      LegalHoldIsKept, ReadPlaces, Submitting
<1>6. CASE autoAction(Reporter)
  BY <1>1, <1>6, ToHolds DEF autoAction, Submitting, ReadPlaces
<1> QED
  BY <1>2, <1>3, <1>4, <1>5, <1>6 DEF submitReport

LEMMA RestrictHolds ==
  ASSUME Typed, Held, NEW c \in Actor, restrict(c) \/ linkReport(c) \/ Broken(c)
  PROVE  Held'
<1> USE DEF Is, Copy, Clock, Trail, Submitting, ReadPlaces
<1>1. CASE restrict(c)
  BY <1>1, ToHolds DEF restrict
<1>2. CASE linkReport(c)
  <2>1. calls[c].copy \in Documents
    BY <1>2, Unfold DEF linkReport
  <2> DEFINE doc == [calls[c].copy EXCEPT !.link = c]
  <2>2. doc \in Documents /\ doc.hold = calls[c].copy.hold /\ doc.restricted = calls[c].copy.restricted
    BY <2>1 DEF Documents
  <2>3. Put(c, doc, "done") /\ UNCHANGED <<lapsed, frozen>> /\ calls[c].at = "link"
    BY <1>2 DEF linkReport
  <2> HIDE DEF doc
  <2> QED
    BY <2>2, <2>3, CopyHolds
<1>3. CASE Broken(c)
  BY <1>3, ToHolds DEF Broken
<1> QED
  BY <1>1, <1>2, <1>3

LEMMA ReviewHolds ==
  ASSUME Typed, Kept, Held, NEW c \in Actor,
         \/ evidenceImage(c) \/ FetchEvidence(c) \/ MarkViewed(c)
         \/ Acknowledge(c) \/ Dismiss(c) \/ RestrictUser(c) \/ releaseHold(c)
         \/ escalate(c) \/ Freeze(c) \/ CopyEvidence(c) \/ EvidenceCopied(c) \/ EraseOriginal(c)
  PROVE  Held'
<1> USE DEF Is, Copy, Clock, Trail
<1>1. CASE \E at \in {"fetch", "acknowledge", "dismiss", "decide", "release", "freeze", "copy"} : Read(c, at)
  BY <1>1, ReadHolds DEF Submitting
<1>2. CASE FetchEvidence(c) \/ CopyEvidence(c) \/ EvidenceCopied(c) \/ EraseOriginal(c)
  <2>1. PICK at \in {"markViewed", "done", "erase", "copying", "failed", "freeze"} : To(c, at)
    BY <1>2 DEF FetchEvidence, CopyEvidence, EvidenceCopied, EraseOriginal
  <2>2. /\ UNCHANGED <<report, lapsed, frozen, outdated, overwritten>>
        /\ calls[c].at \in {"fetch", "copy", "copying", "erase"}
    BY <1>2 DEF FetchEvidence, CopyEvidence, EvidenceCopied, EraseOriginal
  <2> QED
    BY <2>1, <2>2, ToHolds DEF Submitting, ReadPlaces
<1>3. ASSUME NEW doc \in Documents, NEW at \in {"done", "lift", "restrict"}, Put(c, doc, at),
             UNCHANGED <<Clock, frozen>>, calls[c].at \in ReadPlaces \ Submitting,
             doc.hold = calls[c].copy.hold, doc.restricted = calls[c].copy.restricted
      PROVE  Held'
  BY <1>3, CopyHolds DEF Submitting
<1>4. ASSUME calls[c].at \in ReadPlaces
      PROVE  /\ calls[c].copy \in Documents
             /\ \A s \in {"acknowledged", "dismissed", "actioned"} :
                  LET doc == [calls[c].copy EXCEPT !.status = s] IN
                  /\ doc \in Documents /\ doc.hold = calls[c].copy.hold
                  /\ doc.restricted = calls[c].copy.restricted
             /\ LET doc == [calls[c].copy EXCEPT !.viewed = TRUE] IN
                /\ doc \in Documents /\ doc.hold = calls[c].copy.hold
                /\ doc.restricted = calls[c].copy.restricted
  <2>1. calls[c].copy \in Documents
    BY <1>4, Unfold
  <2> QED
    BY <2>1 DEF Documents
<1>5. CASE MarkViewed(c)
  BY <1>3, <1>4, <1>5 DEF MarkViewed, ReadPlaces, Submitting
<1>6. CASE Acknowledge(c)
  <2>1. CASE Is(c, "acknowledge")
    <3>1. Put(c, [calls[c].copy EXCEPT !.status = "acknowledged"], "done") /\ UNCHANGED <<Clock, frozen>>
      BY <1>6, <2>1 DEF Acknowledge, Read
    <3> QED
      BY <1>3, <1>4, <2>1, <3>1 DEF ReadPlaces, Submitting
  <2>2. CASE ~Is(c, "acknowledge")
    BY <1>1, <1>6, <2>2 DEF Acknowledge
  <2> QED
    BY <2>1, <2>2
<1>7. CASE Dismiss(c)
  <2>1. CASE Is(c, "dismiss")
    <3>1. PICK at \in {"lift", "done"} :
            Put(c, [calls[c].copy EXCEPT !.status = "dismissed"], at) /\ UNCHANGED <<Clock, frozen>>
      BY <1>7, <2>1 DEF Dismiss, Read
    <3> QED
      BY <1>3, <1>4, <2>1, <3>1 DEF ReadPlaces, Submitting
  <2>2. CASE ~Is(c, "dismiss")
    BY <1>1, <1>7, <2>2 DEF Dismiss
  <2> QED
    BY <2>1, <2>2
<1>8. CASE RestrictUser(c)
  <2>1. CASE Is(c, "decide")
    <3>1. Put(c, [calls[c].copy EXCEPT !.status = "actioned"], "restrict") /\ UNCHANGED <<Clock, frozen>>
      BY <1>8, <2>1 DEF RestrictUser, Read
    <3> QED
      BY <1>3, <1>4, <2>1, <3>1 DEF ReadPlaces, Submitting
  <2>2. CASE ~Is(c, "decide")
    BY <1>1, <1>8, <2>2 DEF RestrictUser
  <2> QED
    BY <2>1, <2>2
<1>9. CASE releaseHold(c)
  <2>1. CASE Is(c, "release")
    <3>1. PICK doc : Put(c, doc, "done") /\ frozen' = FALSE
      BY <1>9, <2>1 DEF releaseHold, Read
    <3>2. HoldKept'
      BY <3>1 DEF HoldKept, LegalHoldIsKept
    <3> QED
      BY <3>1, <3>2, PutHolds DEF Submitting
  <2>2. CASE ~Is(c, "release")
    BY <1>1, <1>9, <2>2 DEF releaseHold
  <2> QED
    BY <2>1, <2>2
<1>10. CASE Freeze(c)
  <2> DEFINE doc == [calls[c].copy EXCEPT !.restricted = TRUE, !.hold = TRUE, !.status = "escalated"]
  <2>1. calls[c].copy \in Documents /\ calls[c].at = "freeze"
    BY <1>10, Unfold DEF Freeze, ReadPlaces
  <2>a. doc \in Documents /\ doc # Missing
    BY <2>1, DocumentChanges
  <2>b. doc.hold = TRUE /\ doc.restricted = TRUE
    BY <2>1 DEF Documents
  <2>2. doc \in Documents /\ doc.hold /\ doc.restricted /\ doc # Missing
    BY <2>a, <2>b, Zenon
  <2>3. PICK at \in {"done", "restrict"} : Put(c, doc, at)
    BY <1>10 DEF Freeze
  <2>4. report' = doc
    BY <2>3 DEF Put
  <2> HIDE DEF doc
  <2>5. HoldKept'
    BY <2>2, <2>4 DEF HoldKept, LegalHoldIsKept
  <2>6. calls[Reporter].at \notin Submitting
    <3>1. report # Missing \/ shredded
      BY <2>1, UnderWay DEF Submitting
    <3> QED
      BY <3>1 DEF Kept, NotYetStored
  <2> QED
    BY <2>3, <2>5, <2>6, PutHolds DEF Submitting
<1>11. CASE evidenceImage(c) \/ escalate(c)
  BY <1>1, <1>11 DEF evidenceImage, escalate
<1> QED
  BY <1>2, <1>5, <1>6, <1>7, <1>8, <1>9, <1>10, <1>11

LEMMA AppealHolds ==
  ASSUME Typed, Held, NEW c \in Actor, Lift(c) \/ submitAppeal(c) \/ decideAppeal(c)
  PROVE  Held'
<1> DEFINE Later == {"lifting", "done", "claim", "file", "appeal", "judge", "rule", "overturn"}
<1>1. UNCHANGED <<report, lapsed, frozen, outdated, overwritten>>
  BY DEF Lift, submitAppeal, decideAppeal, Clock, Trail
<1>2. PICK at \in Later : \E k, doc :
        \/ To(c, at)
        \/ calls' = [calls EXCEPT ![c].at = at, ![c].about = k, ![c].seen = doc]
        \/ calls' = [calls EXCEPT ![c].seen = doc, ![c].about = k, ![c].at = at]
        \/ calls' = [calls EXCEPT ![c].at = at, ![c].seen = doc]
        \/ calls' = [calls EXCEPT ![c].at = at, ![c].seen.appeal = doc]
  <2>1. CASE Lift(c)
    <3>1. CASE calls[c].at = "lift"
      <4>1. PICK a \in {"lifting", "done"} :
              calls' = [calls EXCEPT ![c].seen = restrictions[Reporter], ![c].about = Reporter, ![c].at = a]
        BY <2>1, <3>1 DEF Lift, Is
      <4> QED
        BY <4>1
    <3>2. CASE calls[c].at # "lift"
      BY <2>1, <3>2 DEF Lift, Is, PutRestriction
    <3> QED
      BY <3>1, <3>2
  <2>2. CASE submitAppeal(c)
    BY ZenonT(60), <2>2 DEF submitAppeal, PutRestriction
  <2>3. CASE decideAppeal(c)
    BY ZenonT(60), <2>3 DEF decideAppeal, PutRestriction
  <2> QED
    BY <2>1, <2>2, <2>3
<1>3. /\ \A d \in Actor : calls'[d].at = IF d = c THEN at ELSE calls[d].at
      /\ \A d \in Actor : calls'[d].copy = calls[d].copy
  BY SMTT(30), <1>2, Unfold DEF To, CallRecords
<1> QED
  BY <1>1, <1>3, ReportLeftAlone DEF ReadPlaces, Submitting

LEMMA SweepHolds ==
  ASSUME Typed, Kept, Held, NEW c \in Actor, sweepRetention(c)
  PROVE  Held'
<1> USE DEF Is, Clock, Trail
<1>1. CASE Read(c, "shred") /\ overdue /\ (~report.hold \/ lapsed)
  BY <1>1, ReadHolds DEF Submitting
<1>2. CASE Is(c, "shred") /\ To(c, "drop") /\ UNCHANGED <<report, lapsed, frozen, outdated, overwritten>>
  BY <1>2, ToHolds DEF Submitting, ReadPlaces
<1>3. CASE Is(c, "drop") /\ Put(c, Missing, "done") /\ UNCHANGED <<lapsed, frozen>>
  <2>1. overwritten' = (overwritten \/ c \in outdated)
    BY <1>3 DEF Put
  <2>2. HoldKept'
    <3>1. CASE overwritten \/ c \in outdated
      <4>1. overwritten'
        BY <2>1, <3>1, Zenon
      <4> QED
        BY <4>1 DEF HoldKept
    <3>2. CASE ~(overwritten \/ c \in outdated)
      <4>1. calls[c].copy = report /\ (lapsed \/ ~report.hold)
        BY <1>3, <3>2 DEF Held, CopiesAreFresh, DropsOnlyTheUnheld, Submitting
      <4>2. ~(frozen /\ ~lapsed)
        BY <3>2, <4>1 DEF Held, HoldKept, LegalHoldIsKept
      <4> QED
        BY <1>3, <4>2 DEF HoldKept, LegalHoldIsKept
    <3> QED
      BY <3>1, <3>2
  <2>3. calls[Reporter].at \in Submitting => ~frozen'
    BY <1>3 DEF Held, NotFrozenYet
  <2> QED
    BY <1>3, <2>2, <2>3, PutHolds DEF Submitting
<1> QED
  BY <1>1, <1>2, <1>3 DEF sweepRetention

LEMMA HeldNext ==
  ASSUME Typed, Kept, Held, [EnforcementNext]_enforcementVars
  PROVE  Held'
<1>1. CASE UNCHANGED enforcementVars
  BY <1>1 DEF enforcementVars, Held, CopiesAreFresh, DropsOnlyTheUnheld, NotFrozenYet, HoldKept,
              LegalHoldIsKept
<1>2. CASE YearPasses
  <2>1. UNCHANGED <<report, calls, frozen, outdated, overwritten>>
    BY <1>2 DEF YearPasses, Trail
  <2>2. lapsed' = lapsed \/ lapsed' = TRUE
    BY <1>2 DEF YearPasses
  <2>3. lapsed => lapsed'
    BY <2>2, Zenon
  <2> QED
    BY <2>1, <2>3 DEF Held, CopiesAreFresh, DropsOnlyTheUnheld, NotFrozenYet, HoldKept, LegalHoldIsKept
<1>3. ASSUME NEW c \in Reviewer, Review(c)
      PROVE  Held'
  <2>1. c \in Actor
    BY DEF Actor, Caller
  <2> QED
    BY <1>3, <2>1, ReviewHolds, AppealHolds DEF Review
<1>4. ASSUME NEW c \in Outsider, submitAppeal(c) \/ sweepRetention(c)
      PROVE  Held'
  <2>1. c \in Actor
    BY DEF Actor, Caller
  <2> QED
    BY <1>4, <2>1, AppealHolds, SweepHolds
<1> QED
  BY <1>1, <1>2, <1>3, <1>4, SubmitHolds, RestrictHolds DEF EnforcementNext

(***************************************************************************)
(* The ban.                                                                *)
(***************************************************************************)

Rulings == {"claim", "file", "appeal", "judge", "rule", "overturn"}
Escalated(doc) == doc # Missing /\ doc.status = "escalated"

\* Wherever an escalated report is, the request that first escalated it has failed, is
\* about to ban, or has banned; a ban never becomes another restriction.
Pursues(c) ==
  \/ calls[c].at = "failed"
  \/ calls[c].at = "restrict" /\ Escalated(calls[c].copy)
  \/ restrictions[c].ban = TRUE
Pursued == \E c \in Caller : Pursues(c)
EscalationsArePursued ==
  frozen \/ Escalated(report) \/ (\E c \in Actor : Escalated(calls[c].copy)) => Pursued

\* A restriction is made once, by its request, and one made by a caller is lifted only
\* by the appeal it was granted.
RestrictionsAreSound == \A k \in Actor :
  /\ restrictions[k].is # "none" => calls[k].at \in {"link", "done", "failed"}
  /\ restrictions[k].ban = TRUE \/ appeals[k] # "none" => restrictions[k].is # "none"
  /\ k \in Caller /\ restrictions[k].is = "lifted"
       => restrictions[k].appeal = "overturned" /\ appeals[k] = "decided"

\* What a request that is about to write a restriction or its appeal knows of it.
CopiesAreSound == \A c \in Actor :
  /\ calls[c].at \in Rulings \cup {"lifting"} =>
       /\ restrictions[calls[c].about].is # "none" /\ calls[c].seen.is # "none"
       /\ calls[c].seen.ban = restrictions[calls[c].about].ban
  /\ calls[c].at = "lifting" => calls[c].about = Reporter
  /\ calls[c].at \in Rulings /\ calls[c].about \in Caller => calls[c].seen.is = "active"
  /\ calls[c].at = "rule" => calls[c].seen.appeal \in {"upheld", "overturned"}
  /\ calls[c].at = "overturn" => calls[c].seen.appeal = "overturned"
  /\ calls[c].at = "file" => appeals[calls[c].about] = "claimed"
  /\ calls[c].at = "judge" => appeals[calls[c].about] \in {"pending", "decided"}
  /\ calls[c].at \in {"rule", "overturn"} => appeals[calls[c].about] = "decided"

\* An appeal is claimed by one request.
FiledOnce == \A c, d \in Actor :
  calls[c].at = "file" /\ calls[d].at = "file" /\ calls[c].about = calls[d].about => c = d

RulingsHold == RestrictionsAreSound /\ CopiesAreSound /\ FiledOnce
Banning == EscalationsArePursued /\ RulingsHold

\* A step of c that writes no restriction and no appeal.
LEMMA RulingsLeftAlone ==
  ASSUME RulingsHold, NEW c \in Actor, UNCHANGED <<restrictions, appeals>>,
         \A d \in Actor \ {c} : calls'[d] = calls[d],
         calls'[c].at \notin Rulings \cup {"lifting"},
         calls[c].at \in {"link", "done", "failed"} => calls'[c].at \in {"link", "done", "failed"}
  PROVE  RulingsHold'
<1>1. RestrictionsAreSound'
  BY DEF RulingsHold, RestrictionsAreSound
<1>2. CopiesAreSound'
  <2>1. ASSUME NEW d \in Actor, d # c
        PROVE  calls'[d] = calls[d]
    BY <2>1
  <2> QED
    BY <2>1 DEF RulingsHold, CopiesAreSound, Rulings
<1>3. FiledOnce'
  BY DEF RulingsHold, FiledOnce, Rulings
<1> QED
  BY <1>1, <1>2, <1>3 DEF RulingsHold

\* Whoever pursues goes on doing so.
LEMMA StillPursued ==
  ASSUME Pursued, NEW c \in Actor,
         \A d \in Actor \ {c} : calls'[d] = calls[d],
         \A k \in Caller : restrictions[k].ban = TRUE => restrictions'[k].ban = TRUE,
         calls[c].at # "failed",
         c \in Caller /\ calls[c].at = "restrict" /\ Escalated(calls[c].copy)
           => calls'[c].at = "failed" \/ restrictions'[c].ban = TRUE
  PROVE  Pursued'
<1>1. PICK k \in Caller : Pursues(k)
  BY DEF Pursued
<1>2. k \in Actor
  BY DEF Actor
<1>3. Pursues(k)'
  <2>1. CASE k = c
    BY <1>1, <2>1 DEF Pursues
  <2>2. CASE k # c
    <3>1. calls'[k] = calls[k]
      BY <1>2, <2>2
    <3> QED
      BY <1>1, <3>1 DEF Pursues, Escalated
  <2> QED
    BY <2>1, <2>2
<1> QED
  BY <1>3 DEF Pursued

\* A step of c that makes no new escalated copy and bans and freezes nobody.
LEMMA PursuitLeftAlone ==
  ASSUME EscalationsArePursued, NEW c \in Actor,
         \A d \in Actor \ {c} : calls'[d] = calls[d],
         \A k \in Caller : restrictions[k].ban = TRUE => restrictions'[k].ban = TRUE,
         calls[c].at # "failed",
         c \in Caller /\ calls[c].at = "restrict" /\ Escalated(calls[c].copy)
           => calls'[c].at = "failed" \/ restrictions'[c].ban = TRUE,
         frozen' => frozen,
         Escalated(report') => Escalated(report) \/ Escalated(calls[c].copy),
         Escalated(calls'[c].copy) => Escalated(report) \/ Escalated(calls[c].copy)
  PROVE  EscalationsArePursued'
<1> SUFFICES ASSUME frozen' \/ Escalated(report') \/ \E d \in Actor : Escalated(calls'[d].copy)
             PROVE  Pursued'
  BY DEF EscalationsArePursued, Escalated
<1>1. frozen \/ Escalated(report) \/ \E d \in Actor : Escalated(calls[d].copy)
  <2>1. ASSUME NEW d \in Actor, Escalated(calls'[d].copy)
        PROVE  Escalated(report) \/ \E e \in Actor : Escalated(calls[e].copy)
    <3>1. CASE d = c
      BY <2>1, <3>1
    <3>2. CASE d # c
      <4>1. calls'[d] = calls[d]
        BY <3>2
      <4> QED
        BY <2>1, <4>1
    <3> QED
      BY <3>1, <3>2
  <2> QED
    BY <2>1
<1>2. Pursued
  BY <1>1 DEF EscalationsArePursued
<1> QED
  BY <1>2, StillPursued

\* A step of c, written with To, that bans nobody.
LEMMA ToBans ==
  ASSUME Typed, Banning, NEW c \in Actor, NEW at, To(c, at),
         UNCHANGED <<report, restrictions, appeals, frozen>>,
         at \notin Rulings \cup {"lifting"},
         calls[c].at \notin {"link", "done", "failed", "restrict"} \/ at = "failed",
         calls[c].at # "failed"
  PROVE  Banning'
<1>1. /\ \A d \in Actor \ {c} : calls'[d] = calls[d]
      /\ calls'[c].at = at /\ calls'[c].copy = calls[c].copy
  BY Unfold DEF To, CallRecords
<1>2. RulingsHold'
  BY <1>1, RulingsLeftAlone DEF Banning
<1>3. EscalationsArePursued'
  BY <1>1, PursuitLeftAlone DEF Banning
<1> QED
  BY <1>2, <1>3 DEF Banning

LEMMA ReadBans ==
  ASSUME Typed, Banning, NEW c \in Actor, NEW at, Read(c, at), at \notin Rulings \cup {"lifting"}
  PROVE  Banning'
<1>0. /\ calls[c].at = "new" /\ calls' = [calls EXCEPT ![c].at = at, ![c].copy = report]
      /\ UNCHANGED <<report, restrictions, appeals, frozen>>
  BY DEF Read, Is
<1>1. /\ \A d \in Actor \ {c} : calls'[d] = calls[d]
      /\ calls'[c].at = at /\ calls'[c].copy = report
  BY <1>0, Unfold DEF CallRecords
<1>2. RulingsHold'
  BY <1>0, <1>1, RulingsLeftAlone DEF Banning
<1>3. EscalationsArePursued'
  BY <1>0, <1>1, PursuitLeftAlone DEF Banning
<1> QED
  BY <1>2, <1>3 DEF Banning

\* A put of a copy that was escalated, if at all, before.
LEMMA PutBans ==
  ASSUME Typed, Banning, NEW c \in Actor, NEW doc, NEW at, Put(c, doc, at),
         UNCHANGED <<restrictions, appeals>>, frozen' => frozen,
         at \notin Rulings \cup {"lifting"},
         calls[c].at \notin {"done", "failed", "restrict"},
         calls[c].at = "link" => at = "done",
         Escalated(doc) => Escalated(calls[c].copy)
  PROVE  Banning'
<1>0. report' = doc /\ calls' = [calls EXCEPT ![c].at = at, ![c].copy = doc]
  BY DEF Put
<1>1. /\ \A d \in Actor \ {c} : calls'[d] = calls[d]
      /\ calls'[c].at = at /\ calls'[c].copy = doc
  BY <1>0, Unfold DEF CallRecords
<1>2. RulingsHold'
  BY <1>1, RulingsLeftAlone DEF Banning
<1>3. EscalationsArePursued'
  BY <1>0, <1>1, PursuitLeftAlone DEF Banning
<1> QED
  BY <1>2, <1>3 DEF Banning

LEMMA SubmitBans ==
  ASSUME Typed, Banning, submitReport(Reporter)
  PROVE  Banning'
<1> USE DEF Is, Copy, Clock, Trail
<1>1. Reporter \in Actor
  BY DEF Actor
<1>2. CASE StoreFrame(Reporter)
  <2>1. PICK restricted : calls' = [calls EXCEPT ![Reporter].at = "saveFrame",
                                                 ![Reporter].copy = NewReport(restricted)]
    BY <1>2 DEF StoreFrame
  <2>2. /\ \A d \in Actor \ {Reporter} : calls'[d] = calls[d]
        /\ calls'[Reporter].at = "saveFrame" /\ calls'[Reporter].copy = NewReport(restricted)
    BY <1>1, <2>1, Unfold DEF CallRecords
  <2>3. /\ UNCHANGED <<report, restrictions, appeals, frozen>> /\ calls[Reporter].at = "storeFrame"
    BY <1>2 DEF StoreFrame
  <2>4. ~Escalated(NewReport(restricted))
    BY DEF NewReport, Escalated
  <2>5. RulingsHold'
    BY <1>1, <2>2, <2>3, RulingsLeftAlone DEF Banning, Rulings
  <2>6. EscalationsArePursued'
    BY <1>1, <2>2, <2>3, <2>4, PursuitLeftAlone DEF Banning
  <2> QED
    BY <2>5, <2>6 DEF Banning
<1>3. CASE SaveFrame(Reporter) \/ autoAction(Reporter)
  <2>1. PICK at \in {"saveReport", "restrict", "done"} : To(Reporter, at)
    BY <1>3 DEF SaveFrame, autoAction
  <2>2. /\ UNCHANGED <<report, restrictions, appeals, frozen>>
        /\ calls[Reporter].at \in {"saveFrame", "autoAction"}
    BY <1>3 DEF SaveFrame, autoAction
  <2> QED
    BY <1>1, <2>1, <2>2, ToBans DEF Rulings
<1>4. CASE SaveReport(Reporter)
  <2>1. Put(Reporter, Copy(Reporter), "autoAction") /\ UNCHANGED <<restrictions, appeals, frozen>>
    BY <1>4 DEF SaveReport
  <2> QED
    BY <1>1, <1>4, <2>1, PutBans DEF SaveReport, Rulings
<1>5. CASE SaveReportFails(Reporter)
  <2>1. /\ calls' = [calls EXCEPT ![Reporter].at = "failed"] /\ report' \in {report, calls[Reporter].copy}
        /\ UNCHANGED <<restrictions, appeals, frozen>> /\ calls[Reporter].at = "saveReport"
    BY <1>5 DEF SaveReportFails, To
  <2>2. /\ \A d \in Actor \ {Reporter} : calls'[d] = calls[d]
        /\ calls'[Reporter].at = "failed" /\ calls'[Reporter].copy = calls[Reporter].copy
    BY <1>1, <2>1, Unfold DEF CallRecords
  <2>3. RulingsHold'
    BY <1>1, <2>1, <2>2, RulingsLeftAlone DEF Banning, Rulings
  <2>4. EscalationsArePursued'
    BY <1>1, <2>1, <2>2, PursuitLeftAlone DEF Banning
  <2> QED
    BY <2>3, <2>4 DEF Banning
<1> QED
  BY <1>2, <1>3, <1>4, <1>5 DEF submitReport

LEMMA RestrictBans ==
  ASSUME Typed, Banning, NEW c \in Actor, restrict(c) \/ linkReport(c) \/ Broken(c)
  PROVE  Banning'
<1> USE DEF Is, Copy, Clock, Trail
<1>1. CASE restrict(c)
  <2> DEFINE new == [is |-> "active", ban |-> calls[c].copy.status = "escalated", appeal |-> "none"]
  <2>1. /\ calls[c].at = "restrict" /\ calls' = [calls EXCEPT ![c].at = "link"]
        /\ restrictions' = [restrictions EXCEPT ![c] = new]
        /\ UNCHANGED <<report, appeals, frozen>>
    BY <1>1 DEF restrict, To
  <2>2. /\ \A d \in Actor \ {c} : calls'[d] = calls[d]
        /\ calls'[c].at = "link" /\ calls'[c].copy = calls[c].copy
    BY <2>1, Unfold DEF CallRecords
  <2>3. Escalated(calls[c].copy) => new.ban = TRUE
    BY DEF Escalated
  <2>4. new.is = "active"
    OBVIOUS
  <2> HIDE DEF new
  <2>5. restrictions[c].is = "none" /\ appeals[c] = "none" /\ restrictions[c].ban # TRUE
    BY <2>1 DEF Banning, RulingsHold, RestrictionsAreSound
  <2>6. restrictions'[c] = new /\ \A k \in Actor \ {c} : restrictions'[k] = restrictions[k]
    BY <2>1, Unfold
  <2>7. RestrictionsAreSound'
    BY <2>1, <2>2, <2>4, <2>5, <2>6 DEF Banning, RulingsHold, RestrictionsAreSound
  <2>8. CopiesAreSound'
    <3> SUFFICES ASSUME NEW d \in Actor, calls'[d].at \in Rulings \cup {"lifting"}
                 PROVE  /\ calls'[d] = calls[d]
                        /\ restrictions'[calls[d].about] = restrictions[calls[d].about]
      BY <2>1 DEF Banning, RulingsHold, CopiesAreSound, Rulings
    <3>1. d # c /\ calls'[d] = calls[d]
      BY <2>2 DEF Rulings
    <3>2. restrictions[calls[d].about].is # "none" /\ calls[d].about \in Actor
      BY <3>1, Unfold DEF Banning, RulingsHold, CopiesAreSound
    <3> QED
      BY <2>5, <2>6, <3>1, <3>2
  <2>9. FiledOnce'
    BY <2>2 DEF Banning, RulingsHold, FiledOnce
  <2>10. \A k \in Caller : restrictions[k].ban = TRUE => restrictions'[k].ban = TRUE
    BY <2>5, <2>6 DEF Actor
  <2>11. EscalationsArePursued'
    BY <2>1, <2>2, <2>3, <2>6, <2>10, PursuitLeftAlone DEF Banning
  <2> QED
    BY <2>7, <2>8, <2>9, <2>11 DEF Banning, RulingsHold
<1>2. CASE linkReport(c)
  <2> DEFINE doc == [calls[c].copy EXCEPT !.link = c]
  <2>1. calls[c].copy \in Documents /\ calls[c].at = "link"
    BY <1>2, Unfold DEF linkReport, ReadPlaces
  <2>2. Escalated(doc) => Escalated(calls[c].copy)
    BY ZenonT(60), <2>1, DocumentChanges DEF Documents, Escalated
  <2>3. Put(c, doc, "done") /\ UNCHANGED <<restrictions, appeals, frozen>>
    BY <1>2 DEF linkReport
  <2> HIDE DEF doc
  <2> QED
    BY <2>1, <2>2, <2>3, PutBans DEF Rulings
<1>3. CASE Broken(c)
  BY <1>3, ToBans DEF Broken, Rulings
<1> QED
  BY <1>1, <1>2, <1>3

LEMMA ReviewBans ==
  ASSUME Typed, Banning, NEW c \in Actor,
         \/ evidenceImage(c) \/ FetchEvidence(c) \/ MarkViewed(c)
         \/ Acknowledge(c) \/ Dismiss(c) \/ RestrictUser(c) \/ releaseHold(c)
         \/ escalate(c) \/ CopyEvidence(c) \/ EvidenceCopied(c) \/ EraseOriginal(c)
  PROVE  Banning'
<1> USE DEF Is, Copy, Clock, Trail
<1>1. CASE \E at \in {"fetch", "acknowledge", "dismiss", "decide", "release", "freeze", "copy"} : Read(c, at)
  BY <1>1, ReadBans DEF Rulings
<1>2. CASE FetchEvidence(c) \/ CopyEvidence(c) \/ EvidenceCopied(c) \/ EraseOriginal(c)
  <2>1. PICK at \in {"markViewed", "done", "erase", "copying", "failed", "freeze"} : To(c, at)
    BY <1>2 DEF FetchEvidence, CopyEvidence, EvidenceCopied, EraseOriginal
  <2>2. /\ UNCHANGED <<report, restrictions, appeals, frozen>>
        /\ calls[c].at \in {"fetch", "copy", "copying", "erase"}
    BY <1>2 DEF FetchEvidence, CopyEvidence, EvidenceCopied, EraseOriginal
  <2> QED
    BY <2>1, <2>2, ToBans DEF Rulings
<1>3. ASSUME NEW doc, NEW at \in {"done", "lift", "restrict"}, Put(c, doc, at),
             UNCHANGED <<restrictions, appeals>>, frozen' => frozen,
             calls[c].at \in {"markViewed", "acknowledge", "dismiss", "decide", "release"},
             Escalated(doc) => Escalated(calls[c].copy)
      PROVE  Banning'
  BY <1>3, PutBans DEF Rulings
<1>4. ASSUME calls[c].at \in ReadPlaces
      PROVE  /\ \A s \in {"acknowledged", "dismissed", "actioned"} :
                  ~Escalated([calls[c].copy EXCEPT !.status = s])
             /\ Escalated([calls[c].copy EXCEPT !.viewed = TRUE]) => Escalated(calls[c].copy)
             /\ Escalated([calls[c].copy EXCEPT !.hold = FALSE]) => Escalated(calls[c].copy)
  <2>1. calls[c].copy \in Documents
    BY <1>4, Unfold
  <2> QED
    BY ZenonT(60), <2>1, DocumentChanges DEF Documents, Escalated
<1>5. CASE MarkViewed(c)
  BY <1>3, <1>4, <1>5 DEF MarkViewed, ReadPlaces
<1>6. CASE Acknowledge(c)
  <2>1. CASE Is(c, "acknowledge")
    <3>1. /\ Put(c, [calls[c].copy EXCEPT !.status = "acknowledged"], "done")
          /\ UNCHANGED <<restrictions, appeals, frozen>>
      BY <1>6, <2>1 DEF Acknowledge, Read
    <3> QED
      BY <1>3, <1>4, <2>1, <3>1 DEF ReadPlaces
  <2>2. CASE ~Is(c, "acknowledge")
    BY <1>1, <1>6, <2>2 DEF Acknowledge
  <2> QED
    BY <2>1, <2>2
<1>7. CASE Dismiss(c)
  <2>1. CASE Is(c, "dismiss")
    <3>1. PICK at \in {"lift", "done"} :
            /\ Put(c, [calls[c].copy EXCEPT !.status = "dismissed"], at)
            /\ UNCHANGED <<restrictions, appeals, frozen>>
      BY <1>7, <2>1 DEF Dismiss, Read
    <3> QED
      BY <1>3, <1>4, <2>1, <3>1 DEF ReadPlaces
  <2>2. CASE ~Is(c, "dismiss")
    BY <1>1, <1>7, <2>2 DEF Dismiss
  <2> QED
    BY <2>1, <2>2
<1>8. CASE RestrictUser(c)
  <2>1. CASE Is(c, "decide")
    <3>1. /\ Put(c, [calls[c].copy EXCEPT !.status = "actioned"], "restrict")
          /\ UNCHANGED <<restrictions, appeals, frozen>>
      BY <1>8, <2>1 DEF RestrictUser, Read
    <3> QED
      BY <1>3, <1>4, <2>1, <3>1 DEF ReadPlaces
  <2>2. CASE ~Is(c, "decide")
    BY <1>1, <1>8, <2>2 DEF RestrictUser
  <2> QED
    BY <2>1, <2>2
<1>9. CASE releaseHold(c)
  <2>1. CASE Is(c, "release")
    <3>1. /\ Put(c, [calls[c].copy EXCEPT !.hold = FALSE], "done") /\ frozen' = FALSE
          /\ UNCHANGED <<restrictions, appeals>>
      BY <1>9, <2>1 DEF releaseHold, Read
    <3> QED
      BY <1>3, <1>4, <2>1, <3>1 DEF ReadPlaces
  <2>2. CASE ~Is(c, "release")
    BY <1>1, <1>9, <2>2 DEF releaseHold
  <2> QED
    BY <2>1, <2>2
<1>10. CASE evidenceImage(c) \/ escalate(c)
  BY <1>1, <1>10 DEF evidenceImage, escalate
<1> QED
  BY <1>2, <1>5, <1>6, <1>7, <1>8, <1>9, <1>10

\* The first to escalate goes on to the ban; who finds the report escalated stops, and
\* somebody else is pursuing it.
LEMMA FreezeBans ==
  ASSUME Typed, Banning, NEW c \in Caller, Freeze(c)
  PROVE  Banning'
<1> USE DEF Is, Copy, Clock, Trail
<1> DEFINE doc == [calls[c].copy EXCEPT !.restricted = TRUE, !.hold = TRUE, !.status = "escalated"]
<1>0. c \in Actor
  BY DEF Actor
<1>1. calls[c].copy \in Documents /\ calls[c].at = "freeze" /\ UNCHANGED <<restrictions, appeals>>
  BY <1>0, Unfold DEF Freeze, ReadPlaces
<1>2. Escalated(doc)
  <2>1. doc \in Documents /\ doc # Missing
    BY <1>1, DocumentChanges
  <2>2. doc.status = "escalated"
    BY <1>1 DEF Documents
  <2> QED
    BY <2>1, <2>2 DEF Escalated
<1>3. PICK at \in {"done", "restrict"} :
        Put(c, doc, at) /\ at = IF calls[c].copy.status = "escalated" THEN "done" ELSE "restrict"
  BY DEF Freeze
<1>4. calls' = [calls EXCEPT ![c].at = at, ![c].copy = doc]
  BY <1>3 DEF Put
<1> HIDE DEF doc
<1>5. /\ \A d \in Actor \ {c} : calls'[d] = calls[d]
      /\ calls'[c].at = at /\ calls'[c].copy = doc
  BY <1>0, <1>4, Unfold DEF CallRecords
<1>6. RulingsHold'
  BY <1>0, <1>1, <1>5, RulingsLeftAlone DEF Banning, Rulings
<1>7. Pursued'
  <2>1. CASE at = "restrict"
    <3>1. Pursues(c)'
      BY <1>2, <1>5, <2>1 DEF Pursues, Escalated
    <3> QED
      BY <3>1 DEF Pursued
  <2>2. CASE at # "restrict"
    <3>1. Escalated(calls[c].copy)
      BY <1>1, <1>3, <2>2, DocumentChanges DEF Escalated
    <3>2. Pursued
      BY <1>0, <3>1 DEF Banning, EscalationsArePursued
    <3> QED
      BY <1>0, <1>1, <1>5, <3>2, StillPursued
  <2> QED
    BY <2>1, <2>2
<1> QED
  BY <1>6, <1>7 DEF Banning, EscalationsArePursued

\* A request reads a restriction to write it, or its appeal, back.
LEMMA SeenBans ==
  ASSUME Typed, Banning, NEW c \in Actor, NEW k \in Actor, NEW at \in {"claim", "judge", "lifting", "done"},
         calls[c].at \in {"new", "lift"},
         \A d \in Actor \ {c} : calls'[d] = calls[d],
         calls'[c].at = at, calls'[c].copy = calls[c].copy,
         calls'[c].about = k, calls'[c].seen = restrictions[k],
         UNCHANGED <<report, restrictions, appeals, frozen>>,
         at # "done" => restrictions[k].is # "none",
         at = "lifting" => k = Reporter,
         at \in Rulings /\ k \in Caller => restrictions[k].is = "active",
         at = "judge" => appeals[k] = "pending"
  PROVE  Banning'
<1>1. RestrictionsAreSound'
  BY DEF Banning, RulingsHold, RestrictionsAreSound
<1>2. CopiesAreSound'
  <2>1. ASSUME NEW d \in Actor, d # c
        PROVE  calls'[d] = calls[d]
    BY <2>1
  <2> QED
    BY <2>1 DEF Banning, RulingsHold, CopiesAreSound, Rulings
<1>3. FiledOnce'
  BY DEF Banning, RulingsHold, FiledOnce
<1>4. EscalationsArePursued'
  BY PursuitLeftAlone DEF Banning
<1> QED
  BY <1>1, <1>2, <1>3, <1>4 DEF Banning, RulingsHold

\* A request moves the appeal of the restriction it read.
LEMMA AppealBans ==
  ASSUME Typed, Banning, NEW c \in Actor, NEW k, k = calls[c].about, NEW at, NEW s,
         appeals' = [appeals EXCEPT ![k] = s],
         \/ calls[c].at = "claim" /\ appeals[k] = "none" /\ at = "file" /\ s = "claimed"
         \/ calls[c].at = "file" /\ at = "appeal" /\ s = "pending"
         \/ calls[c].at = "judge" /\ at = "rule" /\ s = "decided",
         \A d \in Actor \ {c} : calls'[d] = calls[d],
         calls'[c].at = at, calls'[c].copy = calls[c].copy, calls'[c].about = k,
         calls'[c].seen.is = calls[c].seen.is, calls'[c].seen.ban = calls[c].seen.ban,
         at = "rule" => calls'[c].seen.appeal \in {"upheld", "overturned"},
         UNCHANGED <<report, restrictions, frozen>>
  PROVE  Banning'
<1>1. k \in Actor /\ appeals'[k] = s /\ \A j \in Actor \ {k} : appeals'[j] = appeals[j]
  BY Unfold
<1>2. restrictions[k].is # "none" /\ (calls[c].at = "file" => appeals[k] = "claimed")
  BY <1>1 DEF Banning, RulingsHold, CopiesAreSound, Rulings
<1>3. calls[c].at = "judge" => appeals[k] \in {"pending", "decided"}
  BY <1>1 DEF Banning, RulingsHold, CopiesAreSound, Rulings
<1>4. RestrictionsAreSound'
  BY <1>1, <1>2, <1>3 DEF Banning, RulingsHold, RestrictionsAreSound
<1>5. CopiesAreSound'
  <2>1. ASSUME NEW d \in Actor, d # c
        PROVE  /\ calls'[d] = calls[d]
               /\ calls[d].at = "file" => appeals'[calls[d].about] = "claimed"
               /\ calls[d].at = "judge" => appeals'[calls[d].about] \in {"pending", "decided"}
               /\ calls[d].at \in {"rule", "overturn"} => appeals'[calls[d].about] = "decided"
    <3>1. calls'[d] = calls[d] /\ calls[d].about \in Actor
      BY <2>1, Unfold
    <3>2. /\ calls[d].at = "file" => appeals[calls[d].about] = "claimed"
          /\ calls[d].at = "judge" => appeals[calls[d].about] \in {"pending", "decided"}
          /\ calls[d].at \in {"rule", "overturn"} => appeals[calls[d].about] = "decided"
      BY DEF Banning, RulingsHold, CopiesAreSound
    <3>3. CASE calls[d].about # k
      BY <1>1, <3>1, <3>2, <3>3
    <3>4. CASE calls[d].about = k
      <4>1. ~(calls[c].at = "file" /\ calls[d].at = "file")
        BY <2>1, <3>4 DEF Banning, RulingsHold, FiledOnce
      <4> QED
        BY <1>1, <1>2, <1>3, <3>1, <3>2, <3>4, <4>1
    <3> QED
      BY <3>3, <3>4
  <2>2. /\ restrictions[k].is # "none" /\ calls[c].seen.is # "none"
        /\ calls[c].seen.ban = restrictions[k].ban
        /\ k \in Caller => calls[c].seen.is = "active"
    BY DEF Banning, RulingsHold, CopiesAreSound, Rulings
  <2>3. at \in {"file", "appeal", "rule"} /\ (at = "file" => s = "claimed") /\ (at = "rule" => s = "decided")
    OBVIOUS
  <2> SUFFICES ASSUME NEW d \in Actor
               PROVE  /\ calls'[d].at \in Rulings \cup {"lifting"} =>
                           /\ restrictions'[calls'[d].about].is # "none" /\ calls'[d].seen.is # "none"
                           /\ calls'[d].seen.ban = restrictions'[calls'[d].about].ban
                      /\ calls'[d].at = "lifting" => calls'[d].about = Reporter
                      /\ calls'[d].at \in Rulings /\ calls'[d].about \in Caller => calls'[d].seen.is = "active"
                      /\ calls'[d].at = "overturn" => calls'[d].seen.appeal = "overturned"
                      /\ calls'[d].at = "rule" => calls'[d].seen.appeal \in {"upheld", "overturned"}
                      /\ calls'[d].at = "file" => appeals'[calls'[d].about] = "claimed"
                      /\ calls'[d].at = "judge" => appeals'[calls'[d].about] \in {"pending", "decided"}
                      /\ calls'[d].at \in {"rule", "overturn"} => appeals'[calls'[d].about] = "decided"
    BY DEF CopiesAreSound, Rulings
  <2>4. CASE d = c
    BY <1>1, <2>2, <2>3, <2>4
  <2>5. CASE d # c
    BY <2>1, <2>5 DEF Banning, RulingsHold, CopiesAreSound
  <2> QED
    BY <2>4, <2>5
<1>6. FiledOnce'
  <2> SUFFICES ASSUME NEW d \in Actor, NEW e \in Actor, calls'[d].at = "file", calls'[e].at = "file",
                      calls'[d].about = calls'[e].about, d # e
               PROVE  FALSE
    BY DEF FiledOnce
  <2>1. CASE d # c /\ e # c
    BY <2>1 DEF Banning, RulingsHold, FiledOnce
  <2>2. ASSUME NEW o \in Actor, o # c, calls[o].at = "file", calls[o].about = k, at = "file"
        PROVE  FALSE
    <3>1. appeals[k] = "claimed"
      BY <2>2 DEF Banning, RulingsHold, CopiesAreSound
    <3> QED
      BY <2>2, <3>1
  <2>3. CASE d = c
    BY <2>2, <2>3
  <2>4. CASE e = c
    BY <2>2, <2>4
  <2> QED
    BY <2>1, <2>3, <2>4
<1>7. EscalationsArePursued'
  BY PursuitLeftAlone DEF Banning
<1> QED
  BY <1>4, <1>5, <1>6, <1>7 DEF Banning, RulingsHold

\* A request puts back the restriction it read, changed.
LEMMA PutRestrictionBans ==
  ASSUME Typed, Banning, NEW c \in Actor, NEW k, k = calls[c].about,
         NEW doc \in RestrictionDocuments, NEW at \in {"done", "overturn"},
         PutRestriction(c, doc, at), UNCHANGED <<report, appeals, frozen>>,
         calls[c].at \in {"lifting", "appeal", "rule", "overturn"},
         doc.is # "none", doc.ban = calls[c].seen.ban,
         k \in Caller /\ doc.is = "lifted" => doc.appeal = "overturned" /\ appeals[k] = "decided",
         at = "overturn" => calls[c].at = "rule" /\ doc.appeal = "overturned" /\ (k \in Caller => doc.is = "active")
  PROVE  Banning'
<1>1. /\ \A d \in Actor \ {c} : calls'[d] = calls[d]
      /\ calls'[c].at = at /\ calls'[c].copy = calls[c].copy /\ calls'[c].about = k /\ calls'[c].seen = doc
  BY Unfold DEF PutRestriction, CallRecords
<1>2. k \in Actor /\ restrictions'[k] = doc /\ \A j \in Actor \ {k} : restrictions'[j] = restrictions[j]
  BY Unfold DEF PutRestriction
<1>3. /\ restrictions[k].is # "none" /\ doc.ban = restrictions[k].ban
      /\ calls[c].at = "rule" => appeals[k] = "decided"
  BY DEF Banning, RulingsHold, CopiesAreSound, Rulings
<1>4. \A j \in Actor : /\ restrictions'[j].ban = restrictions[j].ban
                       /\ restrictions'[j].is = "none" <=> restrictions[j].is = "none"
  <2> SUFFICES ASSUME NEW j \in Actor
               PROVE  /\ restrictions'[j].ban = restrictions[j].ban
                      /\ restrictions'[j].is = "none" <=> restrictions[j].is = "none"
    OBVIOUS
  <2>1. CASE j = k
    BY <1>2, <1>3, <2>1
  <2>2. CASE j # k
    BY <1>2, <2>2
  <2> QED
    BY <2>1, <2>2
<1>5. RestrictionsAreSound'
  <2>1. \A j \in Actor : calls[j].at \in {"link", "done", "failed"} => calls'[j] = calls[j]
    BY <1>1
  <2>2. \A j \in Actor : j \in Caller /\ restrictions'[j].is = "lifted"
                           => restrictions'[j].appeal = "overturned" /\ appeals[j] = "decided"
    BY <1>2 DEF Banning, RulingsHold, RestrictionsAreSound
  <2>3. \A j \in Actor : restrictions[j].is # "none" => calls[j].at \in {"link", "done", "failed"}
    BY DEF Banning, RulingsHold, RestrictionsAreSound
  <2>4. \A j \in Actor : restrictions[j].ban = TRUE \/ appeals[j] # "none" => restrictions[j].is # "none"
    BY DEF Banning, RulingsHold, RestrictionsAreSound
  <2> QED
    BY <1>4, <2>1, <2>2, <2>3, <2>4 DEF RestrictionsAreSound
<1>6. CopiesAreSound'
  <2> SUFFICES ASSUME NEW d \in Actor
               PROVE  /\ calls'[d].at \in Rulings \cup {"lifting"} =>
                           /\ restrictions'[calls'[d].about].is # "none" /\ calls'[d].seen.is # "none"
                           /\ calls'[d].seen.ban = restrictions'[calls'[d].about].ban
                      /\ calls'[d].at = "lifting" => calls'[d].about = Reporter
                      /\ calls'[d].at \in Rulings /\ calls'[d].about \in Caller => calls'[d].seen.is = "active"
                      /\ calls'[d].at = "overturn" => calls'[d].seen.appeal = "overturned"
                      /\ calls'[d].at = "rule" => calls'[d].seen.appeal \in {"upheld", "overturned"}
                      /\ calls'[d].at = "file" => appeals[calls'[d].about] = "claimed"
                      /\ calls'[d].at = "judge" => appeals[calls'[d].about] \in {"pending", "decided"}
                      /\ calls'[d].at \in {"rule", "overturn"} => appeals[calls'[d].about] = "decided"
    BY DEF CopiesAreSound
  <2>1. CASE d = c
    BY <1>1, <1>2, <1>3, <2>1 DEF Rulings
  <2>2. CASE d # c
    <3>1. calls'[d] = calls[d] /\ calls[d].about \in Actor
      BY <1>1, <2>2, Unfold
    <3> QED
      BY <1>4, <3>1 DEF Banning, RulingsHold, CopiesAreSound
  <2> QED
    BY <2>1, <2>2
<1>7. FiledOnce'
  BY <1>1 DEF Banning, RulingsHold, FiledOnce
<1>8. \A j \in Caller : restrictions[j].ban = TRUE => restrictions'[j].ban = TRUE
  BY <1>4 DEF Actor
<1>9. EscalationsArePursued'
  BY <1>1, <1>8, PursuitLeftAlone DEF Banning
<1> QED
  BY <1>5, <1>6, <1>7, <1>9 DEF Banning, RulingsHold

\* What a request may change in its copy of a restriction.
LEMMA LiftedDocument ==
  ASSUME NEW doc \in RestrictionDocuments, NEW new, new = [doc EXCEPT !.is = "lifted"]
  PROVE  /\ new \in RestrictionDocuments
         /\ new.is = "lifted" /\ new.ban = doc.ban /\ new.appeal = doc.appeal
BY DEF RestrictionDocuments

LEMMA AppealedDocument ==
  ASSUME NEW doc \in RestrictionDocuments, NEW a \in {"pending", "upheld", "overturned"},
         NEW new, new = [doc EXCEPT !.appeal = a]
  PROVE  /\ new \in RestrictionDocuments
         /\ new.is = doc.is /\ new.ban = doc.ban /\ new.appeal = a
BY DEF RestrictionDocuments

LEMMA LiftBans ==
  ASSUME Typed, Banning, NEW c \in Actor, Lift(c)
  PROVE  Banning'
<1> USE DEF Is, Clock, Trail
<1>0. UNCHANGED <<report, appeals, frozen>> /\ Reporter \in Actor /\ Reporter \notin Caller
  BY EnforcementAssumption DEF Lift, Actor
<1>1. CASE calls[c].at = "lift"
  <2>1. PICK at \in {"lifting", "done"} :
          /\ calls' = [calls EXCEPT ![c].seen = restrictions[Reporter], ![c].about = Reporter, ![c].at = at]
          /\ at = IF restrictions[Reporter].is = "active" THEN "lifting" ELSE "done"
          /\ UNCHANGED restrictions
    BY <1>1 DEF Lift
  <2>2. /\ \A d \in Actor \ {c} : calls'[d] = calls[d]
        /\ calls'[c].at = at /\ calls'[c].copy = calls[c].copy
        /\ calls'[c].about = Reporter /\ calls'[c].seen = restrictions[Reporter]
    BY <2>1, Unfold DEF CallRecords
  <2> QED
    BY <1>0, <1>1, <2>1, <2>2, SeenBans DEF Rulings
<1>2. CASE calls[c].at = "lifting"
  <2> DEFINE doc == [calls[c].seen EXCEPT !.is = "lifted"]
  <2>1. PutRestriction(c, doc, "done")
    BY <1>2 DEF Lift
  <2>2. calls[c].seen \in RestrictionDocuments
    BY Unfold
  <2>3. doc \in RestrictionDocuments /\ doc.is = "lifted" /\ doc.ban = calls[c].seen.ban
    BY <2>2, LiftedDocument
  <2>4. calls[c].about = Reporter
    BY <1>2 DEF Banning, RulingsHold, CopiesAreSound
  <2> HIDE DEF doc
  <2> QED
    BY <1>0, <1>2, <2>1, <2>3, <2>4, PutRestrictionBans
<1> QED
  BY <1>1, <1>2 DEF Lift

LEMMA SubmitAppealBans ==
  ASSUME Typed, Banning, NEW c \in Actor, submitAppeal(c)
  PROVE  Banning'
<1> USE DEF Is, Clock, Trail, AppealIs
<1>0. UNCHANGED <<report, frozen>>
  BY DEF submitAppeal
<1>1. CASE calls[c].at = "new"
  <2>1. PICK k \in Actor :
          /\ restrictions[k].is # "none" /\ restrictions[k].appeal = "none"
          /\ calls' = [calls EXCEPT ![c].at = "claim", ![c].about = k, ![c].seen = restrictions[k]]
    BY <1>1 DEF submitAppeal
  <2>2. /\ \A d \in Actor \ {c} : calls'[d] = calls[d]
        /\ calls'[c].at = "claim" /\ calls'[c].copy = calls[c].copy
        /\ calls'[c].about = k /\ calls'[c].seen = restrictions[k]
    BY <2>1, Unfold DEF CallRecords
  <2>3. k \in Caller => restrictions[k].is = "active"
    <3>1. restrictions[k].is \in {"none", "active", "lifted"}
      BY Unfold DEF RestrictionDocuments
    <3> QED
      BY <2>1, <3>1 DEF Banning, RulingsHold, RestrictionsAreSound
  <2>4. UNCHANGED <<restrictions, appeals>>
    BY <1>1 DEF submitAppeal
  <2> QED
    BY <1>0, <1>1, <2>1, <2>2, <2>3, <2>4, SeenBans
<1>2. CASE calls[c].at = "claim" /\ appeals[calls[c].about] # "none"
  <2>1. To(c, "done") /\ UNCHANGED <<restrictions, appeals>>
    BY <1>2 DEF submitAppeal
  <2> QED
    BY <1>0, <1>2, <2>1, ToBans DEF Rulings
<1>3. ASSUME NEW at \in {"file", "appeal"}, NEW s, To(c, at), appeals' = [appeals EXCEPT ![calls[c].about] = s],
             UNCHANGED restrictions,
             \/ calls[c].at = "claim" /\ appeals[calls[c].about] = "none" /\ at = "file" /\ s = "claimed"
             \/ calls[c].at = "file" /\ at = "appeal" /\ s = "pending"
      PROVE  Banning'
  <2>1. /\ \A d \in Actor \ {c} : calls'[d] = calls[d]
        /\ calls'[c].at = at /\ calls'[c].copy = calls[c].copy
        /\ calls'[c].about = calls[c].about /\ calls'[c].seen = calls[c].seen
    BY <1>3, Unfold DEF To, CallRecords
  <2> QED
    BY <1>0, <1>3, <2>1, AppealBans
<1>4. CASE calls[c].at = "claim" /\ appeals[calls[c].about] = "none"
  <2>1. To(c, "file") /\ appeals' = [appeals EXCEPT ![calls[c].about] = "claimed"] /\ UNCHANGED restrictions
    BY <1>4 DEF submitAppeal
  <2> QED
    BY <1>3, <1>4, <2>1
<1>5. CASE calls[c].at = "file"
  <2>1. To(c, "appeal") /\ appeals' = [appeals EXCEPT ![calls[c].about] = "pending"] /\ UNCHANGED restrictions
    BY <1>5 DEF submitAppeal
  <2> QED
    BY <1>3, <1>5, <2>1
<1>6. CASE calls[c].at = "appeal"
  <2> DEFINE doc == [calls[c].seen EXCEPT !.appeal = "pending"]
  <2>1. PutRestriction(c, doc, "done") /\ UNCHANGED appeals
    BY <1>6 DEF submitAppeal
  <2>2. calls[c].seen \in RestrictionDocuments
    BY Unfold
  <2>3. doc \in RestrictionDocuments /\ doc.is = calls[c].seen.is /\ doc.ban = calls[c].seen.ban
    BY <2>2, AppealedDocument
  <2>4. calls[c].seen.is # "none" /\ (calls[c].about \in Caller => calls[c].seen.is = "active")
    BY <1>6 DEF Banning, RulingsHold, CopiesAreSound, Rulings
  <2> HIDE DEF doc
  <2> QED
    BY <1>0, <1>6, <2>1, <2>3, <2>4, PutRestrictionBans
<1> QED
  BY <1>1, <1>2, <1>4, <1>5, <1>6 DEF submitAppeal

LEMMA DecideAppealBans ==
  ASSUME Typed, Banning, NEW c \in Actor, decideAppeal(c)
  PROVE  Banning'
<1> USE DEF Is, Clock, Trail, AppealIs
<1>0. UNCHANGED <<report, frozen>>
  BY DEF decideAppeal
<1>1. CASE calls[c].at = "new"
  <2>1. PICK k \in Actor :
          /\ appeals[k] = "pending"
          /\ calls' = [calls EXCEPT ![c].at = "judge", ![c].about = k, ![c].seen = restrictions[k]]
    BY <1>1 DEF decideAppeal
  <2>2. /\ \A d \in Actor \ {c} : calls'[d] = calls[d]
        /\ calls'[c].at = "judge" /\ calls'[c].copy = calls[c].copy
        /\ calls'[c].about = k /\ calls'[c].seen = restrictions[k]
    BY <2>1, Unfold DEF CallRecords
  <2>3. restrictions[k].is # "none" /\ (k \in Caller => restrictions[k].is = "active")
    <3>1. restrictions[k].is \in {"none", "active", "lifted"}
      BY Unfold DEF RestrictionDocuments
    <3> QED
      BY <2>1, <3>1 DEF Banning, RulingsHold, RestrictionsAreSound
  <2>4. UNCHANGED <<restrictions, appeals>>
    BY <1>1 DEF decideAppeal
  <2> QED
    BY <1>0, <1>1, <2>1, <2>2, <2>3, <2>4, SeenBans
<1>2. CASE calls[c].at = "judge"
  <2>1. PICK verdict \in {"upheld", "overturned"} :
          calls' = [calls EXCEPT ![c].at = "rule", ![c].seen.appeal = verdict]
    BY <1>2 DEF decideAppeal
  <2>2. appeals' = [appeals EXCEPT ![calls[c].about] = "decided"] /\ UNCHANGED restrictions
    BY <1>2 DEF decideAppeal
  <2>3. /\ \A d \in Actor \ {c} : calls'[d] = calls[d]
        /\ calls'[c].at = "rule" /\ calls'[c].copy = calls[c].copy /\ calls'[c].about = calls[c].about
        /\ calls'[c].seen = [calls[c].seen EXCEPT !.appeal = verdict]
    BY <2>1, Unfold DEF CallRecords
  <2>4. calls[c].seen \in RestrictionDocuments
    BY Unfold
  <2>5. /\ calls'[c].seen.is = calls[c].seen.is /\ calls'[c].seen.ban = calls[c].seen.ban
        /\ calls'[c].seen.appeal = verdict
    BY <2>3, <2>4, AppealedDocument
  <2> QED
    BY <1>0, <1>2, <2>2, <2>3, <2>5, AppealBans
<1>3. CASE calls[c].at = "rule"
  <2>1. PICK at \in {"done", "overturn"} :
          /\ PutRestriction(c, calls[c].seen, at) /\ UNCHANGED appeals
          /\ at = IF calls[c].seen.appeal = "upheld" THEN "done" ELSE "overturn"
    BY <1>3 DEF decideAppeal
  <2>2. calls[c].seen \in RestrictionDocuments
    BY Unfold
  <2>3. calls[c].seen.is # "none" /\ (calls[c].about \in Caller => calls[c].seen.is = "active")
    BY <1>3 DEF Banning, RulingsHold, CopiesAreSound, Rulings
  <2>4. calls[c].seen.appeal \in {"upheld", "overturned"}
    BY <1>3 DEF Banning, RulingsHold, CopiesAreSound
  <2> QED
    BY <1>0, <1>3, <2>1, <2>2, <2>3, <2>4, PutRestrictionBans
<1>4. CASE calls[c].at = "overturn"
  <2> DEFINE doc == [calls[c].seen EXCEPT !.is = "lifted"]
  <2>1. PutRestriction(c, doc, "done") /\ UNCHANGED appeals
    BY <1>4 DEF decideAppeal
  <2>2. calls[c].seen \in RestrictionDocuments
    BY Unfold
  <2>3. /\ doc \in RestrictionDocuments /\ doc.is = "lifted" /\ doc.ban = calls[c].seen.ban
        /\ doc.appeal = calls[c].seen.appeal
    BY <2>2, LiftedDocument
  <2>4. calls[c].seen.appeal = "overturned" /\ appeals[calls[c].about] = "decided"
    BY <1>4 DEF Banning, RulingsHold, CopiesAreSound
  <2> HIDE DEF doc
  <2> QED
    BY <1>0, <1>4, <2>1, <2>3, <2>4, PutRestrictionBans
<1> QED
  BY <1>1, <1>2, <1>3, <1>4 DEF decideAppeal

LEMMA SweepBans ==
  ASSUME Typed, Banning, NEW c \in Actor, sweepRetention(c)
  PROVE  Banning'
<1> USE DEF Is, Clock, Trail
<1>1. CASE Read(c, "shred")
  BY <1>1, ReadBans DEF Rulings
<1>2. CASE Is(c, "shred") /\ To(c, "drop") /\ UNCHANGED <<report, restrictions, appeals, frozen>>
  BY <1>2, ToBans DEF Rulings
<1>3. CASE Is(c, "drop") /\ Put(c, Missing, "done") /\ UNCHANGED <<restrictions, appeals, frozen>>
  BY <1>3, PutBans DEF Rulings, Escalated
<1> QED
  BY <1>1, <1>2, <1>3 DEF sweepRetention

LEMMA BanningNext ==
  ASSUME Typed, Banning, [EnforcementNext]_enforcementVars
  PROVE  Banning'
<1>1. CASE UNCHANGED <<report, restrictions, appeals, calls, frozen>>
  BY <1>1 DEF Banning, EscalationsArePursued, Pursued, Pursues, Escalated, RulingsHold,
              RestrictionsAreSound, CopiesAreSound, FiledOnce
<1>2. ASSUME NEW c \in Reviewer, Review(c)
      PROVE  Banning'
  <2>1. c \in Actor /\ c \in Caller
    BY DEF Actor, Caller
  <2> QED
    BY <1>2, <2>1, ReviewBans, FreezeBans, LiftBans, DecideAppealBans DEF Review
<1>3. ASSUME NEW c \in Outsider, submitAppeal(c) \/ sweepRetention(c)
      PROVE  Banning'
  <2>1. c \in Actor
    BY DEF Actor, Caller
  <2> QED
    BY <1>3, <2>1, SubmitAppealBans, SweepBans
<1> QED
  BY <1>1, <1>2, <1>3, SubmitBans, RestrictBans DEF EnforcementNext, enforcementVars, YearPasses, Trail

\* An escalation stands: the report keeps its hold until an outdated copy is put back
\* (every put writes the whole document), and once every request was answered one of
\* them made a ban that is active or was lifted by the appeal it granted (escalate bans
\* unless the report it read was escalated already), for any number of reviewers.
THEOREM EscalationStandsCorrect == EnforcementSpec => []EscalationStands
<1>1. EnforcementInit => Held /\ Banning
  <2> SUFFICES ASSUME EnforcementInit PROVE Held /\ Banning
    OBVIOUS
  <2>1. /\ \A c \in Actor : calls[c].at \in {"new", "storeFrame"} /\ calls[c].copy = Missing
        /\ \A k \in Actor : /\ restrictions[k].is = "none" /\ restrictions[k].ban = FALSE
                            /\ appeals[k] = "none"
        /\ report = Missing /\ ~frozen
    BY DEF EnforcementInit, NoRestriction
  <2>2. Held
    BY <2>1 DEF Held, CopiesAreFresh, DropsOnlyTheUnheld, NotFrozenYet, HoldKept, LegalHoldIsKept,
                ReadPlaces, Submitting
  <2>3. Banning
    BY <2>1 DEF Banning, EscalationsArePursued, Escalated, RulingsHold, RestrictionsAreSound,
                CopiesAreSound, FiledOnce, Rulings
  <2> QED
    BY <2>2, <2>3
<1>2. Typed /\ Held /\ Banning => EscalationStands
  <2> SUFFICES ASSUME Typed, Held, Banning PROVE EscalationStands
    OBVIOUS
  <2>1. overwritten \/ LegalHoldIsKept
    BY DEF Held, HoldKept
  <2>2. ASSUME frozen, \A c \in Caller : calls[c].at \in {"new", "done"}
        PROVE  \E c \in Caller : /\ restrictions[c].ban
                                 /\ restrictions[c].is = "active" \/ restrictions[c].appeal = "overturned"
    <3>1. PICK c \in Caller : Pursues(c)
      BY <2>2 DEF Banning, EscalationsArePursued, Pursued
    <3>2. restrictions[c].ban = TRUE
      BY <2>2, <3>1 DEF Pursues
    <3>3. c \in Actor /\ restrictions[c].is \in {"none", "active", "lifted"}
      BY Unfold DEF Actor, RestrictionDocuments
    <3>4. restrictions[c].is = "active" \/ restrictions[c].appeal = "overturned"
      BY <3>2, <3>3 DEF Banning, RulingsHold, RestrictionsAreSound
    <3>5. restrictions[c].ban
      BY <3>2, Zenon
    <3> QED
      BY <3>4, <3>5, Zenon
  <2> QED
    BY <2>1, <2>2 DEF EscalationStands
<1>3. EnforcementInit => Kept
  BY InitKept
<1> QED
  BY <1>1, <1>2, <1>3, EnforcementInitType, EnforcementNextType, KeptNext, HeldNext, BanningNext, PTL
     DEF EnforcementSpec
=============================================================================
