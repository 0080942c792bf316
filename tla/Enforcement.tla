---------------------------- MODULE Enforcement ----------------------------
(***************************************************************************)
(* One report, its evidence and the restrictions it leads to                *)
(* (enforcement/EnforcementService.ts, evidence.ts).  Every document is     *)
(* JSON that a request reads, changes and puts back after other awaits,     *)
(* without a lock: a put writes the whole copy.  A request may fail, or its *)
(* process die, between any two steps, and a reviewer sends it again.  The  *)
(* report has a frame, as every report of a call with video.                *)
(***************************************************************************)
EXTENDS Integers

CONSTANTS
  Reviewer,       \* requests of reviewers
  Outsider,          \* requests of the restricted person, and the daily sweep
  Reporter,       \* the request that submits the report
  Missing         \* no document, or no restriction linked

Caller == Reviewer \cup Outsider

ASSUME EnforcementAssumption == Reporter \notin Caller /\ Missing \notin Caller \cup {Reporter}

Actor == Caller \cup {Reporter}     \* a restriction is named after the request that made it

VARIABLES
  report,       \* the stored report, or Missing
  files,        \* the frame in the two evidence directories
  restrictions, \* restriction documents
  appeals,      \* the claim and the document of each restriction's one appeal
  calls,        \* where each request is, and what it has read
  overdue,      \* the report is older than RETENTION_MS
  lapsed,       \* preservedUntil has passed
  frozen,       \* history: an escalation froze the report and nobody released it
  shredded,     \* history: the sweep, or submitReport's own cleanup, deleted its evidence
  outdated,     \* history: requests whose copy of the report is not the stored one
  overwritten   \* history: one of those put its copy back, or deleted the report

enforcementVars == <<report, files, restrictions, appeals, calls, overdue, lapsed,
                     frozen, shredded, outdated, overwritten>>
Clock == <<overdue, lapsed>>
Trail == <<frozen, shredded, outdated, overwritten>>

Documents ==
  [status : {"open", "acknowledged", "dismissed", "actioned", "escalated"},
   restricted : BOOLEAN, hold : BOOLEAN, viewed : BOOLEAN, link : Actor \cup {Missing}]
RestrictionDocuments ==
  [is : {"none", "active", "lifted"}, ban : BOOLEAN, appeal : {"none", "pending", "upheld", "overturned"}]
CallPlaces ==
  {"new", "storeFrame", "saveFrame", "saveReport", "autoAction", "fetch", "markViewed", "acknowledge",
   "dismiss", "lift", "lifting", "decide", "copy", "copying", "erase", "freeze", "restrict",
   "link", "release", "claim", "file", "appeal", "judge", "rule", "overturn", "shred", "drop", "done", "failed"}

\* The absence of a document is no document.
ASSUME MissingAssumption == Missing \notin Documents

NoRestriction == [is |-> "none", ban |-> FALSE, appeal |-> "none"]
NewReport(restricted) ==
  [status |-> "open", restricted |-> restricted, hold |-> FALSE, viewed |-> FALSE, link |-> Missing]

EnforcementTypeOK ==
  /\ report \in Documents \cup {Missing}
  /\ files \in [BOOLEAN -> {"none", "part", "whole"}]
  /\ restrictions \in [Actor -> RestrictionDocuments]
  /\ appeals \in [Actor -> {"none", "claimed", "pending", "decided"}]
  /\ calls \in [Actor -> [at : CallPlaces, copy : Documents \cup {Missing},
                          about : Actor, seen : RestrictionDocuments]]
  /\ {overdue, lapsed, frozen, shredded, overwritten} \subseteq BOOLEAN
  /\ outdated \subseteq Actor

EnforcementInit ==
  /\ report = Missing
  /\ files = [restricted \in BOOLEAN |-> "none"]
  /\ restrictions = [k \in Actor |-> NoRestriction]
  /\ appeals = [k \in Actor |-> "none"]
  /\ calls = [c \in Actor |-> [at |-> IF c = Reporter THEN "storeFrame" ELSE "new",
                               copy |-> Missing, about |-> Reporter,
                               seen |-> NoRestriction]]
  /\ overdue = FALSE /\ lapsed = FALSE
  /\ frozen = FALSE /\ shredded = FALSE
  /\ outdated = {} /\ overwritten = FALSE

Is(c, at) == calls[c].at = at
Copy(c) == calls[c].copy
To(c, at) == calls' = [calls EXCEPT ![c].at = at]

\* store.put("report"): the whole copy, whatever is there by now.
Put(c, doc, at) ==
  /\ report' = doc
  /\ overwritten' = (overwritten \/ c \in outdated)
  /\ outdated' = Actor \ {c}
  /\ calls' = [calls EXCEPT ![c].at = at, ![c].copy = doc]

-----------------------------------------------------------------------------
(* submitReport, autoAction, restrict.                                      *)

\* evidence.put creates the file and then writes it; a frame routed to the
\* restricted path never touches the other one.
StoreFrame(c) ==
  /\ Is(c, "storeFrame")
  /\ \E restricted \in BOOLEAN :
       /\ files' = [files EXCEPT ![restricted] = "part"]
       /\ calls' = [calls EXCEPT ![c].at = "saveFrame", ![c].copy = NewReport(restricted)]
  /\ UNCHANGED <<report, restrictions, appeals, Clock, Trail>>

SaveFrame(c) ==
  /\ Is(c, "saveFrame")
  /\ files' = [files EXCEPT ![Copy(c).restricted] = "whole"]
  /\ To(c, "saveReport")
  /\ UNCHANGED <<report, restrictions, appeals, Clock, Trail>>

SaveReport(c) ==
  /\ Is(c, "saveReport")
  /\ Put(c, Copy(c), "autoAction")
  /\ UNCHANGED <<files, restrictions, appeals, Clock, frozen, shredded>>

\* The put throws, whether it was applied or not: the frame is deleted.
SaveReportFails(c) ==
  /\ Is(c, "saveReport")
  /\ files' = [files EXCEPT ![Copy(c).restricted] = "none"]
  /\ report' \in {report, Copy(c)}
  /\ shredded' = TRUE
  /\ To(c, "failed")
  /\ UNCHANGED <<restrictions, appeals, Clock, frozen, outdated, overwritten>>

\* The weights reach the threshold, or they do not, or a restriction is active already.
autoAction(c) ==
  /\ Is(c, "autoAction")
  /\ \/ (\A k \in Actor : restrictions[k].is # "active") /\ To(c, "restrict")
     \/ To(c, "done")
  /\ UNCHANGED <<report, files, restrictions, appeals, Clock, Trail>>

\* A ban after an escalation; else a warning or a step of the ladder.
restrict(c) ==
  /\ Is(c, "restrict")
  /\ restrictions' = [restrictions EXCEPT ![c] =
                        [is |-> "active", ban |-> Copy(c).status = "escalated", appeal |-> "none"]]
  /\ To(c, "link")
  /\ UNCHANGED <<report, files, appeals, Clock, Trail>>

linkReport(c) ==
  /\ Is(c, "link")
  /\ Put(c, [Copy(c) EXCEPT !.link = c], "done")
  /\ UNCHANGED <<files, restrictions, appeals, Clock, frozen, shredded>>

-----------------------------------------------------------------------------
(* The reviewer.  A request reads the report first; "conflict" and          *)
(* "not found" answers change nothing.                                      *)

Read(c, at) ==
  /\ Is(c, "new") /\ report # Missing
  /\ calls' = [calls EXCEPT ![c].at = at, ![c].copy = report]
  /\ outdated' = outdated \ {c}
  /\ UNCHANGED <<report, files, restrictions, appeals, Clock, frozen, shredded, overwritten>>

evidenceImage(c) == Read(c, "fetch") /\ ~report.restricted

FetchEvidence(c) ==
  /\ Is(c, "fetch")
  /\ To(c, IF files[FALSE] = "whole" /\ ~Copy(c).viewed THEN "markViewed" ELSE "done")
  /\ UNCHANGED <<report, files, restrictions, appeals, Clock, Trail>>

MarkViewed(c) ==
  /\ Is(c, "markViewed")
  /\ Put(c, [Copy(c) EXCEPT !.viewed = TRUE], "done")
  /\ UNCHANGED <<files, restrictions, appeals, Clock, frozen, shredded>>

Acknowledge(c) ==
  \/ Read(c, "acknowledge") /\ report.status = "open"
  \/ /\ Is(c, "acknowledge")
     /\ Put(c, [Copy(c) EXCEPT !.status = "acknowledged"], "done")
     /\ UNCHANGED <<files, restrictions, appeals, Clock, frozen, shredded>>

Dismiss(c) ==
  \/ Read(c, "dismiss")
  \/ /\ Is(c, "dismiss")
     /\ Put(c, [Copy(c) EXCEPT !.status = "dismissed"], IF Copy(c).link = Reporter THEN "lift" ELSE "done")
     /\ UNCHANGED <<files, restrictions, appeals, Clock, frozen, shredded>>

\* store.put("restriction"): the whole copy.
PutRestriction(c, doc, at) ==
  /\ restrictions' = [restrictions EXCEPT ![calls[c].about] = doc]
  /\ calls' = [calls EXCEPT ![c].at = at, ![c].seen = doc]

\* The automatic pause of a dismissed report is lifted.
Lift(c) ==
  \/ /\ Is(c, "lift")
     /\ calls' = [calls EXCEPT ![c].seen = restrictions[Reporter], ![c].about = Reporter,
                              ![c].at = IF restrictions[Reporter].is = "active" THEN "lifting" ELSE "done"]
     /\ UNCHANGED <<report, files, restrictions, appeals, Clock, Trail>>
  \/ /\ Is(c, "lifting")
     /\ PutRestriction(c, [calls[c].seen EXCEPT !.is = "lifted"], "done")
     /\ UNCHANGED <<report, files, appeals, Clock, Trail>>

\* warn, restrict
RestrictUser(c) ==
  \/ Read(c, "decide")
  \/ /\ Is(c, "decide")
     /\ Put(c, [Copy(c) EXCEPT !.status = "actioned"], "restrict")
     /\ UNCHANGED <<files, restrictions, appeals, Clock, frozen, shredded>>

escalate(c) == Read(c, IF report.restricted THEN "freeze" ELSE "copy")

\* Mutant.
CopyWithoutWaiting(c) ==
  /\ Is(c, "copy")
  /\ files' = IF files[FALSE] = "whole" /\ files[TRUE] = "none"
              THEN [files EXCEPT ![TRUE] = "part"] ELSE files
  /\ To(c, "erase")
  /\ UNCHANGED <<report, restrictions, appeals, Clock, Trail>>

\* The bytes are read; a file that is there already must hold the same bytes,
\* one that a crash left half written does not: put throws.
CopyEvidence(c) ==
  /\ Is(c, "copy")
  /\ IF files[FALSE] # "whole" THEN To(c, "erase") /\ UNCHANGED files
     ELSE \/ files[TRUE] = "none" /\ files' = [files EXCEPT ![TRUE] = "part"] /\ To(c, "copying")
          \/ files[TRUE] = "part" /\ To(c, "failed") /\ UNCHANGED files
          \/ files[TRUE] = "whole" /\ To(c, "erase") /\ UNCHANGED files
  /\ UNCHANGED <<report, restrictions, appeals, Clock, Trail>>

EvidenceCopied(c) ==
  /\ Is(c, "copying")
  /\ files' = [files EXCEPT ![TRUE] = "whole"]
  /\ To(c, "erase")
  /\ UNCHANGED <<report, restrictions, appeals, Clock, Trail>>

EraseOriginal(c) ==
  /\ Is(c, "erase")
  /\ files' = [files EXCEPT ![FALSE] = "none"]
  /\ To(c, "freeze")
  /\ UNCHANGED <<report, restrictions, appeals, Clock, Trail>>

\* Mutant.
FreezeThenLook(c) ==
  LET doc == [Copy(c) EXCEPT !.restricted = TRUE, !.hold = TRUE, !.status = "escalated"] IN
  /\ Is(c, "freeze")
  /\ Put(c, doc, IF doc.status = "escalated" THEN "done" ELSE "restrict")
  /\ frozen' = TRUE /\ lapsed' = FALSE
  /\ UNCHANGED <<files, restrictions, appeals, overdue, shredded>>

\* The hold is renewed; a report escalated before is not restricted again.
Freeze(c) ==
  LET doc == [Copy(c) EXCEPT !.restricted = TRUE, !.hold = TRUE, !.status = "escalated"] IN
  /\ Is(c, "freeze")
  /\ Put(c, doc, IF Copy(c).status = "escalated" THEN "done" ELSE "restrict")
  /\ frozen' = TRUE /\ lapsed' = FALSE
  /\ UNCHANGED <<files, restrictions, appeals, overdue, shredded>>

releaseHold(c) ==
  \/ Read(c, "release") /\ report.hold
  \/ /\ Is(c, "release")
     /\ Put(c, [Copy(c) EXCEPT !.hold = FALSE], "done")
     /\ frozen' = FALSE
     /\ UNCHANGED <<files, restrictions, appeals, Clock, shredded>>

-----------------------------------------------------------------------------
(* Appeals.                                                                 *)

AppealIs(k, status) == appeals' = [appeals EXCEPT ![k] = status]

\* The restriction is read, its one appeal claimed and stored, and the copy put back.
submitAppeal(c) ==
  \/ /\ Is(c, "new")
     /\ \E k \in Actor :
          /\ restrictions[k].is # "none" /\ restrictions[k].appeal = "none"
          /\ calls' = [calls EXCEPT ![c].at = "claim", ![c].about = k, ![c].seen = restrictions[k]]
     /\ UNCHANGED <<report, files, restrictions, appeals, Clock, Trail>>
  \/ /\ Is(c, "claim")
     /\ IF appeals[calls[c].about] # "none" THEN To(c, "done") /\ UNCHANGED appeals
        ELSE To(c, "file") /\ AppealIs(calls[c].about, "claimed")
     /\ UNCHANGED <<report, files, restrictions, Clock, Trail>>
  \/ /\ Is(c, "file")
     /\ AppealIs(calls[c].about, "pending")
     /\ To(c, "appeal")
     /\ UNCHANGED <<report, files, restrictions, Clock, Trail>>
  \/ /\ Is(c, "appeal")
     /\ PutRestriction(c, [calls[c].seen EXCEPT !.appeal = "pending"], "done")
     /\ UNCHANGED <<report, files, appeals, Clock, Trail>>

\* The appeal is put with its verdict, then the restriction, then it is lifted.
decideAppeal(c) ==
  \/ /\ Is(c, "new")
     /\ \E k \in Actor :
          /\ appeals[k] = "pending"
          /\ calls' = [calls EXCEPT ![c].at = "judge", ![c].about = k, ![c].seen = restrictions[k]]
     /\ UNCHANGED <<report, files, restrictions, appeals, Clock, Trail>>
  \/ /\ Is(c, "judge")
     /\ AppealIs(calls[c].about, "decided")
     /\ \E verdict \in {"upheld", "overturned"} :
          calls' = [calls EXCEPT ![c].at = "rule", ![c].seen.appeal = verdict]
     /\ UNCHANGED <<report, files, restrictions, Clock, Trail>>
  \/ /\ Is(c, "rule")
     /\ PutRestriction(c, calls[c].seen, IF calls[c].seen.appeal = "upheld" THEN "done" ELSE "overturn")
     /\ UNCHANGED <<report, files, appeals, Clock, Trail>>
  \/ /\ Is(c, "overturn")
     /\ PutRestriction(c, [calls[c].seen EXCEPT !.is = "lifted"], "done")
     /\ UNCHANGED <<report, files, appeals, Clock, Trail>>

-----------------------------------------------------------------------------
(* Retention, time, failures.                                               *)

sweepRetention(c) ==
  \/ Read(c, "shred") /\ overdue /\ (~report.hold \/ lapsed)
  \/ /\ Is(c, "shred")
     /\ files' = [files EXCEPT ![Copy(c).restricted] = "none"]
     /\ shredded' = TRUE
     /\ To(c, "drop")
     /\ UNCHANGED <<report, restrictions, appeals, Clock, frozen, outdated, overwritten>>
  \/ /\ Is(c, "drop")
     /\ Put(c, Missing, "done")
     /\ UNCHANGED <<files, restrictions, appeals, Clock, frozen, shredded>>

YearPasses ==
  /\ overdue' = TRUE
  /\ lapsed' \in {lapsed, TRUE}
  /\ <<overdue, lapsed>>' # <<overdue, lapsed>>
  /\ UNCHANGED <<report, files, restrictions, appeals, calls, Trail>>

\* A store or disk error, or the process dies.
Broken(c) ==
  /\ calls[c].at \notin {"new", "done", "failed"}
  /\ To(c, "failed")
  /\ UNCHANGED <<report, files, restrictions, appeals, Clock, Trail>>

submitReport(c) == StoreFrame(c) \/ SaveFrame(c) \/ SaveReport(c) \/ SaveReportFails(c) \/ autoAction(c)

\* A request of a reviewer, all its steps.
Review(c) ==
  \/ evidenceImage(c) \/ FetchEvidence(c) \/ MarkViewed(c)
  \/ Acknowledge(c) \/ Dismiss(c) \/ Lift(c) \/ RestrictUser(c)
  \/ escalate(c) \/ CopyEvidence(c) \/ EvidenceCopied(c) \/ EraseOriginal(c) \/ Freeze(c)
  \/ releaseHold(c) \/ decideAppeal(c)

EnforcementNext ==
  \/ YearPasses
  \/ submitReport(Reporter)
  \/ \E c \in Reviewer : Review(c)
  \/ \E c \in Outsider : submitAppeal(c) \/ sweepRetention(c)
  \/ \E c \in Actor : restrict(c) \/ linkReport(c) \/ Broken(c)

EnforcementSpec == EnforcementInit /\ [][EnforcementNext]_enforcementVars

-----------------------------------------------------------------------------
(* Properties.                                                              *)

\* Whatever request dies between copying a frame to the restricted path and
\* deleting the original, and however many escalations interleave, one complete
\* copy of it exists until the sweep deletes it (escalate, evidence.put).
EvidenceSurvives ==
  report # Missing /\ ~shredded => \E restricted \in BOOLEAN : files[restricted] = "whole"

\* EnforcementService.ts, escalate: "freezes it for 1 year".
LegalHoldIsKept ==
  frozen /\ ~lapsed => report # Missing /\ report.hold /\ report.restricted

\* An escalation stands.  The report stays on hold, as far as the unlocked documents
\* allow: until a request puts back a report that another one had changed meanwhile
\* (escalate, sweepRetention).  And once every request was answered the device is
\* banned, even if two reviewers escalated at once, unless an appeal was won
\* (escalate, dismiss, decideAppeal).
EscalationStands ==
  /\ overwritten \/ LegalHoldIsKept
  /\ (frozen /\ \A c \in Caller : calls[c].at \in {"new", "done"}) =>
       \E c \in Caller : /\ restrictions[c].ban
                         /\ restrictions[c].is = "active" \/ restrictions[c].appeal = "overturned"
=============================================================================
