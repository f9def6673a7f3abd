---------------------------- MODULE FindingViews ----------------------------
(***************************************************************************)
(* The rules that turn scan data into what the console shows: lib/         *)
(* findings.ts, lib/severity.ts and lib/scanState.ts, as operators.        *)
(* Strings from the server are lower-cased; scores are in hundredths.      *)
(***************************************************************************)
EXTENDS Naturals, FiniteSets, FiniteSetsExt, ScanState

Severities == {"critical", "high", "medium", "low", "info"}
SeverityRank == [critical |-> 4, high |-> 3, medium |-> 2, low |-> 1, info |-> 0]
FindingStatus == {"open", "pending_review", "auto_fix_available", "triaged", "in_progress",
                  "accepted_risk", "false_positive", "fixed", "wont_fix"}
PendingReview == {"pending_review", "auto_fix_available", "triaged", "in_progress"}

(* Anything the backend sends that is not known is shown as info, or as open. *)
NormaliseSeverity(raw) == IF raw \in Severities THEN raw ELSE "info"
NormaliseStatus(raw) == IF raw \in FindingStatus THEN raw ELSE "open"

NoScore == [scored |-> FALSE, score |-> 0]
Score(n) == [scored |-> TRUE, score |-> n]

(* Modules score 0-1 or 0-100; both are accepted, rounded and clamped. *)
RiskScore(severity, raw) ==
    IF ~raw.scored
    THEN [critical |-> 95, high |-> 82, medium |-> 58, low |-> 32, info |-> 10][severity]
    ELSE IF raw.score <= 100 THEN raw.score
    ELSE Min({100, (raw.score + 50) \div 100})

RiskTier(score) ==
    IF score >= 90 THEN "critical" ELSE IF score >= 70 THEN "high"
    ELSE IF score >= 40 THEN "medium" ELSE IF score >= 15 THEN "low" ELSE "info"

(* toFinding, of the backend's finding f of a scan. *)
ToFinding(f, raw, scan, status) ==
    LET severity == NormaliseSeverity(raw.severity) IN
    [id |-> f, scan |-> scan, severity |-> severity,
     riskScore |-> RiskScore(severity, raw.score), status |-> NormaliseStatus(status)]

(* Mutant: the comparison is the other way round. *)
HighestReversed(findings) ==
    CHOOSE s \in Severities \intersect ({f.severity : f \in findings} \union {"info"}) :
        \A f \in findings : SeverityRank[f.severity] >= SeverityRank[s]

Highest(findings) ==
    CHOOSE s \in Severities \intersect ({f.severity : f \in findings} \union {"info"}) :
        \A f \in findings : SeverityRank[f.severity] <= SeverityRank[s]

ScanAsset(scan, status, findings) ==
    [scan |-> scan, vulnerabilityCount |-> Cardinality(findings),
     highestSeverity |-> Highest(findings),
     riskScore |-> Max({0} \union {f.riskScore : f \in findings}),
     scanStatus |-> status]

SeverityCount(findings, s) == Cardinality({f \in findings : f.severity = s})

MetricsFor(findings, hasScan) ==
    LET fixed == Cardinality({f \in findings : f.status = "fixed"})
        n == Cardinality(findings)
    IN [totalScanned |-> IF hasScan THEN 1 ELSE 0,
        counts |-> [s \in Severities \ {"info"} |-> SeverityCount(findings, s)],
        autoRemediationRate |-> IF n = 0 THEN 0 ELSE (200 * fixed + n) \div (2 * n),
        pendingReviews |-> Cardinality({f \in findings : f.status \in PendingReview})]

DistributionFor(findings) ==
    {[severity |-> s, count |-> SeverityCount(findings, s)] :
        s \in {s \in Severities : SeverityCount(findings, s) > 0}}

(* An unknown status is styled as a failure.  (It is asked of an active scan, *)
(* which has a status: one without would be styled as queued.)               *)
ScanStateStyle(status) ==
    LET known == IF status \in ScanRunState THEN status ELSE "failed" IN
    [terminal |-> known \in TerminalStates, successful |-> known = "completed", label |-> known]

EndedWithoutResults(status) ==
    ScanStateStyle(status).terminal /\ ~ScanStateStyle(status).successful
=============================================================================
