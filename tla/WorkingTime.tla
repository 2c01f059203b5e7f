---------------------------- MODULE WorkingTime ----------------------------
(***************************************************************************)
(* The working-time evidence behind the P-OVERTIME gate of M3-E1           *)
(* (authority/operational_authority.py).  A trusted adaptor hands over a   *)
(* cut: rules per worker and calendar day, work items, one manifest per    *)
(* source class (the C0 plan schedule and the working-time ledger) and,    *)
(* for every candidate, comparisons of the overtime before and after it.   *)
(* The dataclasses' __post_init__ checks and                               *)
(* _validate_working_time_cut_against_candidates decide whether the cut is *)
(* accepted; the assessment is then derived from it.                       *)
(*                                                                         *)
(* A fingerprint stands for the content it digests, so a bound id is the   *)
(* record itself, and a source head is the content it was captured with.   *)
(* Time is a count of units; a local calendar day has DayLength of them.   *)
(***************************************************************************)
EXTENDS Integers, FiniteSets, Sequences, SequencesExt, FiniteSetsExt

CONSTANTS
    Schedule,       \* baseline placements of the plan revision
    CandidateSeq,   \* the ordered M3-C candidates
    DayLength,
    NONE            \* an absent value

(* The schedule places a commitment once; M3RepairCandidate.__post_init__  *)
(* binds the modified commitments, at least one, to the proposed           *)
(* placements.  Commitments and candidates have identities.                *)
ASSUME WorkingTimeAssumption ==
    /\ DayLength \in Nat \ {0}
    /\ \A p \in Schedule : p.start \in Nat /\ p.end \in Nat /\ p.start < p.end
    /\ \A p \in Schedule : p.commitment # NONE
    /\ \A p, q \in Schedule : p.commitment = q.commitment => p = q
    /\ \A i \in DOMAIN CandidateSeq :
          LET c == CandidateSeq[i]
          IN  /\ c.id # NONE /\ c.modified # {}
              /\ c.modified = { p.commitment : p \in c.proposed }
              /\ c.modified \subseteq { p.commitment : p \in Schedule }
              /\ \A p \in c.proposed : p.start \in Nat /\ p.end \in Nat /\ p.start < p.end
              /\ \A p, q \in c.proposed : p.commitment = q.commitment => p = q

SourceKinds == {"C0_PLAN_SCHEDULE", "WORKING_TIME_LEDGER"}
CommonKinds == {"COMPLETED_COUNTABLE", "UNCHANGED_SCHEDULED"}
WorkKinds == CommonKinds \cup {"BASELINE_CHANGED", "PROPOSED_CANDIDATE"}
Positions == DOMAIN CandidateSeq

BaselineOf(k) == CHOOSE p \in Schedule : p.commitment = k
ProposedOf(c, k) == CHOOSE p \in c.proposed : p.commitment = k

(* A work item: who worked when, of which kind, for which commitment, and  *)
(* the source head (and, for proposed work, the candidate) it is bound to. *)
WorkItem(worker, kind, commitment, candidate, start, end, source) ==
    [worker |-> worker, kind |-> kind, commitment |-> commitment,
     candidate |-> candidate, start |-> start, end |-> end, source |-> source]

WorkItemOK(i) ==
    /\ i.kind \in WorkKinds
    /\ i.end > i.start
    /\ (i.kind = "PROPOSED_CANDIDATE") <=> (i.candidate # NONE)
    /\ i.kind \in {"PROPOSED_CANDIDATE", "BASELINE_CHANGED"} => i.commitment # NONE

(* One rule: worker, calculation period, threshold, and the business       *)
(* interval it is effective in, which must cover the period.               *)
RuleOK(r) ==
    /\ r.end > r.start
    /\ r.threshold >= 0
    /\ r.until = NONE \/ r.until > r.from
    /\ r.from <= r.start
    /\ r.until = NONE \/ r.until >= r.end

PeriodKey(x) == [worker |-> x.worker, start |-> x.start, end |-> x.end]

(* Mutant: the day after an interval that ends at midnight counts as well.  *)
LocalCalendarPeriodsInclusive(intervals) ==
    { [start |-> d * DayLength, end |-> (d + 1) * DayLength] :
        d \in UNION { (i.start \div DayLength)..(i.end \div DayLength) :
                        i \in intervals } }

(* The local calendar days that a set of intervals touches.                *)
LocalCalendarPeriods(intervals) ==
    { [start |-> d * DayLength, end |-> (d + 1) * DayLength] :
        d \in UNION { (i.start \div DayLength)..((i.end - 1) \div DayLength) :
                        i \in intervals } }

(* Intervals are merged from the left: one that starts after the end of    *)
(* the last merged interval is another, one that ends later extends it.    *)
(* Of the merged intervals the time they cover (none is empty) and the end *)
(* of the last one are kept.                                               *)
Merge(merged, i) ==
    IF merged.time = 0 \/ i.start > merged.end
    THEN [time |-> merged.time + (i.end - i.start), end |-> i.end]
    ELSE IF i.end > merged.end
         THEN [time |-> merged.time + (i.end - merged.end), end |-> i.end]
         ELSE merged

(* The interval that sorts first, by start and then by end.                *)
Earliest(intervals) ==
    CHOOSE i \in intervals :
       \A j \in intervals : i.start < j.start \/ (i.start = j.start /\ i.end <= j.end)

(* The intervals in their order: what is left of them and what is merged.  *)
SweepNext(s) ==
    LET next == Earliest(s.left)
    IN  [left |-> s.left \ {next}, merged |-> Merge(s.merged, next)]

Sweep(intervals) ==
    LET swept[n \in 0..Cardinality(intervals)] ==
           IF n = 0 THEN [left |-> intervals, merged |-> [time |-> 0, end |-> 0]]
           ELSE SweepNext(swept[n - 1])
    IN  swept[Cardinality(intervals)]

CountableTime(items) ==
    Sweep({ [start |-> i.start, end |-> i.end] : i \in items }).merged.time

(* calculate_rule_overtime: what it demands of the items, and what it       *)
(* returns: the merged time above the threshold.                           *)
RuleWorkItemsOK(rule, items) ==
    \A i \in items :
       /\ i.worker = rule.worker
       /\ i.start >= rule.start
       /\ i.end <= rule.end

CalculateRuleOvertime(rule, items) ==
    Max({0, CountableTime(items) - rule.threshold})

(* A worker-period comparison: complete ones name a rule, some work and    *)
(* both amounts, incomplete ones carry no amount.                          *)
ComparisonOK(m) ==
    IF m.complete
    THEN /\ m.rule # NONE
         /\ m.baseline \cup m.candidate # {}
         /\ m.baselineOvertime \in Nat
         /\ m.candidateOvertime \in Nat
    ELSE m.baselineOvertime = NONE /\ m.candidateOvertime = NONE

CreatesOvertime(m) == m.complete /\ m.candidateOvertime > m.baselineOvertime

ComparisonKeys(evidence) == { PeriodKey(m) : m \in evidence.comparisons }

CandidateWorkingTimeEvidenceOK(evidence) ==
    /\ \A m \in evidence.comparisons : ComparisonOK(m)
    /\ \A m, l \in evidence.comparisons : PeriodKey(m) = PeriodKey(l) => m = l
    /\ evidence.complete =>
          evidence.keys # {} /\ evidence.keys = ComparisonKeys(evidence)

(* A source manifest: its head, one entry per candidate and period, and    *)
(* whether it claims to be complete.                                       *)
ManifestOK(manifest) ==
    /\ \A e, f \in manifest.entries :
          e.position = f.position /\ PeriodKey(e) = PeriodKey(f) => e = f
    /\ manifest.complete => \A e \in manifest.entries : e.complete

(* Every source class is selected; a known one has the manifest of exactly *)
(* its head and a complete one, an UNKNOWN one has no head and none.       *)
SourceSelectionsOK(cut) ==
    /\ DOMAIN cut.selections = SourceKinds
    /\ cut.selections["C0_PLAN_SCHEDULE"].state = "PRESENT"
    /\ DOMAIN cut.manifests =
          { k \in SourceKinds : cut.selections[k].state # "UNKNOWN" }
    /\ \A k \in SourceKinds :
          IF cut.selections[k].state = "UNKNOWN"
          THEN cut.selections[k].head = NONE
          ELSE /\ cut.manifests[k].complete
               /\ cut.selections[k].head = cut.manifests[k].head

EntryItems(manifest) == UNION { e.items : e \in manifest.entries }

(* Every manifest entry stands for a compared worker period, and lists     *)
(* common work of that worker inside that period from that very head; an   *)
(* item comes from one manifest only.                                      *)
ManifestEntriesOK(cut) ==
    /\ \A k \in DOMAIN cut.manifests :
          \A e \in cut.manifests[k].entries :
             /\ e.position \in DOMAIN cut.evidence
             /\ PeriodKey(e) \in ComparisonKeys(cut.evidence[e.position])
             /\ \A i \in e.items :
                   /\ i \in cut.items
                   /\ i.kind \in CommonKinds
                   /\ i.worker = e.worker
                   /\ i.start >= e.start
                   /\ i.end <= e.end
                   /\ i.source = <<k, cut.manifests[k].head>>
    /\ \A k, l \in DOMAIN cut.manifests :
          k # l => EntryItems(cut.manifests[k]) \cap EntryItems(cut.manifests[l]) = {}

(* The ledger's content is rebuilt from the items its manifest lists: an   *)
(* item left out of the entries, or added to them, changes the content.    *)
LedgerSourceItem(i) ==
    [worker |-> i.worker, kind |-> i.kind, commitment |-> i.commitment,
     start |-> i.start, end |-> i.end]

(* Mutant: the state is checked against the head, the content is not.       *)
LedgerStateOK(cut) ==
    "WORKING_TIME_LEDGER" \in DOMAIN cut.manifests =>
       cut.selections["WORKING_TIME_LEDGER"].state =
          IF cut.manifests["WORKING_TIME_LEDGER"].head = {}
          THEN "AUTHORITATIVELY_EMPTY" ELSE "PRESENT"

LedgerContentOK(cut) ==
    "WORKING_TIME_LEDGER" \in DOMAIN cut.manifests =>
       LET manifest == cut.manifests["WORKING_TIME_LEDGER"]
           items == EntryItems(manifest)
       IN  /\ manifest.head = { LedgerSourceItem(i) : i \in items }
           /\ cut.selections["WORKING_TIME_LEDGER"].state =
                 IF items = {} THEN "AUTHORITATIVELY_EMPTY" ELSE "PRESENT"

ManifestCommon(cut, n, key) ==
    UNION { e.items : e \in { f \in UNION { cut.manifests[k].entries :
                                              k \in DOMAIN cut.manifests } :
                                f.position = n /\ PeriodKey(f) = key } }

CommonWork(items) == { i \in items : i.kind \in CommonKinds }

(* A comparison inside the cut: its rule is for its worker and period, its *)
(* items are of the cut and on the right side, the common work is the same *)
(* on both sides and what the manifests list, and the amounts are derived. *)
ComparisonInCutOK(cut, n, m) ==
    /\ m.rule # NONE =>
          m.rule \in cut.rules /\ PeriodKey(m.rule) = PeriodKey(m)
    /\ m.baseline \cup m.candidate \subseteq cut.items
    /\ \A i \in m.baseline \cup m.candidate : i.worker = m.worker
    /\ \A i \in m.baseline : i.kind # "PROPOSED_CANDIDATE"
    /\ \A i \in m.candidate :
          /\ i.kind # "BASELINE_CHANGED"
          /\ i.kind = "PROPOSED_CANDIDATE" => i.candidate = CandidateSeq[n].id
    /\ CommonWork(m.baseline) \cup CommonWork(m.candidate)
          \subseteq ManifestCommon(cut, n, PeriodKey(m))
    /\ m.complete =>
          /\ CommonWork(m.baseline) = ManifestCommon(cut, n, PeriodKey(m))
          /\ CommonWork(m.candidate) = ManifestCommon(cut, n, PeriodKey(m))
          /\ DOMAIN cut.manifests # {}
          /\ \A k \in DOMAIN cut.manifests :
                /\ cut.manifests[k].complete
                /\ \E e \in cut.manifests[k].entries :
                      e.position = n /\ PeriodKey(e) = PeriodKey(m) /\ e.complete
          /\ RuleWorkItemsOK(m.rule, m.baseline)
          /\ RuleWorkItemsOK(m.rule, m.candidate)
          /\ m.baselineOvertime = CalculateRuleOvertime(m.rule, m.baseline)
          /\ m.candidateOvertime = CalculateRuleOvertime(m.rule, m.candidate)

Comparisons(cut) == UNION { cut.evidence[n].comparisons : n \in DOMAIN cut.evidence }

(* Nothing in the cut is unused, and all common work is in a manifest.     *)
WorkUniverseOK(cut) ==
    /\ cut.items = UNION { m.baseline \cup m.candidate : m \in Comparisons(cut) }
    /\ cut.rules = { m.rule : m \in Comparisons(cut) } \ {NONE}
    /\ CommonWork(cut.items) =
          UNION { EntryItems(cut.manifests[k]) : k \in DOMAIN cut.manifests }

WorkingTimeEvidenceCutOK(cut) ==
    /\ \A r \in cut.rules : RuleOK(r)
    /\ \A i \in cut.items : WorkItemOK(i)
    /\ \A n \in DOMAIN cut.evidence : CandidateWorkingTimeEvidenceOK(cut.evidence[n])
    /\ SourceSelectionsOK(cut)
    /\ \A k \in DOMAIN cut.manifests : ManifestOK(cut.manifests[k])
    /\ ManifestEntriesOK(cut)
    /\ LedgerContentOK(cut)
    /\ (\E k \in SourceKinds : cut.selections[k].state = "UNKNOWN") =>
          \A n \in DOMAIN cut.evidence : ~cut.evidence[n].complete
    /\ \A n \in DOMAIN cut.evidence :
          \A m \in cut.evidence[n].comparisons : ComparisonInCutOK(cut, n, m)
    /\ WorkUniverseOK(cut)

(***************************************************************************)
(* The cut against the schedule and the candidates.                        *)
(***************************************************************************)
(* The intervals a candidate takes from or gives to a worker.              *)
ChangedIntervals(c, worker) ==
    { [start |-> BaselineOf(k).start, end |-> BaselineOf(k).end] :
        k \in { j \in c.modified : worker \in BaselineOf(j).workers } }
    \cup
    { [start |-> ProposedOf(c, k).start, end |-> ProposedOf(c, k).end] :
        k \in { j \in c.modified : ProposedOf(c, j).worker = worker } }

ChangedWorkers(c) ==
    UNION { BaselineOf(k).workers \cup {ProposedOf(c, k).worker} : k \in c.modified }

WorkersWithoutRules(cut, c) ==
    { w \in ChangedWorkers(c) : ~\E r \in cut.rules : r.worker = w }

ExpectedPeriods(cut, c) ==
    UNION { { [worker |-> w, start |-> p.start, end |-> p.end] :
                p \in LocalCalendarPeriods(ChangedIntervals(c, w)) } :
            w \in ChangedWorkers(c) \ WorkersWithoutRules(cut, c) }

(* The part of a placement inside a period, as the item it must appear as. *)
Clip(worker, kind, candidate, p, period, source) ==
    WorkItem(worker, kind, p.commitment, candidate,
             Max({p.start, period.start}), Min({p.end, period.end}), source)

Overlaps(p, period) == Min({p.end, period.end}) > Max({p.start, period.start})

ExpectedBaseline(c, key, schedule) ==
    { Clip(key.worker, "BASELINE_CHANGED", NONE, p, key, schedule) :
        p \in { q \in Schedule : q.commitment \in c.modified
                                 /\ key.worker \in q.workers /\ Overlaps(q, key) } }

ExpectedCandidate(c, key) ==
    { Clip(key.worker, "PROPOSED_CANDIDATE", c.id, p, key, <<"CANDIDATE", c.id>>) :
        p \in { q \in c.proposed : q.commitment \in c.modified
                                   /\ q.worker = key.worker /\ Overlaps(q, key) } }

ExpectedC0Common(c, key, schedule) ==
    { Clip(key.worker, "UNCHANGED_SCHEDULED", NONE, p, key, schedule) :
        p \in { q \in Schedule : q.commitment \notin c.modified
                                 /\ key.worker \in q.workers /\ Overlaps(q, key) } }

OfKind(items, kind) == { i \in items : i.kind = kind }

ComparisonAgainstCandidateOK(cut, n, m, schedule) ==
    LET c == CandidateSeq[n]
        key == PeriodKey(m)
        changed == OfKind(m.baseline, "BASELINE_CHANGED")
        proposed == OfKind(m.candidate, "PROPOSED_CANDIDATE")
        common == { i \in OfKind(m.baseline, "UNCHANGED_SCHEDULED") : i.source = schedule }
    IN  /\ \E r \in cut.rules : PeriodKey(r) = key /\ m.rule = r
        /\ changed \subseteq ExpectedBaseline(c, key, schedule)
        /\ proposed \subseteq ExpectedCandidate(c, key)
        /\ common \subseteq ExpectedC0Common(c, key, schedule)
        /\ cut.evidence[n].complete /\ m.complete =>
              /\ changed = ExpectedBaseline(c, key, schedule)
              /\ proposed = ExpectedCandidate(c, key)
              /\ common = ExpectedC0Common(c, key, schedule)

(* _validate_working_time_cut_against_candidates, for the plan schedule's  *)
(* head: one rule per period and one family per worker, the C0 manifest of *)
(* that head, and for every candidate exactly the periods it changes.      *)
ValidAgainstCandidates(cut, plan) ==
    /\ \A r, s \in cut.rules : PeriodKey(r) = PeriodKey(s) => r = s
    /\ cut.manifests["C0_PLAN_SCHEDULE"].head = plan
    /\ \A n \in Positions :
          LET c == CandidateSeq[n]
              evidence == cut.evidence[n]
              expected == ExpectedPeriods(cut, c)
          IN  /\ \A r, s \in cut.rules :
                    r.worker = s.worker /\ r.worker \in ChangedWorkers(c) =>
                       <<r.threshold, r.from, r.until>> = <<s.threshold, s.from, s.until>>
              /\ evidence.keys \subseteq expected
              /\ ComparisonKeys(evidence) \subseteq expected \cap evidence.keys
              /\ evidence.complete =>
                    /\ WorkersWithoutRules(cut, c) = {}
                    /\ cut.manifests["C0_PLAN_SCHEDULE"].complete
                    /\ evidence.keys = expected
                    /\ ComparisonKeys(evidence) = expected
              /\ \A m \in evidence.comparisons :
                    ComparisonAgainstCandidateOK(cut, n, m, <<"C0_PLAN_SCHEDULE", plan>>)

(* assess_candidate_overtime: unknown unless every expected comparison is  *)
(* complete; one worker period that gains overtime is enough, whatever     *)
(* another one loses.                                                      *)
OvertimeApplicability(evidence) ==
    IF ~( /\ evidence.complete
          /\ evidence.keys # {}
          /\ evidence.keys = ComparisonKeys(evidence)
          /\ \A m \in evidence.comparisons : m.complete )
    THEN "UNKNOWN"
    ELSE IF \E m \in evidence.comparisons : CreatesOvertime(m)
         THEN "CREATES_OVERTIME"
         ELSE "DOES_NOT_CREATE_OVERTIME"
=============================================================================
