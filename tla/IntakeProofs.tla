---------------------------- MODULE IntakeProofs ----------------------------
(***************************************************************************)
(* Theorems about M1's ledger of operations and the handoffs published to  *)
(* M2, for every set of requests, jobs and publishers, and every order in  *)
(* which they arrive.                                                      *)
(***************************************************************************)
EXTENDS HandoffPublication, TLAPS

EventKeys == Namespaces \X EventIds

JobRows == [exists : BOOLEAN, activity : {"ACTIVE", "DORMANT"}, rev : Nat, updated : Nat]

FactRows == [content : FactInput, evidence : EventKeys \cup {None}]

EventRows ==
    [type : {"FOLLOW_UP_RECORDED", "JOB_WOKEN", "JOB_MARKED_DORMANT"},
     key : EventKeys, evidence : EventKeys \cup {None}]

(* The tables; the ledger's rows are constrained by Ledger below. *)
DbOK(d) ==
    /\ d = [job |-> d.job, facts |-> d.facts, conv |-> d.conv, history |-> d.history,
            evidence |-> d.evidence, ops |-> d.ops, conflicts |-> d.conflicts,
            receipts |-> d.receipts]
    /\ d.job \in [Jobs -> JobRows]
    /\ d.facts \in [Jobs -> [FactNames -> Seq(FactRows)]]
    /\ d.history \in [Jobs -> Seq(EventRows)]

-----------------------------------------------------------------------------
(* What a handler may do to the tables.                                    *)

Extends(s, t) == Len(s) <= Len(t) /\ \A i \in 1 .. Len(s) : t[i] = s[i]

(* The content M2 would be handed and its revision are left alone. *)
Same(d, e, j) ==
    /\ e.job[j].rev = d.job[j].rev /\ e.job[j].activity = d.job[j].activity
    /\ e.facts[j] = d.facts[j]

(* The revision advances by one and some content is new. *)
Advanced(d, e, j) ==
    /\ e.job[j].rev = d.job[j].rev + 1
    /\ \/ e.job[j].activity # d.job[j].activity
       \/ \E n \in FactNames : Len(e.facts[j][n]) = Len(d.facts[j][n]) + 1

(* Rows are only added, and a job's content changes with its revision. *)
Effect(d, e) ==
    /\ DbOK(e)
    /\ e.ops = d.ops /\ e.conflicts = d.conflicts
    /\ d.evidence \subseteq e.evidence
    /\ \A j \in Jobs :
          /\ d.job[j].exists => e.job[j].exists /\ (Same(d, e, j) \/ Advanced(d, e, j))
          /\ Extends(d.history[j], e.history[j])
          /\ \A n \in FactNames : Extends(d.facts[j][n], e.facts[j][n])

(* The rows of fact n of job j that e has and d has not. *)
NewRows(d, e, j, n) == Len(d.facts[j][n]) + 1 .. Len(e.facts[j][n])

(* A result answers for the rows its handler added. *)
Reports(d, e, op, res) ==
    /\ \A j \in Jobs, n \in FactNames : \A r \in NewRows(d, e, j, n) :
          e.facts[j][n][r].evidence # None =>
              /\ e.facts[j][n][r].evidence = Key(op) /\ res.job = j
              /\ res.outcome = "FOLLOW_UP_RECORDED"
              /\ <<n, r>> \in res.revisions /\ op.base[n] = r - 1
    /\ res.evidence # None =>
          /\ res.job \in Jobs
          /\ \E i \in FollowUpEvidence(e, res.job) : e.history[res.job][i].key = Key(op)
          /\ \A x \in res.revisions :
                /\ x[1] \in FactNames /\ x[2] \in 1 .. Len(e.facts[res.job][x[1]])
                /\ e.facts[res.job][x[1]][x[2]].evidence = Key(op)
          /\ res.outcome = "FACT_REVISION_CONFLICT" => res.revisions = {}

(* A request that is stored under a key. *)
Keyed(op) == OperationOK(op) /\ op.event # None

LEMMA KeyType ==
    ASSUME NEW op, Keyed(op)
    PROVE  Key(op) \in EventKeys /\ Key(op) # None
  BY NoneAssumption DEF Keyed, OperationOK, Key, EventKeys

(* Nothing happens to the tables. *)
LEMMA NoEffect ==
    ASSUME NEW d, DbOK(d)
    PROVE  Effect(d, d)
  <1>1. \A j \in Jobs : Len(d.history[j]) \in Nat /\ \A n \in FactNames : Len(d.facts[j][n]) \in Nat
    BY DEF DbOK
  <1> QED
    BY <1>1 DEF Effect, Same, Extends

(* A result without evidence and without new rows has nothing to answer for.*)
LEMMA NoReport ==
    ASSUME NEW d, DbOK(d), NEW e, e.facts = d.facts, NEW op, NEW res, res.evidence = None
    PROVE  Reports(d, e, op, res)
  <1>1. \A j \in Jobs, n \in FactNames : NewRows(d, e, j, n) = {}
    BY DEF DbOK, NewRows
  <1> QED
    BY <1>1 DEF Reports

-----------------------------------------------------------------------------
(* The statements of the repository.                                       *)

(* e is d with the next revision of every fact of a batch. *)
FactsOnly(d, e, j, batch, names, ev) ==
    /\ e.job = d.job /\ e.conv = d.conv /\ e.history = d.history
    /\ e.evidence = d.evidence /\ e.ops = d.ops /\ e.conflicts = d.conflicts
    /\ DbOK(e)
    /\ \A i \in Jobs \ {j} : e.facts[i] = d.facts[i]
    /\ \A n \in FactNames :
          e.facts[j][n] = IF n \in names
                          THEN Append(d.facts[j][n], [content |-> batch[n], evidence |-> ev])
                          ELSE d.facts[j][n]

(* _insert_fact *)
LEMMA FactsInserted ==
    ASSUME NEW d, DbOK(d), NEW j \in Jobs, NEW batch, NEW names \in SUBSET FactNames,
           \A n \in names : batch[n] \in FactInput,
           NEW ev \in EventKeys \cup {None}
    PROVE  FactsOnly(d, InsertFacts(d, j, batch, names, ev), j, batch, names, ev)
  <1> DEFINE row(n) == [content |-> batch[n], evidence |-> ev]
             fs == [ n \in FactNames |-> IF n \in names THEN Append(d.facts[j][n], row(n))
                                         ELSE d.facts[j][n] ]
             e == InsertFacts(d, j, batch, names, ev)
  <1>1. \A n \in names : row(n) \in FactRows
    BY DEF FactRows
  <1>2. d.facts[j] \in [FactNames -> Seq(FactRows)]
    BY DEF DbOK
  <1>3. fs \in [FactNames -> Seq(FactRows)]
    <2> HIDE DEF row
    <2> QED
      BY <1>1, <1>2
  <1>4. e = [d EXCEPT !.facts = [d.facts EXCEPT ![j] = fs]]
    BY DEF InsertFacts, DbOK
  <1> HIDE DEF fs
  <1>5. /\ e.job = d.job /\ e.conv = d.conv /\ e.history = d.history
        /\ e.evidence = d.evidence /\ e.ops = d.ops /\ e.conflicts = d.conflicts
        /\ e.facts = [d.facts EXCEPT ![j] = fs] /\ e.receipts = d.receipts
        /\ e = [job |-> e.job, facts |-> e.facts, conv |-> e.conv, history |-> e.history,
                evidence |-> e.evidence, ops |-> e.ops, conflicts |-> e.conflicts,
                receipts |-> e.receipts]
    BY <1>4 DEF DbOK
  <1> HIDE DEF e
  <1>6. e.facts \in [Jobs -> [FactNames -> Seq(FactRows)]]
    BY <1>3, <1>5 DEF DbOK
  <1>7. DbOK(e)
    BY <1>5, <1>6 DEF DbOK
  <1>8. e.facts[j] = fs /\ \A i \in Jobs \ {j} : e.facts[i] = d.facts[i]
    BY <1>5 DEF DbOK
  <1>9. \A n \in FactNames :
           e.facts[j][n] = IF n \in names THEN Append(d.facts[j][n], row(n)) ELSE d.facts[j][n]
    BY <1>8 DEF fs
  <1> QED
    BY <1>5, <1>7, <1>8, <1>9 DEF e, FactsOnly

(* e is d with another event of job j. *)
EventOnly(d, e, j, row) ==
    /\ e.job = d.job /\ e.conv = d.conv /\ e.facts = d.facts
    /\ e.evidence = d.evidence /\ e.ops = d.ops /\ e.conflicts = d.conflicts
    /\ DbOK(e)
    /\ \A i \in Jobs \ {j} : e.history[i] = d.history[i]
    /\ e.history[j] = Append(d.history[j], row)

(* _append_lifecycle_event *)
LEMMA EventAppended ==
    ASSUME NEW d, DbOK(d), NEW j \in Jobs,
           NEW type \in {"FOLLOW_UP_RECORDED", "JOB_WOKEN", "JOB_MARKED_DORMANT"},
           NEW op, Keyed(op), NEW ev \in EventKeys \cup {None}
    PROVE  EventOnly(d, AppendLifecycleEvent(d, j, type, op, ev), j,
                     [type |-> type, key |-> Key(op), evidence |-> ev])
  <1> DEFINE row == [type |-> type, key |-> Key(op), evidence |-> ev]
             h == Append(d.history[j], row)
             e == AppendLifecycleEvent(d, j, type, op, ev)
  <1>1. row \in EventRows
    BY KeyType DEF EventRows
  <1>2. h \in Seq(EventRows)
    <2> HIDE DEF row
    <2> QED
      BY <1>1 DEF DbOK
  <1>3. e = [d EXCEPT !.history = [d.history EXCEPT ![j] = h]]
    BY DEF AppendLifecycleEvent, DbOK
  <1> HIDE DEF h
  <1>4. /\ e.job = d.job /\ e.conv = d.conv /\ e.facts = d.facts
        /\ e.evidence = d.evidence /\ e.ops = d.ops /\ e.conflicts = d.conflicts
        /\ e.history = [d.history EXCEPT ![j] = h] /\ e.receipts = d.receipts
        /\ e = [job |-> e.job, facts |-> e.facts, conv |-> e.conv, history |-> e.history,
                evidence |-> e.evidence, ops |-> e.ops, conflicts |-> e.conflicts,
                receipts |-> e.receipts]
    BY <1>3 DEF DbOK
  <1> HIDE DEF e
  <1>5. e.history \in [Jobs -> Seq(EventRows)]
    BY <1>2, <1>4 DEF DbOK
  <1>6. DbOK(e)
    BY <1>4, <1>5 DEF DbOK
  <1>7. e.history[j] = h /\ \A i \in Jobs \ {j} : e.history[i] = d.history[i]
    BY <1>4 DEF DbOK
  <1> QED
    BY <1>4, <1>6, <1>7 DEF e, h, EventOnly

(* e is d with another row of job j. *)
RowOnly(d, e, j, row) ==
    /\ e.conv = d.conv /\ e.facts = d.facts /\ e.history = d.history
    /\ e.evidence = d.evidence /\ e.ops = d.ops /\ e.conflicts = d.conflicts
    /\ DbOK(e)
    /\ e.job[j] = row /\ \A i \in Jobs \ {j} : e.job[i] = d.job[i]

LEMMA RowReplaced ==
    ASSUME NEW d, DbOK(d), NEW j \in Jobs, NEW row \in JobRows
    PROVE  RowOnly(d, [d EXCEPT !.job[j] = row], j, row)
  <1> DEFINE e == [d EXCEPT !.job[j] = row]
  <1>1. e = [d EXCEPT !.job = [d.job EXCEPT ![j] = row]]
    BY DEF DbOK
  <1> HIDE DEF e
  <1>2. /\ e.job = [d.job EXCEPT ![j] = row] /\ e.conv = d.conv /\ e.facts = d.facts
        /\ e.evidence = d.evidence /\ e.ops = d.ops /\ e.conflicts = d.conflicts
        /\ e.history = d.history /\ e.receipts = d.receipts
        /\ e = [job |-> e.job, facts |-> e.facts, conv |-> e.conv, history |-> e.history,
                evidence |-> e.evidence, ops |-> e.ops, conflicts |-> e.conflicts,
                receipts |-> e.receipts]
    BY <1>1 DEF DbOK
  <1>3. /\ e.job \in [Jobs -> JobRows]
        /\ e.job[j] = row /\ \A i \in Jobs \ {j} : e.job[i] = d.job[i]
    BY <1>2 DEF DbOK
  <1>4. DbOK(e)
    BY <1>2, <1>3 DEF DbOK
  <1> QED
    BY <1>2, <1>3, <1>4 DEF e, RowOnly

(* _touch_job, _advance_source_revision and the update of the activity. *)
LEMMA RowUpdates ==
    ASSUME NEW d, DbOK(d), NEW j \in Jobs
    PROVE  /\ \A at \in Nat : RowOnly(d, TouchJob(d, j, at), j,
                [d.job[j] EXCEPT !.updated = IF at > d.job[j].updated THEN at ELSE d.job[j].updated])
           /\ RowOnly(d, AdvanceSourceRevision(d, j), j, [d.job[j] EXCEPT !.rev = d.job[j].rev + 1])
           /\ \A a \in {"ACTIVE", "DORMANT"} :
                RowOnly(d, [d EXCEPT !.job[j].activity = a], j, [d.job[j] EXCEPT !.activity = a])
           /\ \A at \in Nat :
                RowOnly(d, [d EXCEPT !.job[j].updated = at], j, [d.job[j] EXCEPT !.updated = at])
           /\ \A at \in Nat :
                RowOnly(d, InsertJob(d, j, at), j,
                        [exists |-> TRUE, activity |-> "ACTIVE", rev |-> 1, updated |-> at])
  <1> DEFINE old == d.job[j]
  <1>1. old \in JobRows
    BY DEF DbOK
  <1>2. ASSUME NEW at \in Nat
        PROVE  RowOnly(d, TouchJob(d, j, at), j, [old EXCEPT !.updated = IF at > old.updated THEN at ELSE old.updated])
    <2> DEFINE row == [old EXCEPT !.updated = IF at > old.updated THEN at ELSE old.updated]
    <2>1. row \in JobRows
      BY <1>1 DEF JobRows
    <2>2. TouchJob(d, j, at) = [d EXCEPT !.job[j] = row]
      BY DEF TouchJob, DbOK
    <2> QED
      BY <2>1, <2>2, RowReplaced
  <1>3. RowOnly(d, AdvanceSourceRevision(d, j), j, [old EXCEPT !.rev = old.rev + 1])
    <2>1. [old EXCEPT !.rev = old.rev + 1] \in JobRows
      BY <1>1 DEF JobRows
    <2>2. AdvanceSourceRevision(d, j) = [d EXCEPT !.job[j] = [old EXCEPT !.rev = old.rev + 1]]
      BY DEF AdvanceSourceRevision, DbOK
    <2> QED
      BY <2>1, <2>2, RowReplaced
  <1>4. ASSUME NEW a \in {"ACTIVE", "DORMANT"}
        PROVE  RowOnly(d, [d EXCEPT !.job[j].activity = a], j, [old EXCEPT !.activity = a])
    <2>1. [old EXCEPT !.activity = a] \in JobRows
      BY <1>1 DEF JobRows
    <2>2. [d EXCEPT !.job[j].activity = a] = [d EXCEPT !.job[j] = [old EXCEPT !.activity = a]]
      BY DEF DbOK
    <2> QED
      BY <2>1, <2>2, RowReplaced
  <1>5. ASSUME NEW at \in Nat
        PROVE  RowOnly(d, [d EXCEPT !.job[j].updated = at], j, [old EXCEPT !.updated = at])
    <2>1. [old EXCEPT !.updated = at] \in JobRows
      BY <1>1 DEF JobRows
    <2>2. [d EXCEPT !.job[j].updated = at] = [d EXCEPT !.job[j] = [old EXCEPT !.updated = at]]
      BY DEF DbOK
    <2> QED
      BY <2>1, <2>2, RowReplaced
  <1>6. ASSUME NEW at \in Nat
        PROVE  RowOnly(d, InsertJob(d, j, at), j,
                       [exists |-> TRUE, activity |-> "ACTIVE", rev |-> 1, updated |-> at])
    <2>1. [exists |-> TRUE, activity |-> "ACTIVE", rev |-> 1, updated |-> at] \in JobRows
      BY DEF JobRows
    <2> QED
      BY <2>1, RowReplaced DEF InsertJob
  <1> QED
    BY <1>2, <1>3, <1>4, <1>5, <1>6

-----------------------------------------------------------------------------
(* The handlers of _apply_first_seen.                                      *)

Answers(d, op, a) == Effect(d, a.db) /\ Reports(d, a.db, op, a.result)

(* A handler that refuses. *)
LEMMA Refused ==
    ASSUME NEW d, DbOK(d), NEW op, NEW res, res.evidence = None
    PROVE  Answers(d, op, Done(d, res))
  BY NoEffect, NoReport DEF Answers, Done

(* Facts are appended: every sequence is extended by at most one row. *)
LEMMA RowsExtended ==
    ASSUME NEW S, NEW s \in Seq(S), NEW x \in S
    PROVE  /\ Extends(s, Append(s, x)) /\ Extends(s, s)
           /\ Len(Append(s, x)) = Len(s) + 1 /\ Append(s, x)[Len(s) + 1] = x
           /\ Len(s) \in Nat
  BY DEF Extends

(* The rows that e has and d has not name no follow-up. *)
Unattributed(d, e) ==
    \A j \in Jobs, n \in FactNames : \A r \in NewRows(d, e, j, n) :
        e.facts[j][n][r].evidence = None

(* f is i with facts that no follow-up told. *)
LEMMA FactsUnattributed ==
    ASSUME NEW d, DbOK(d), NEW i, NEW f, NEW j \in Jobs, NEW batch, NEW names \in SUBSET FactNames,
           \A n \in names : batch[n] \in FactInput,
           i.facts = d.facts, FactsOnly(i, f, j, batch, names, None)
    PROVE  /\ Unattributed(d, f)
           /\ \A h \in Jobs, n \in FactNames : Extends(d.facts[h][n], f.facts[h][n])
           /\ \A n \in names : Len(f.facts[j][n]) = Len(d.facts[j][n]) + 1
  <1>1. ASSUME NEW h \in Jobs, NEW n \in FactNames
        PROVE  /\ Extends(d.facts[h][n], f.facts[h][n])
               /\ \A r \in NewRows(d, f, h, n) : f.facts[h][n][r].evidence = None
               /\ h = j /\ n \in names => Len(f.facts[h][n]) = Len(d.facts[h][n]) + 1
    <2>1. d.facts[h][n] \in Seq(FactRows)
      BY DEF DbOK
    <2>2. CASE h = j /\ n \in names
      <3> DEFINE row == [content |-> batch[n], evidence |-> None]
      <3>1. row \in FactRows /\ row.evidence = None
        BY <2>2 DEF FactRows
      <3>2. f.facts[h][n] = Append(d.facts[h][n], row)
        BY <2>2 DEF FactsOnly
      <3> HIDE DEF row
      <3> QED
        BY <2>1, <3>1, <3>2, RowsExtended DEF NewRows
    <2>3. CASE ~ (h = j /\ n \in names)
      <3>1. f.facts[h][n] = d.facts[h][n]
        BY <2>3 DEF FactsOnly
      <3>2. Len(d.facts[h][n]) \in Nat
        BY <2>1
      <3> QED
        BY <2>3, <3>1, <3>2 DEF NewRows, Extends
    <2> QED
      BY <2>2, <2>3
  <1> QED
    BY <1>1 DEF Unattributed

(* A job that was not there, with its first facts. *)
LEMMA JobInserted ==
    ASSUME NEW d, DbOK(d), NEW j \in Jobs, ~ Exists(d, j), NEW facts, NEW at \in Nat,
           DOMAIN facts \subseteq FactNames, \A n \in DOMAIN facts : facts[n] \in FactInput
    PROVE  /\ Effect(d, InsertFacts(InsertJob(d, j, at), j, facts, DOMAIN facts, None))
           /\ Unattributed(d, InsertFacts(InsertJob(d, j, at), j, facts, DOMAIN facts, None))
  <1> DEFINE i == InsertJob(d, j, at)
             f == InsertFacts(i, j, facts, DOMAIN facts, None)
  <1>1. RowOnly(d, i, j, [exists |-> TRUE, activity |-> "ACTIVE", rev |-> 1, updated |-> at])
    BY RowUpdates
  <1> HIDE DEF i
  <1>2. FactsOnly(i, f, j, facts, DOMAIN facts, None)
    BY <1>1, FactsInserted DEF RowOnly
  <1> HIDE DEF f
  <1>3. /\ Unattributed(d, f)
        /\ \A h \in Jobs, n \in FactNames : Extends(d.facts[h][n], f.facts[h][n])
    <2>1. i.facts = d.facts
      BY <1>1 DEF RowOnly
    <2> QED
      BY <1>2, <2>1, FactsUnattributed
  <1>4. \A h \in Jobs : Extends(d.history[h], f.history[h])
    <2>1. \A h \in Jobs : Len(d.history[h]) \in Nat
      BY DEF DbOK
    <2> QED
      BY <1>1, <1>2, <2>1 DEF RowOnly, FactsOnly, Extends
  <1>5. \A h \in Jobs : d.job[h].exists => f.job[h].exists /\ Same(d, f, h)
    <2>1. \A h \in Jobs : d.job[h].exists => h # j
      BY DEF Exists
    <2> QED
      BY <1>1, <1>2, <2>1 DEF RowOnly, FactsOnly, Same
  <1>6. Effect(d, f)
    BY <1>1, <1>2, <1>3, <1>4, <1>5 DEF Effect, RowOnly, FactsOnly
  <1> QED
    BY <1>3, <1>6 DEF f, i

(* _create_job_operation *)
LEMMA CreateOK ==
    ASSUME NEW d, DbOK(d), NEW op, Keyed(op), NEW at \in Nat, op.kind = "CREATE_JOB"
    PROVE  Answers(d, op, CreateJobOperation(d, op, at))
  <1> DEFINE j == op.job
             f == InsertFacts(InsertJob(d, j, at), j, op.facts, DOMAIN op.facts, None)
             e == IF op.conv = None THEN f ELSE InsertAssociation(f, op, j)
             a == CreateJobOperation(d, op, at)
  <1>1. /\ j \in Jobs /\ DOMAIN op.facts \subseteq FactNames
        /\ \A n \in DOMAIN op.facts : op.facts[n] \in FactInput
    BY NoneAssumption DEF Keyed, OperationOK
  <1>2. CASE Exists(d, j)
    <2> DEFINE res == [Result(op, at, "JOB_ID_CONFLICT") EXCEPT !.job = op.job]
    <2>1. a = Done(d, res)
      BY <1>2 DEF CreateJobOperation
    <2>2. res.evidence = None
      BY DEF Result
    <2> HIDE DEF res, a
    <2>3. Answers(d, op, a)
      BY <2>1, <2>2, Refused
    <2> QED
      BY <2>3 DEF a
  <1>3. CASE ~ Exists(d, j)
    <2>1. a.db = e /\ a.result.evidence = None
      BY <1>3 DEF CreateJobOperation, Done, Result
    <2>2. Effect(d, f) /\ Unattributed(d, f)
      BY <1>1, <1>3, JobInserted
    <2> HIDE DEF f, a
    <2>3. /\ e.job = f.job /\ e.facts = f.facts /\ e.history = f.history
          /\ e.evidence = f.evidence /\ e.ops = f.ops /\ e.conflicts = f.conflicts /\ DbOK(e)
      BY <2>2 DEF InsertAssociation, DbOK, Effect
    <2> HIDE DEF e
    <2>4. Effect(d, e)
      BY <2>2, <2>3 DEF Effect, Same, Advanced
    <2>5. Reports(d, e, op, a.result)
      BY <2>1, <2>2, <2>3 DEF Reports, Unattributed, NewRows
    <2>6. Answers(d, op, a)
      BY <2>1, <2>4, <2>5 DEF Answers
    <2> QED
      BY <2>6 DEF a
  <1> QED
    BY <1>2, <1>3

WithActivity(d, j, a, at, type, op, ev) ==
    AppendLifecycleEvent(
        TouchJob(AdvanceSourceRevision([d EXCEPT !.job[j].activity = a], j), j, at),
        j, type, op, ev)

(* A change of activity is a new content under the next revision. *)
LEMMA ActivityChanged ==
    ASSUME NEW d, DbOK(d), NEW j \in Jobs, NEW a \in {"ACTIVE", "DORMANT"}, a # d.job[j].activity,
           NEW at \in Nat, NEW op, Keyed(op), NEW type \in {"JOB_WOKEN", "JOB_MARKED_DORMANT"},
           NEW ev \in EventKeys \cup {None}
    PROVE  /\ Effect(d, WithActivity(d, j, a, at, type, op, ev))
           /\ WithActivity(d, j, a, at, type, op, ev).facts = d.facts
  <1> DEFINE x == [d EXCEPT !.job[j].activity = a]
             y == AdvanceSourceRevision(x, j)
             z == TouchJob(y, j, at)
             row == [type |-> type, key |-> Key(op), evidence |-> ev]
             e == WithActivity(d, j, a, at, type, op, ev)
  <1>1. e = AppendLifecycleEvent(z, j, type, op, ev)
    BY DEF WithActivity
  <1> HIDE DEF e
  <1>2. RowOnly(d, x, j, [d.job[j] EXCEPT !.activity = a])
    BY RowUpdates
  <1> HIDE DEF x
  <1>3. RowOnly(x, y, j, [x.job[j] EXCEPT !.rev = x.job[j].rev + 1])
    <2>1. DbOK(x)
      BY <1>2 DEF RowOnly
    <2> QED
      BY <2>1, RowUpdates
  <1> HIDE DEF y
  <1>4. RowOnly(y, z, j, [y.job[j] EXCEPT !.updated = IF at > y.job[j].updated THEN at ELSE y.job[j].updated])
    <2>1. DbOK(y)
      BY <1>3 DEF RowOnly
    <2> QED
      BY <2>1, RowUpdates
  <1> HIDE DEF z
  <1>5. EventOnly(z, e, j, row) /\ row \in EventRows
    <2>1. DbOK(z) /\ type \in {"FOLLOW_UP_RECORDED", "JOB_WOKEN", "JOB_MARKED_DORMANT"}
      BY <1>4 DEF RowOnly
    <2>2. row \in EventRows
      BY KeyType DEF EventRows
    <2> QED
      BY <1>1, <2>1, <2>2, EventAppended
  <1> HIDE DEF row
  <1>6. d.job[j] \in JobRows
    BY DEF DbOK
  <1>7. /\ e.job[j].exists = d.job[j].exists /\ e.job[j].activity = a
        /\ e.job[j].rev = d.job[j].rev + 1
    <2>1. x.job[j] \in JobRows /\ y.job[j] \in JobRows
      BY <1>2, <1>3 DEF RowOnly, DbOK
    <2>2. /\ x.job[j].exists = d.job[j].exists /\ x.job[j].activity = a
          /\ x.job[j].rev = d.job[j].rev
      BY <1>2, <1>6 DEF RowOnly, JobRows
    <2>3. /\ y.job[j].exists = x.job[j].exists /\ y.job[j].activity = x.job[j].activity
          /\ y.job[j].rev = x.job[j].rev + 1
      BY <1>3, <2>1 DEF RowOnly, JobRows
    <2>4. /\ z.job[j].exists = y.job[j].exists /\ z.job[j].activity = y.job[j].activity
          /\ z.job[j].rev = y.job[j].rev
      BY <1>4, <2>1 DEF RowOnly, JobRows
    <2> QED
      BY <1>5, <2>2, <2>3, <2>4 DEF EventOnly
  <1>8. /\ e.facts = d.facts /\ e.evidence = d.evidence /\ e.ops = d.ops
        /\ e.conflicts = d.conflicts /\ DbOK(e)
        /\ \A i \in Jobs \ {j} : e.job[i] = d.job[i] /\ e.history[i] = d.history[i]
        /\ e.history[j] = Append(d.history[j], row)
    BY <1>2, <1>3, <1>4, <1>5 DEF RowOnly, EventOnly
  <1>9. \A i \in Jobs : Extends(d.history[i], e.history[i])
    <2>1. \A i \in Jobs : d.history[i] \in Seq(EventRows)
      BY DEF DbOK
    <2>2. Extends(d.history[j], e.history[j])
      BY <1>5, <1>8, <2>1, RowsExtended
    <2>3. \A i \in Jobs \ {j} : Extends(d.history[i], e.history[i])
      BY <1>8, <2>1 DEF Extends
    <2> QED
      BY <2>2, <2>3
  <1>10. \A i \in Jobs, n \in FactNames : Extends(d.facts[i][n], e.facts[i][n])
    BY <1>8 DEF DbOK, Extends
  <1>11. \A i \in Jobs : d.job[i].exists => e.job[i].exists /\ (Same(d, e, i) \/ Advanced(d, e, i))
    BY <1>7, <1>8 DEF Same, Advanced
  <1>12. Effect(d, e)
    BY <1>8, <1>9, <1>10, <1>11 DEF Effect
  <1> QED
    BY <1>8, <1>12 DEF e

(* _mark_dormant *)
LEMMA DormantOK ==
    ASSUME NEW d, DbOK(d), NEW op, Keyed(op), NEW at \in Nat, op.kind = "MARK_DORMANT"
    PROVE  Answers(d, op, MarkDormant(d, op, at))
  <1> DEFINE a == MarkDormant(d, op, at)
             e == WithActivity(d, op.job, "DORMANT", at, "JOB_MARKED_DORMANT", op, op.evidence)
  <1>1. op.job \in Jobs /\ op.evidence \in EventKeys \cup {None} /\ d.job[op.job] \in JobRows
    BY NoneAssumption DEF Keyed, OperationOK, EventKeys, DbOK
  <1>2. a.result.evidence = None
    BY DEF MarkDormant, Done, Result
  <1>3. a.db = d \/ (d.job[op.job].activity # "DORMANT" /\ a.db = e)
    BY DEF MarkDormant, Done, WithActivity
  <1> HIDE DEF a
  <1>4. CASE a.db = d
    BY <1>2, <1>4, NoEffect, NoReport DEF Answers, a
  <1>5. CASE d.job[op.job].activity # "DORMANT" /\ a.db = e
    <2>1. Effect(d, e) /\ e.facts = d.facts
      BY <1>1, <1>5, ActivityChanged
    <2> HIDE DEF e
    <2> QED
      BY <1>2, <1>5, <2>1, NoReport DEF Answers, a
  <1> QED
    BY <1>3, <1>4, <1>5

(* _wake_job *)
LEMMA WakeOK ==
    ASSUME NEW d, DbOK(d), NEW op, Keyed(op), NEW at \in Nat, op.kind = "WAKE_JOB"
    PROVE  Answers(d, op, WakeJob(d, op, at))
  <1> DEFINE a == WakeJob(d, op, at)
             e == WithActivity(d, op.job, "ACTIVE", at, "JOB_WOKEN", op, None)
  <1>1. op.job \in Jobs /\ d.job[op.job] \in JobRows
    BY NoneAssumption DEF Keyed, OperationOK, DbOK
  <1>2. a.result.evidence = None
    BY DEF WakeJob, Done, Result
  <1>3. a.db = d \/ (d.job[op.job].activity # "ACTIVE" /\ a.db = e)
    BY DEF WakeJob, Done, WithActivity
  <1> HIDE DEF a
  <1>4. CASE a.db = d
    BY <1>2, <1>4, NoEffect, NoReport DEF Answers, a
  <1>5. CASE d.job[op.job].activity # "ACTIVE" /\ a.db = e
    <2>1. Effect(d, e) /\ e.facts = d.facts
      BY <1>1, <1>5, ActivityChanged
    <2> HIDE DEF e
    <2> QED
      BY <1>2, <1>5, <2>1, NoReport DEF Answers, a
  <1> QED
    BY <1>3, <1>4, <1>5

(* _bind_conversation *)
LEMMA BindOK ==
    ASSUME NEW d, DbOK(d), NEW op, Keyed(op), NEW at \in Nat, op.kind = "BIND_CONVERSATION"
    PROVE  Answers(d, op, BindConversation(d, op, at))
  <1> DEFINE a == BindConversation(d, op, at)
             e == InsertAssociation(d, op, op.job)
  <1>1. a.result.evidence = None /\ (a.db = d \/ a.db = e)
    BY DEF BindConversation, Done, Result
  <1>2. /\ e.job = d.job /\ e.facts = d.facts /\ e.history = d.history
        /\ e.evidence = d.evidence /\ e.ops = d.ops /\ e.conflicts = d.conflicts /\ DbOK(e)
    <2>1. e = [d EXCEPT !.conv = d.conv \cup {<<op.ns, op.conv, op.job>>}]
      BY DEF InsertAssociation, DbOK
    <2> HIDE DEF e
    <2> QED
      BY <2>1 DEF DbOK
  <1> HIDE DEF a, e
  <1>3. Effect(d, d)
    BY NoEffect
  <1>4. Effect(d, e)
    BY <1>2, <1>3 DEF Effect, Same, Advanced
  <1> QED
    BY <1>1, <1>2, <1>3, <1>4, NoReport DEF Answers, a

(* The job a follow-up is correlated with is a job. *)
LEMMA Correlated ==
    ASSUME NEW d, NEW op, Keyed(op), CorrelationRejected(d, op) = None
    PROVE  CorrelatedJob(d, op) \in Jobs
  <1>1. op.job \in Jobs \cup {None}
    BY DEF Keyed, OperationOK
  <1>2. CASE op.job # None
    BY <1>1, <1>2 DEF CorrelatedJob
  <1>3. CASE op.job = None
    <2>1. Associated(d, op) # {}
      BY <1>3, NoneAssumption DEF CorrelationRejected
    <2>2. \E j \in Jobs : j \in Associated(d, op)
      BY <2>1 DEF Associated
    <2>3. CorrelatedJob(d, op) = CHOOSE j \in Jobs : j \in Associated(d, op)
      BY <1>3 DEF CorrelatedJob
    <2> QED
      BY <2>2, <2>3
  <1> QED
    BY <1>2, <1>3

(* The evidence of a follow-up and the events it writes, waking included. *)
LEMMA EvidenceStored ==
    ASSUME NEW d, DbOK(d), NEW op, Keyed(op), NEW j \in Jobs, NEW e,
           e = FollowUpEvidenceStored(d, op, j)
    PROVE  /\ DbOK(e) /\ e.facts = d.facts /\ e.ops = d.ops /\ e.conflicts = d.conflicts
           /\ e.evidence = d.evidence \cup {[id |-> Key(op), job |-> j]}
           /\ \A i \in Jobs \ {j} : e.job[i] = d.job[i] /\ e.history[i] = d.history[i]
           /\ e.job[j].exists = d.job[j].exists /\ e.job[j].rev = d.job[j].rev
           /\ e.job[j].activity = "ACTIVE"
           /\ Extends(d.history[j], e.history[j])
           /\ Len(d.history[j]) + 1 \in DOMAIN e.history[j]
           /\ e.history[j][Len(d.history[j]) + 1]
                = [type |-> "FOLLOW_UP_RECORDED", key |-> Key(op), evidence |-> Key(op)]
  <1> DEFINE x == [d EXCEPT !.evidence = @ \cup {[id |-> Key(op), job |-> j]}]
             row(t) == [type |-> t, key |-> Key(op), evidence |-> Key(op)]
             y == AppendLifecycleEvent(x, j, "FOLLOW_UP_RECORDED", op, Key(op))
             w == [y EXCEPT !.job[j].activity = "ACTIVE"]
             z == AppendLifecycleEvent(w, j, "JOB_WOKEN", op, Key(op))
             N == Len(d.history[j])
  <1>1. Key(op) \in EventKeys
    BY KeyType
  <1>2. x = [d EXCEPT !.evidence = d.evidence \cup {[id |-> Key(op), job |-> j]}]
    BY DEF DbOK
  <1>3. e = IF d.job[j].activity = "DORMANT" THEN z ELSE y
    BY DEF FollowUpEvidenceStored
  <1> HIDE DEF x
  <1>4. /\ x.job = d.job /\ x.facts = d.facts /\ x.history = d.history /\ x.ops = d.ops
        /\ x.conflicts = d.conflicts /\ DbOK(x)
        /\ x.evidence = d.evidence \cup {[id |-> Key(op), job |-> j]}
    BY <1>2 DEF DbOK
  <1>5. EventOnly(x, y, j, row("FOLLOW_UP_RECORDED"))
    BY <1>1, <1>4, EventAppended
  <1> HIDE DEF y
  <1>6. RowOnly(y, w, j, [y.job[j] EXCEPT !.activity = "ACTIVE"])
    <2>1. DbOK(y)
      BY <1>5 DEF EventOnly
    <2> QED
      BY <2>1, RowUpdates
  <1> HIDE DEF w
  <1>7. EventOnly(w, z, j, row("JOB_WOKEN"))
    <2>1. DbOK(w)
      BY <1>6 DEF RowOnly
    <2> QED
      BY <1>1, <2>1, EventAppended
  <1> HIDE DEF z
  <1>8. \A t \in {"FOLLOW_UP_RECORDED", "JOB_WOKEN"} : row(t) \in EventRows
    BY <1>1 DEF EventRows
  <1> HIDE DEF row
  <1>9. d.history[j] \in Seq(EventRows) /\ d.job[j] \in JobRows
    BY DEF DbOK
  <1>10. y.history[j] = Append(d.history[j], row("FOLLOW_UP_RECORDED"))
    BY <1>4, <1>5 DEF EventOnly
  <1>11. y.history[j] \in Seq(EventRows)
    BY <1>8, <1>9, <1>10
  <1>12. CASE d.job[j].activity = "DORMANT"
    <2>1. e = z
      BY <1>3, <1>12
    <2>2. z.history[j] = Append(y.history[j], row("JOB_WOKEN"))
      BY <1>6, <1>7 DEF EventOnly, RowOnly
    <2>3. /\ Extends(d.history[j], z.history[j]) /\ N + 1 \in DOMAIN z.history[j]
          /\ z.history[j][N + 1] = row("FOLLOW_UP_RECORDED")
      BY <1>8, <1>9, <1>10, <1>11, <2>2 DEF Extends
    <2>4. z.job[j] = [d.job[j] EXCEPT !.activity = "ACTIVE"]
      BY <1>4, <1>5, <1>6, <1>7 DEF EventOnly, RowOnly
    <2>5. /\ z.job[j].exists = d.job[j].exists /\ z.job[j].rev = d.job[j].rev
          /\ z.job[j].activity = "ACTIVE"
      BY <1>9, <2>4 DEF JobRows
    <2>6. /\ DbOK(z) /\ z.facts = d.facts /\ z.ops = d.ops /\ z.conflicts = d.conflicts
          /\ z.evidence = x.evidence
          /\ \A i \in Jobs \ {j} : z.job[i] = d.job[i] /\ z.history[i] = d.history[i]
      BY <1>4, <1>5, <1>6, <1>7 DEF EventOnly, RowOnly
    <2> QED
      BY <1>4, <2>1, <2>3, <2>5, <2>6 DEF row
  <1>13. CASE d.job[j].activity # "DORMANT"
    <2>1. e = y /\ d.job[j].activity = "ACTIVE"
      BY <1>3, <1>9, <1>13 DEF JobRows
    <2>2. /\ Extends(d.history[j], y.history[j]) /\ N + 1 \in DOMAIN y.history[j]
          /\ y.history[j][N + 1] = row("FOLLOW_UP_RECORDED")
      BY <1>8, <1>9, <1>10, <1>11 DEF Extends
    <2>3. /\ DbOK(y) /\ y.facts = d.facts /\ y.ops = d.ops /\ y.conflicts = d.conflicts
          /\ y.evidence = x.evidence /\ y.job = d.job
          /\ \A i \in Jobs \ {j} : y.history[i] = d.history[i]
      BY <1>4, <1>5 DEF EventOnly
    <2> QED
      BY <1>4, <2>1, <2>2, <2>3 DEF row
  <1> QED
    BY <1>12, <1>13

(* _record_follow_up, once its job is known: the whole transaction. *)
LEMMA FollowUpEffect ==
    ASSUME NEW d, DbOK(d), NEW op, Keyed(op), op.kind = "RECORD_FOLLOW_UP", NEW at \in Nat,
           NEW j \in Jobs, NEW h, h = FollowUpApplied(d, op, j, at)
    PROVE  /\ Effect(d, h)
           /\ \A i \in Jobs \ {j} : h.facts[i] = d.facts[i]
           /\ \A n \in FactNames :
                 IF n \in ChangedNames(d, op, j)
                 THEN /\ Len(h.facts[j][n]) = Len(d.facts[j][n]) + 1
                      /\ h.facts[j][n][Len(d.facts[j][n]) + 1].evidence = Key(op)
                 ELSE h.facts[j][n] = d.facts[j][n]
           /\ Len(d.history[j]) + 1 \in FollowUpEvidence(h, j)
           /\ h.history[j][Len(d.history[j]) + 1].key = Key(op)
  <1> DEFINE names == ChangedNames(d, op, j)
             e == FollowUpEvidenceStored(d, op, j)
             f == InsertFacts(e, j, op.facts, names, Key(op))
             asleep == d.job[j].activity = "DORMANT"
             g == IF asleep \/ names # {} THEN AdvanceSourceRevision(f, j) ELSE f
             N == Len(d.history[j])
             row(n) == [content |-> op.facts[n], evidence |-> Key(op)]
  <1>1. h = TouchJob(g, j, at)
    BY DEF FollowUpApplied
  <1>2. /\ DOMAIN op.facts \subseteq FactNames /\ names \subseteq DOMAIN op.facts
        /\ \A n \in DOMAIN op.facts : op.facts[n] \in FactInput
        /\ Key(op) \in EventKeys
    BY KeyType DEF Keyed, OperationOK, ChangedNames
  <1>3. /\ DbOK(e) /\ e.facts = d.facts /\ e.ops = d.ops /\ e.conflicts = d.conflicts
        /\ e.evidence = d.evidence \cup {[id |-> Key(op), job |-> j]}
        /\ \A i \in Jobs \ {j} : e.job[i] = d.job[i] /\ e.history[i] = d.history[i]
        /\ e.job[j].exists = d.job[j].exists /\ e.job[j].rev = d.job[j].rev
        /\ e.job[j].activity = "ACTIVE"
        /\ Extends(d.history[j], e.history[j])
        /\ N + 1 \in DOMAIN e.history[j]
        /\ e.history[j][N + 1]
             = [type |-> "FOLLOW_UP_RECORDED", key |-> Key(op), evidence |-> Key(op)]
    BY EvidenceStored
  <1> HIDE DEF e, names
  <1>4. FactsOnly(e, f, j, op.facts, names, Key(op))
    BY <1>2, <1>3, FactsInserted
  <1> HIDE DEF f
  <1>5. /\ f.job = e.job /\ f.history = e.history /\ f.evidence = e.evidence
        /\ f.ops = e.ops /\ f.conflicts = e.conflicts /\ DbOK(f)
        /\ \A i \in Jobs \ {j} : f.facts[i] = d.facts[i]
        /\ \A n \in FactNames : f.facts[j][n] = IF n \in names THEN Append(d.facts[j][n], row(n))
                                                ELSE d.facts[j][n]
    BY <1>3, <1>4 DEF FactsOnly
  <1>6. /\ asleep \/ names # {} => RowOnly(f, g, j, [f.job[j] EXCEPT !.rev = f.job[j].rev + 1])
        /\ ~ (asleep \/ names # {}) => g = f
    <2> DEFINE k == AdvanceSourceRevision(f, j)
    <2>1. RowOnly(f, k, j, [f.job[j] EXCEPT !.rev = f.job[j].rev + 1])
      BY <1>5, RowUpdates
    <2>2. g = IF asleep \/ names # {} THEN k ELSE f
      OBVIOUS
    <2> HIDE DEF k, g
    <2>3. CASE asleep \/ names # {}
      <3>1. g = k
        BY <2>2, <2>3
      <3> QED
        BY <2>1, <2>3, <3>1
    <2>4. CASE ~ (asleep \/ names # {})
      BY <2>2, <2>4
    <2> QED
      BY <2>3, <2>4
  <1> HIDE DEF g
  <1>7. DbOK(g)
    <2>1. CASE asleep \/ names # {}
      <3>1. RowOnly(f, g, j, [f.job[j] EXCEPT !.rev = f.job[j].rev + 1])
        BY <1>6, <2>1
      <3> QED
        BY <3>1 DEF RowOnly
    <2>2. CASE ~ (asleep \/ names # {})
      BY <1>5, <1>6, <2>2
    <2> QED
      BY <2>1, <2>2
  <1>8. RowOnly(g, h, j, [g.job[j] EXCEPT !.updated = IF at > g.job[j].updated THEN at ELSE g.job[j].updated])
    <2>1. RowOnly(g, TouchJob(g, j, at), j,
              [g.job[j] EXCEPT !.updated = IF at > g.job[j].updated THEN at ELSE g.job[j].updated])
      BY <1>7, RowUpdates
    <2> QED
      BY <1>1, <2>1
  <1>9. /\ DbOK(h) /\ h.facts = f.facts /\ h.history = e.history /\ h.evidence = e.evidence
        /\ h.ops = d.ops /\ h.conflicts = d.conflicts
        /\ \A i \in Jobs \ {j} : h.job[i] = d.job[i]
    BY <1>3, <1>5, <1>6, <1>8 DEF RowOnly
  <1>10. /\ h.job[j].exists = d.job[j].exists /\ h.job[j].activity = "ACTIVE"
         /\ h.job[j].rev = IF asleep \/ names # {} THEN d.job[j].rev + 1 ELSE d.job[j].rev
    <2>1. f.job[j] \in JobRows /\ g.job[j] \in JobRows
      BY <1>5, <1>7 DEF DbOK
    <2>2. /\ h.job[j].exists = g.job[j].exists /\ h.job[j].activity = g.job[j].activity
          /\ h.job[j].rev = g.job[j].rev
      BY <1>8, <2>1 DEF RowOnly, JobRows
    <2>3. /\ g.job[j].exists = f.job[j].exists /\ g.job[j].activity = f.job[j].activity
          /\ g.job[j].rev = IF asleep \/ names # {} THEN f.job[j].rev + 1 ELSE f.job[j].rev
      BY <1>6, <2>1 DEF RowOnly, JobRows
    <2> QED
      BY <1>3, <1>5, <2>2, <2>3
  <1>11. \A n \in names : row(n) \in FactRows /\ row(n).evidence = Key(op)
    BY <1>2 DEF FactRows
  <1>12. \A i \in Jobs, n \in FactNames : d.facts[i][n] \in Seq(FactRows)
    BY DEF DbOK
  <1> HIDE DEF row
  <1>13. ASSUME NEW n \in FactNames
         PROVE  IF n \in names
                THEN /\ Len(h.facts[j][n]) = Len(d.facts[j][n]) + 1
                     /\ h.facts[j][n][Len(d.facts[j][n]) + 1].evidence = Key(op)
                     /\ Extends(d.facts[j][n], h.facts[j][n])
                ELSE h.facts[j][n] = d.facts[j][n]
    <2>1. CASE n \in names
      <3>1. h.facts[j][n] = Append(d.facts[j][n], row(n))
        BY <1>5, <1>9, <2>1
      <3>2. row(n) \in FactRows /\ d.facts[j][n] \in Seq(FactRows)
        BY <1>11, <1>12, <2>1
      <3>3. /\ Extends(d.facts[j][n], Append(d.facts[j][n], row(n)))
            /\ Len(Append(d.facts[j][n], row(n))) = Len(d.facts[j][n]) + 1
            /\ Append(d.facts[j][n], row(n))[Len(d.facts[j][n]) + 1] = row(n)
        BY <3>2, RowsExtended
      <3> QED
        BY <1>11, <2>1, <3>1, <3>3
    <2>2. CASE n \notin names
      BY <1>5, <1>9, <2>2
    <2> QED
      BY <2>1, <2>2
  <1>14. \A i \in Jobs, n \in FactNames : Extends(d.facts[i][n], h.facts[i][n])
    <2>1. \A i \in Jobs, n \in FactNames : Extends(d.facts[i][n], d.facts[i][n])
      BY <1>12 DEF Extends
    <2> QED
      BY <1>5, <1>9, <1>13, <2>1
  <1>15. \A i \in Jobs : Extends(d.history[i], h.history[i])
    <2>1. \A i \in Jobs : Extends(d.history[i], d.history[i])
      BY DEF DbOK, Extends
    <2> QED
      BY <1>3, <1>9, <2>1
  <1>16. \A i \in Jobs \ {j} : Same(d, h, i)
    BY <1>5, <1>9 DEF Same
  <1>17. Same(d, h, j) \/ Advanced(d, h, j)
    <2>1. CASE asleep
      BY <1>10, <2>1 DEF Advanced
    <2>2. CASE names # {}
      <3>1. PICK n \in names : n \in FactNames
        BY <1>2, <2>2
      <3> QED
        BY <1>10, <1>13, <2>2, <3>1 DEF Advanced
    <2>3. CASE ~ asleep /\ names = {}
      <3>1. h.facts[j] = d.facts[j]
        <4>1. /\ h.facts[j] \in [FactNames -> Seq(FactRows)]
              /\ d.facts[j] \in [FactNames -> Seq(FactRows)]
          BY <1>9 DEF DbOK
        <4> QED
          BY <1>13, <2>3, <4>1
      <3>2. d.job[j].activity = "ACTIVE"
        BY <2>3 DEF DbOK, JobRows
      <3> QED
        BY <1>10, <2>3, <3>1, <3>2 DEF Same
    <2> QED
      BY <2>1, <2>2, <2>3
  <1>18. Effect(d, h)
    BY <1>3, <1>9, <1>10, <1>14, <1>15, <1>16, <1>17 DEF Effect
  <1>19. N + 1 \in FollowUpEvidence(h, j) /\ h.history[j][N + 1].key = Key(op)
    BY <1>3, <1>9 DEF FollowUpEvidence
  <1> QED
    BY <1>5, <1>9, <1>13, <1>18, <1>19 DEF names

(* _record_follow_up *)
LEMMA FollowUpOK ==
    ASSUME NEW d, DbOK(d), NEW op, Keyed(op), NEW at \in Nat, op.kind = "RECORD_FOLLOW_UP"
    PROVE  Answers(d, op, RecordFollowUp(d, op, at))
  <1> DEFINE a == RecordFollowUp(d, op, at)
             j == CorrelatedJob(d, op)
             h == FollowUpApplied(d, op, j, at)
             names == ChangedNames(d, op, j)
             new == {<<n, CurrentRevision(d, j, n) + 1>> : n \in names}
  <1>1. CASE CorrelationRejected(d, op) # None
    <2> DEFINE res == [Result(op, at, CorrelationRejected(d, op)) EXCEPT !.job = op.job]
    <2>1. a = Done(d, res)
      BY <1>1 DEF RecordFollowUp
    <2>2. res.evidence = None
      BY DEF Result
    <2> HIDE DEF res, a
    <2>3. Answers(d, op, a)
      BY <2>1, <2>2, Refused
    <2> QED
      BY <2>3 DEF a
  <1>2. CASE CorrelationRejected(d, op) = None
    <2> DEFINE out == IF StaleBase(d, op, j) THEN "FACT_REVISION_CONFLICT" ELSE "FOLLOW_UP_RECORDED"
    <2>1. /\ a.db = h /\ a.result.job = j /\ a.result.revisions = new
          /\ a.result.outcome = out
      BY <1>2 DEF RecordFollowUp, Done, Result
    <2>2. j \in Jobs
      BY <1>2, Correlated
    <2>3. /\ Effect(d, h)
          /\ \A i \in Jobs \ {j} : h.facts[i] = d.facts[i]
          /\ \A n \in FactNames :
                IF n \in names
                THEN /\ Len(h.facts[j][n]) = Len(d.facts[j][n]) + 1
                     /\ h.facts[j][n][Len(d.facts[j][n]) + 1].evidence = Key(op)
                ELSE h.facts[j][n] = d.facts[j][n]
          /\ Len(d.history[j]) + 1 \in FollowUpEvidence(h, j)
          /\ h.history[j][Len(d.history[j]) + 1].key = Key(op)
      BY <2>2, FollowUpEffect
    <2>4. /\ names \subseteq FactNames
          /\ StaleBase(d, op, j) => names = {}
          /\ \A n \in names : op.base[n] = Len(d.facts[j][n])
      BY DEF ChangedNames, StaleBase, CurrentRevision, Keyed, OperationOK
    <2>5. \A i \in Jobs, n \in FactNames : Len(d.facts[i][n]) \in Nat
      BY DEF DbOK
    <2>6. /\ \A n \in names : <<n, Len(d.facts[j][n]) + 1>> \in new
          /\ \A x \in new : x[1] \in names /\ x[2] = Len(d.facts[j][x[1]]) + 1
      BY DEF CurrentRevision
    <2>7. names = {} => new = {}
      OBVIOUS
    <2> HIDE DEF a, h, j, names, new
    <2>8. ASSUME NEW i \in Jobs, NEW n \in FactNames, NEW r \in NewRows(d, h, i, n)
          PROVE  /\ i = j /\ a.result.outcome = "FOLLOW_UP_RECORDED"
                 /\ h.facts[i][n][r].evidence = Key(op)
                 /\ <<n, r>> \in new /\ op.base[n] = r - 1
      <3>1. h.facts[i][n] # d.facts[i][n]
        BY <2>5, <2>8 DEF NewRows
      <3>2. i = j /\ n \in names
        BY <2>3, <3>1
      <3>3. r = Len(d.facts[j][n]) + 1
        BY <2>3, <2>5, <2>8, <3>2 DEF NewRows
      <3>4. op.base[n] = r - 1
        BY <2>2, <2>4, <2>5, <3>2, <3>3
      <3> QED
        BY <2>1, <2>3, <2>4, <2>6, <3>2, <3>3, <3>4
    <2>9. ASSUME NEW x \in new
          PROVE  /\ x[1] \in FactNames /\ x[2] \in 1 .. Len(h.facts[j][x[1]])
                 /\ h.facts[j][x[1]][x[2]].evidence = Key(op)
      <3> DEFINE n == x[1]
      <3>1. n \in names /\ n \in FactNames /\ x[2] = Len(d.facts[j][n]) + 1
        BY <2>4, <2>6, <2>9
      <3> HIDE DEF n
      <3>2. Len(h.facts[j][n]) = Len(d.facts[j][n]) + 1 /\ h.facts[j][n][x[2]].evidence = Key(op)
        BY <2>3, <3>1
      <3>3. x[2] \in 1 .. Len(h.facts[j][n])
        BY <2>2, <2>5, <3>1, <3>2
      <3> QED
        BY <3>1, <3>2, <3>3 DEF n
    <2>10. out = "FACT_REVISION_CONFLICT" => new = {}
      BY <2>4, <2>7
    <2>11. Reports(d, h, op, a.result)
      BY <2>1, <2>2, <2>3, <2>8, <2>9, <2>10 DEF Reports
    <2>12. Answers(d, op, a)
      BY <2>1, <2>3, <2>11 DEF Answers
    <2> QED
      BY <2>12 DEF a
  <1> QED
    BY <1>1, <1>2

(* _apply_first_seen *)
LEMMA FirstSeenOK ==
    ASSUME NEW d, DbOK(d), NEW op, Keyed(op), NEW at \in Nat
    PROVE  Answers(d, op, ApplyFirstSeen(d, op, at))
  <1>1. op.kind \in Kinds
    BY DEF Keyed, OperationOK
  <1> QED
    BY <1>1, CreateOK, FollowUpOK, DormantOK, WakeOK, BindOK DEF Kinds, ApplyFirstSeen

-----------------------------------------------------------------------------
(* The ledger.                                                             *)

(* Effect without the ledger: what every step of the system keeps. *)
Grows(d, e) ==
    /\ DbOK(e)
    /\ d.evidence \subseteq e.evidence
    /\ \A j \in Jobs :
          /\ d.job[j].exists => e.job[j].exists /\ (Same(d, e, j) \/ Advanced(d, e, j))
          /\ Extends(d.history[j], e.history[j])
          /\ \A n \in FactNames : Extends(d.facts[j][n], e.facts[j][n])

LedgerRow(op, res) == [key |-> Key(op), result |-> res, fingerprint |-> op]

(* A key is applied once, a reuse of it conflicts once. *)
Recorded(d) ==
    /\ \A o \in d.ops \cup d.conflicts :
          o = [key |-> o.key, result |-> o.result, fingerprint |-> o.fingerprint]
    /\ \A o, p \in d.ops : o.key = p.key => o = p
    /\ \A o, p \in d.conflicts : o.key = p.key /\ o.fingerprint = p.fingerprint => o = p

(* A result that was returned is stored under its key. *)
Kept(d, op, res) ==
    \/ LedgerRow(op, res) \in d.ops
    \/ /\ LedgerRow(op, res) \in d.conflicts
       /\ \E o \in d.ops : o.key = Key(op) /\ o.fingerprint # op

(* The result of o answers for row r of fact n of job j. *)
AnswersFor(o, k, j, n, r) ==
    /\ o.key = k /\ o.result.job = j
    /\ o.result.outcome = "FOLLOW_UP_RECORDED"
    /\ <<n, r>> \in o.result.revisions
    /\ o.fingerprint.base[n] = r - 1

RowAnswered(d, j, n, r) ==
    d.facts[j][n][r].evidence # None =>
        \E o \in d.ops : AnswersFor(o, d.facts[j][n][r].evidence, j, n, r)

RowsAnswered(d) ==
    \A j \in Jobs, n \in FactNames : \A r \in 1 .. Len(d.facts[j][n]) : RowAnswered(d, j, n, r)

(* The rows that the result of o reports exist. *)
Reported(d, o) ==
    o.result.evidence # None =>
        /\ o.result.job \in Jobs
        /\ \E i \in FollowUpEvidence(d, o.result.job) : d.history[o.result.job][i].key = o.key
        /\ \A x \in o.result.revisions :
              /\ x[1] \in FactNames /\ x[2] \in 1 .. Len(d.facts[o.result.job][x[1]])
              /\ d.facts[o.result.job][x[1]][x[2]].evidence = o.key
        /\ o.result.outcome = "FACT_REVISION_CONFLICT" => o.result.revisions = {}

Sound(d) ==
    /\ DbOK(d)
    /\ Recorded(d)
    /\ RowsAnswered(d)
    /\ \A o \in d.ops : Reported(d, o)

(* What a step of the system does to the tables. *)
Progress(d, e) ==
    /\ Grows(d, e) /\ d.ops \subseteq e.ops /\ d.conflicts \subseteq e.conflicts
    /\ Sound(e)

(* What is reported stays where it is. *)
LEMMA ReportedStays ==
    ASSUME NEW d, DbOK(d), NEW e, Grows(d, e), NEW o, Reported(d, o)
    PROVE  Reported(e, o)
  <1> SUFFICES ASSUME o.result.evidence # None
               PROVE  Reported(e, o)
    BY DEF Reported
  <1> DEFINE j == o.result.job
  <1>1. j \in Jobs
    BY DEF Reported
  <1>2. /\ d.history[j] \in Seq(EventRows) /\ e.history[j] \in Seq(EventRows)
        /\ Extends(d.history[j], e.history[j])
    BY <1>1 DEF DbOK, Grows
  <1>3. /\ \A n \in FactNames : /\ d.facts[j][n] \in Seq(FactRows)
                                /\ e.facts[j][n] \in Seq(FactRows)
                                /\ Extends(d.facts[j][n], e.facts[j][n])
        /\ d.evidence \subseteq e.evidence
    BY <1>1 DEF DbOK, Grows
  <1>4. PICK i \in FollowUpEvidence(d, j) : d.history[j][i].key = o.key
    BY DEF Reported
  <1>5. i \in 1 .. Len(d.history[j])
    BY <1>2, <1>4 DEF FollowUpEvidence
  <1>6. e.history[j][i] = d.history[j][i] /\ i \in DOMAIN e.history[j]
    BY <1>2, <1>5 DEF Extends
  <1>7. i \in FollowUpEvidence(e, j)
    BY <1>3, <1>4, <1>6 DEF FollowUpEvidence
  <1>8. ASSUME NEW x \in o.result.revisions
        PROVE  /\ x[1] \in FactNames /\ x[2] \in 1 .. Len(e.facts[j][x[1]])
               /\ e.facts[j][x[1]][x[2]].evidence = o.key
    <2> DEFINE n == x[1]
    <2>1. /\ n \in FactNames /\ x[2] \in 1 .. Len(d.facts[j][n])
          /\ d.facts[j][n][x[2]].evidence = o.key
      BY <1>8 DEF Reported
    <2> HIDE DEF n, j
    <2>2. /\ Len(d.facts[j][n]) \in Nat /\ Len(e.facts[j][n]) \in Nat
          /\ Extends(d.facts[j][n], e.facts[j][n])
      BY <1>3, <2>1
    <2> DEFINE D == d.facts[j][n]  E == e.facts[j][n]
    <2>3. x[2] \in 1 .. Len(E) /\ E[x[2]] = D[x[2]]
      <3>1. x[2] \in 1 .. Len(D) /\ Len(D) \in Nat /\ Len(E) \in Nat /\ Extends(D, E)
        BY <2>1, <2>2
      <3> HIDE DEF D, E
      <3> QED
        BY <3>1 DEF Extends
    <2> QED
      BY <2>1, <2>3 DEF n
  <1>9. o.result.outcome = "FACT_REVISION_CONFLICT" => o.result.revisions = {}
    BY DEF Reported
  <1> HIDE DEF j
  <1>10. \E k \in FollowUpEvidence(e, j) : e.history[j][k].key = o.key
    BY <1>4, <1>6, <1>7
  <1> QED
    BY <1>1, <1>8, <1>9, <1>10 DEF Reported, j

(* The old rows are answered for; the new ones are left to show. *)
LEMMA RowsStayAnswered ==
    ASSUME NEW d, DbOK(d), NEW e, Grows(d, e), d.ops \subseteq e.ops, RowsAnswered(d),
           \A j \in Jobs, n \in FactNames : \A r \in NewRows(d, e, j, n) : RowAnswered(e, j, n, r)
    PROVE  RowsAnswered(e)
  <1> SUFFICES ASSUME NEW j \in Jobs, NEW n \in FactNames, NEW r \in 1 .. Len(e.facts[j][n])
               PROVE  RowAnswered(e, j, n, r)
    BY DEF RowsAnswered
  <1>1. Len(d.facts[j][n]) \in Nat /\ Len(e.facts[j][n]) \in Nat
    BY DEF DbOK, Grows
  <1>2. CASE r \in 1 .. Len(d.facts[j][n])
    <2>1. e.facts[j][n][r] = d.facts[j][n][r]
      BY <1>2 DEF Grows, Extends
    <2>2. RowAnswered(d, j, n, r)
      BY <1>2 DEF RowsAnswered
    <2> QED
      BY <2>1, <2>2 DEF RowAnswered
  <1>3. CASE r \notin 1 .. Len(d.facts[j][n])
    <2>1. r \in NewRows(d, e, j, n)
      BY <1>1, <1>3 DEF NewRows
    <2> QED
      BY <2>1
  <1> QED
    BY <1>2, <1>3

(* A step that leaves the ledger alone adds no row that would need it. *)
LEMMA QuietProgress ==
    ASSUME NEW d, Sound(d), NEW e, Effect(d, e),
           Unattributed(d, e)
    PROVE  Progress(d, e)
  <1>1. Grows(d, e) /\ e.ops = d.ops /\ e.conflicts = d.conflicts /\ DbOK(e) /\ DbOK(d)
    BY DEF Effect, Grows, Sound
  <1>2. RowsAnswered(e)
    <2>1. \A j \in Jobs, n \in FactNames : \A r \in NewRows(d, e, j, n) : RowAnswered(e, j, n, r)
      BY DEF RowAnswered, Unattributed
    <2>2. d.ops \subseteq e.ops /\ RowsAnswered(d)
      BY <1>1 DEF Sound
    <2> QED
      BY <1>1, <2>1, <2>2, RowsStayAnswered
  <1>3. \A o \in e.ops : Reported(e, o)
    BY <1>1, ReportedStays DEF Sound
  <1>4. Recorded(e)
    BY <1>1 DEF Recorded, Sound
  <1> QED
    BY <1>1, <1>2, <1>3, <1>4 DEF Progress, Sound

(* A first operation under its key is applied and recorded with its result. *)
LEMMA FirstProgress ==
    ASSUME NEW d, Sound(d), NEW q, NEW a, Answers(d, q.op, a),
           ~ \E o \in d.ops : o.key = Key(q.op)
    PROVE  /\ Progress(d, FirstSeen(d, q, a).db)
           /\ Kept(FirstSeen(d, q, a).db, q.op, FirstSeen(d, q, a).result)
  <1> DEFINE op == q.op
             b == a.db
             new == LedgerRow(op, a.result)
             e == FirstSeen(d, q, a).db
  <1>1. DbOK(d) /\ DbOK(b) /\ Effect(d, b) /\ Reports(d, b, op, a.result)
    BY DEF Sound, Answers, Effect
  <1>2. /\ e = [b EXCEPT !.ops = b.ops \cup {new}] /\ FirstSeen(d, q, a).result = a.result
    BY <1>1 DEF FirstSeen, Done, LedgerRow, OperationFingerprint, DbOK
  <1>3. /\ new.key = Key(op) /\ new.result = a.result /\ new.fingerprint = op
        /\ new = [key |-> new.key, result |-> new.result, fingerprint |-> new.fingerprint]
    BY DEF LedgerRow
  <1> HIDE DEF e, b, new
  <1>4. /\ e.job = b.job /\ e.facts = b.facts /\ e.history = b.history
        /\ e.evidence = b.evidence /\ e.ops = d.ops \cup {new} /\ e.conflicts = d.conflicts
        /\ DbOK(e)
    BY <1>1, <1>2 DEF DbOK, Effect
  <1>5. Grows(d, e)
    BY <1>1, <1>4 DEF Grows, Effect, Same, Advanced
  <1>6. Recorded(e)
    <2>1. \A o \in d.ops : o.key # new.key
      BY <1>3
    <2>2. Recorded(d)
      BY DEF Sound
    <2> QED
      BY <1>3, <1>4, <2>1, <2>2 DEF Recorded
  <1>7. ASSUME NEW j \in Jobs, NEW n \in FactNames, NEW r \in NewRows(d, e, j, n)
        PROVE  RowAnswered(e, j, n, r)
    <2>1. r \in NewRows(d, b, j, n) /\ e.facts[j][n][r] = b.facts[j][n][r]
      BY <1>4, <1>7 DEF NewRows
    <2> DEFINE k == b.facts[j][n][r].evidence
    <2>4. k # None => /\ k = Key(op) /\ a.result.job = j
                      /\ a.result.outcome = "FOLLOW_UP_RECORDED"
                      /\ <<n, r>> \in a.result.revisions /\ op.base[n] = r - 1
      BY <1>1, <2>1 DEF Reports
    <2>2. k # None => AnswersFor(new, k, j, n, r)
      <3> HIDE DEF k
      <3> QED
        BY <1>3, <2>4 DEF AnswersFor
    <2>3. new \in e.ops
      BY <1>4
    <2> QED
      BY <2>1, <2>2, <2>3 DEF RowAnswered
  <1>8. RowsAnswered(e)
    <2>1. d.ops \subseteq e.ops /\ RowsAnswered(d)
      BY <1>4 DEF Sound
    <2> QED
      BY <1>1, <1>5, <1>7, <2>1, RowsStayAnswered
  <1>9. Reported(e, new)
    <2>1. \A j : FollowUpEvidence(e, j) = FollowUpEvidence(b, j)
      BY <1>4 DEF FollowUpEvidence
    <2> QED
      BY <1>1, <1>3, <1>4, <2>1 DEF Reports, Reported
  <1>10. \A o \in d.ops : Reported(e, o)
    BY <1>1, <1>5, ReportedStays DEF Sound
  <1>11. Progress(d, e)
    BY <1>4, <1>5, <1>6, <1>8, <1>9, <1>10 DEF Progress, Sound
  <1>12. Kept(e, op, a.result)
    BY <1>4 DEF Kept, new
  <1> QED
    BY <1>2, <1>11, <1>12 DEF e

(* A key that was used: the first result, the stored conflict or a new one. *)
LEMMA ReplayProgress ==
    ASSUME NEW d, Sound(d), NEW q, \E o \in d.ops : o.key = Key(q.op)
    PROVE  /\ Progress(d, Replayed(d, q).db)
           /\ Kept(Replayed(d, q).db, q.op, Replayed(d, q).result)
  <1> DEFINE op == q.op
             first == CHOOSE o \in d.ops : o.key = Key(op)
             same == {o \in d.conflicts : o.key = Key(op) /\ o.fingerprint = op}
             old == CHOOSE o \in same : TRUE
             conflict == Result(op, q.at, "EVENT_CONFLICT")
             new == LedgerRow(op, conflict)
             e == [d EXCEPT !.conflicts = @ \cup {new}]
  <1>1. DbOK(d) /\ Recorded(d)
    BY DEF Sound
  <1>2. Replayed(d, q) =
            IF first.fingerprint = op THEN Done(d, first.result)
            ELSE IF same # {} THEN Done(d, old.result)
            ELSE Done(e, conflict)
    BY Zenon DEF Replayed, OperationFingerprint, LedgerRow
  <1>3. first \in d.ops /\ first.key = Key(op)
    OBVIOUS
  <1>4. same # {} => old \in d.conflicts /\ old.key = Key(op) /\ old.fingerprint = op
    OBVIOUS
  <1>5. /\ new.key = Key(op) /\ new.result = conflict /\ new.fingerprint = op
        /\ new = [key |-> new.key, result |-> new.result, fingerprint |-> new.fingerprint]
    BY DEF LedgerRow
  <1>6. same = {} => \A o \in d.conflicts : ~ (o.key = Key(op) /\ o.fingerprint = op)
    OBVIOUS
  <1> HIDE DEF first, same, old, conflict, new
  <1>7. e = [d EXCEPT !.conflicts = d.conflicts \cup {new}]
    BY <1>1 DEF DbOK
  <1> HIDE DEF e
  <1>8. /\ e.job = d.job /\ e.facts = d.facts /\ e.history = d.history
        /\ e.evidence = d.evidence /\ e.ops = d.ops /\ e.conflicts = d.conflicts \cup {new}
        /\ DbOK(e)
    BY <1>1, <1>7 DEF DbOK
  <1>9. Progress(d, d)
    <2>1. Effect(d, d)
      BY <1>1, NoEffect
    <2> QED
      BY <2>1 DEF Progress, Grows, Effect
  <1>10. CASE first.fingerprint = op
    <2>1. Replayed(d, q).db = d /\ Replayed(d, q).result = first.result
      BY <1>2, <1>10 DEF Done
    <2>2. first = LedgerRow(op, first.result)
      BY <1>1, <1>3, <1>10 DEF Recorded, LedgerRow
    <2>3. Kept(d, op, first.result)
      BY <1>3, <2>2 DEF Kept
    <2> QED
      BY <1>9, <2>1, <2>3
  <1>11. CASE first.fingerprint # op /\ same # {}
    <2>1. Replayed(d, q).db = d /\ Replayed(d, q).result = old.result
      BY <1>2, <1>11 DEF Done
    <2>2. old = LedgerRow(op, old.result)
      BY <1>1, <1>4, <1>11 DEF Recorded, LedgerRow
    <2>3. Kept(d, op, old.result)
      BY <1>3, <1>4, <1>11, <2>2 DEF Kept
    <2> QED
      BY <1>9, <2>1, <2>3
  <1>12. CASE first.fingerprint # op /\ same = {}
    <2>1. Replayed(d, q).db = e /\ Replayed(d, q).result = conflict
      BY <1>2, <1>12 DEF Done
    <2>2. Grows(d, e)
      BY <1>8, <1>9 DEF Grows, Same, Advanced, Progress
    <2>3. Recorded(e)
      BY <1>1, <1>5, <1>6, <1>8, <1>12 DEF Recorded
    <2>4. RowsAnswered(e)
      BY <1>8 DEF RowsAnswered, RowAnswered, Sound
    <2>5. \A o \in e.ops : Reported(e, o)
      BY <1>1, <1>8, <2>2, ReportedStays DEF Sound
    <2>6. Progress(d, e)
      BY <1>8, <2>2, <2>3, <2>4, <2>5 DEF Progress, Sound
    <2>7. Kept(e, op, conflict)
      BY <1>3, <1>8, <1>12 DEF Kept, new
    <2> QED
      BY <2>1, <2>6, <2>7
  <1> QED
    BY <1>10, <1>11, <1>12

(* execute *)
LEMMA ExecuteProgress ==
    ASSUME NEW d, Sound(d), NEW q, OperationOK(q.op), q.at \in Nat
    PROVE  /\ Progress(d, Executed(d, q).db)
           /\ q.op.event # None => Kept(Executed(d, q).db, q.op, Executed(d, q).result)
  <1>1. CASE q.op.event = None
    <2>1. Executed(d, q).db = d
      BY <1>1 DEF Executed, Done
    <2>2. Effect(d, d)
      BY NoEffect DEF Sound
    <2>3. Progress(d, d)
      BY <2>2 DEF Progress, Grows, Effect
    <2> QED
      BY <1>1, <2>1, <2>3
  <1>2. CASE q.op.event # None /\ \E o \in d.ops : o.key = Key(q.op)
    <2>1. Executed(d, q) = Replayed(d, q)
      BY <1>2 DEF Executed
    <2>2. /\ Progress(d, Replayed(d, q).db)
          /\ Kept(Replayed(d, q).db, q.op, Replayed(d, q).result)
      BY <1>2, ReplayProgress
    <2> QED
      BY <2>1, <2>2
  <1>3. CASE q.op.event # None /\ ~ \E o \in d.ops : o.key = Key(q.op)
    <2> DEFINE a == ApplyFirstSeen(d, q.op, q.at)
    <2>1. Executed(d, q) = FirstSeen(d, q, a)
      BY <1>3 DEF Executed
    <2>2. Answers(d, q.op, a)
      BY <1>3, FirstSeenOK DEF Keyed, Sound
    <2> HIDE DEF a
    <2>3. /\ Progress(d, FirstSeen(d, q, a).db)
          /\ Kept(FirstSeen(d, q, a).db, q.op, FirstSeen(d, q, a).result)
      BY <1>3, <2>2, FirstProgress
    <2> QED
      BY <2>1, <2>3
  <1> QED
    BY <1>1, <1>2, <1>3

-----------------------------------------------------------------------------
(* The repository's own calls.                                             *)

(* d after record_fact *)
WithFact(d, j, at, n, content) ==
    AdvanceSourceRevision(
        InsertFacts([d EXCEPT !.job[j].updated = at], j, [m \in {n} |-> content], {n}, None), j)

LEMMA FactRecorded ==
    ASSUME NEW d, DbOK(d), NEW j \in Jobs, NEW at \in Nat, NEW n \in FactNames,
           NEW content \in FactInput
    PROVE  /\ Effect(d, WithFact(d, j, at, n, content))
           /\ Unattributed(d, WithFact(d, j, at, n, content))
  <1> DEFINE batch == [m \in {n} |-> content]
             i == [d EXCEPT !.job[j].updated = at]
             f == InsertFacts(i, j, batch, {n}, None)
             e == WithFact(d, j, at, n, content)
  <1>1. e = AdvanceSourceRevision(f, j)
    BY DEF WithFact
  <1>2. RowOnly(d, i, j, [d.job[j] EXCEPT !.updated = at])
    BY RowUpdates
  <1>3. \A m \in {n} : batch[m] \in FactInput
    OBVIOUS
  <1> HIDE DEF i, batch, e
  <1>4. FactsOnly(i, f, j, batch, {n}, None)
    <2>1. DbOK(i)
      BY <1>2 DEF RowOnly
    <2> QED
      BY <1>3, <2>1, FactsInserted
  <1> HIDE DEF f
  <1>5. RowOnly(f, e, j, [f.job[j] EXCEPT !.rev = f.job[j].rev + 1])
    <2>1. DbOK(f)
      BY <1>4 DEF FactsOnly
    <2>2. RowOnly(f, AdvanceSourceRevision(f, j), j, [f.job[j] EXCEPT !.rev = f.job[j].rev + 1])
      BY <2>1, RowUpdates
    <2> QED
      BY <1>1, <2>2
  <1>6. /\ Unattributed(d, f)
        /\ \A h \in Jobs, m \in FactNames : Extends(d.facts[h][m], f.facts[h][m])
        /\ Len(f.facts[j][n]) = Len(d.facts[j][n]) + 1
    <2>1. i.facts = d.facts
      BY <1>2 DEF RowOnly
    <2> QED
      BY <1>3, <1>4, <2>1, FactsUnattributed
  <1>7. /\ DbOK(e) /\ e.facts = f.facts /\ e.history = d.history /\ e.evidence = d.evidence
        /\ e.ops = d.ops /\ e.conflicts = d.conflicts
        /\ \A h \in Jobs \ {j} : e.job[h] = d.job[h] /\ e.facts[h] = d.facts[h]
    BY <1>2, <1>4, <1>5 DEF RowOnly, FactsOnly
  <1>8. e.job[j].rev = d.job[j].rev + 1 /\ e.job[j].exists = d.job[j].exists
    <2>1. d.job[j] \in JobRows /\ i.job[j] \in JobRows
      BY <1>2 DEF RowOnly, DbOK
    <2>2. i.job[j].rev = d.job[j].rev /\ i.job[j].exists = d.job[j].exists
      BY <1>2, <2>1 DEF RowOnly, JobRows
    <2>3. f.job[j] = i.job[j]
      BY <1>4 DEF FactsOnly
    <2> QED
      BY <1>5, <2>1, <2>2, <2>3 DEF RowOnly, JobRows
  <1>9. Advanced(d, e, j)
    BY <1>6, <1>7, <1>8 DEF Advanced
  <1>10. \A h \in Jobs \ {j} : Same(d, e, h)
    BY <1>7 DEF Same
  <1>11. \A h \in Jobs : Extends(d.history[h], e.history[h])
    <2>1. \A h \in Jobs : Len(d.history[h]) \in Nat
      BY DEF DbOK
    <2> QED
      BY <1>7, <2>1 DEF Extends
  <1>12. Effect(d, e)
    BY <1>6, <1>7, <1>8, <1>9, <1>10, <1>11 DEF Effect
  <1> QED
    BY <1>6, <1>7, <1>12 DEF Unattributed, NewRows, e

(* mint_adapter_receipt *)
LEMMA ReceiptMinted ==
    ASSUME NEW d, DbOK(d), NEW r
    PROVE  /\ Effect(d, [d EXCEPT !.receipts = @ \cup {r}])
           /\ Unattributed(d, [d EXCEPT !.receipts = @ \cup {r}])
  <1> DEFINE e == [d EXCEPT !.receipts = @ \cup {r}]
  <1>1. e = [d EXCEPT !.receipts = d.receipts \cup {r}]
    BY DEF DbOK
  <1> HIDE DEF e
  <1>2. /\ e.job = d.job /\ e.facts = d.facts /\ e.history = d.history /\ e.ops = d.ops
        /\ e.conflicts = d.conflicts /\ e.evidence = d.evidence /\ DbOK(e)
    BY <1>1 DEF DbOK
  <1>3. Effect(d, d)
    BY NoEffect
  <1>4. Effect(d, e)
    BY <1>2, <1>3 DEF Effect, Same, Advanced
  <1>5. Unattributed(d, e)
    BY <1>2 DEF Unattributed, NewRows, DbOK
  <1> QED
    BY <1>4, <1>5 DEF e

-----------------------------------------------------------------------------
(* The steps of the system.                                                *)

AllKept == \A x \in returned : Kept(db, x.op, x.result)

(* Every step of IntakeNext is progress of the tables. *)
LEMMA IntakeStep ==
    ASSUME Sound(db), AllKept, IntakeNext
    PROVE  Progress(db, db') /\ AllKept'
  <1>1. ASSUME NEW q \in Requests, Execute(q)
        PROVE  Progress(db, db') /\ AllKept'
    <2> DEFINE x == Executed(db, q)
    <2>1. /\ db' = x.db
          /\ returned' = IF q.op.event = None THEN returned
                         ELSE returned \cup {[op |-> q.op, result |-> x.result]}
      BY <1>1 DEF Execute
    <2>2. Progress(db, x.db) /\ (q.op.event # None => Kept(x.db, q.op, x.result))
      BY RequestAssumption, ExecuteProgress
    <2> HIDE DEF x
    <2>3. Progress(db, db')
      BY <2>1, <2>2
    <2>4. ASSUME NEW y \in returned'
          PROVE  Kept(db', y.op, y.result)
      <3>1. CASE y \in returned
        <4>1. Kept(db, y.op, y.result)
          BY <3>1 DEF AllKept
        <4> QED
          BY <2>3, <4>1 DEF Kept, Progress
      <3>2. CASE y \notin returned
        <4>1. q.op.event # None /\ y = [op |-> q.op, result |-> x.result]
          BY <2>1, <2>4, <3>2
        <4> QED
          BY <2>1, <2>2, <4>1
      <3> QED
        BY <3>1, <3>2
    <2> QED
      BY <2>3, <2>4 DEF AllKept
  <1>2. ASSUME NEW c \in Direct, CreateJob(c)
        PROVE  Effect(db, db') /\ Unattributed(db, db') /\ UNCHANGED returned
    <2>1. /\ c.job \in Jobs /\ c.at \in Nat /\ ~ Exists(db, c.job)
          /\ DOMAIN c.facts \subseteq FactNames /\ \A n \in DOMAIN c.facts : c.facts[n] \in FactInput
      BY <1>2, RequestAssumption DEF CreateJob, DirectOK
    <2>2. DbOK(db)
      BY DEF Sound
    <2> QED
      BY <1>2, <2>1, <2>2, JobInserted DEF CreateJob
  <1>3. ASSUME NEW c \in Direct, RecordFact(c)
        PROVE  Effect(db, db') /\ Unattributed(db, db') /\ UNCHANGED returned
    <2>1. c.job \in Jobs /\ c.at \in Nat /\ c.name \in FactNames /\ c.content \in FactInput
      BY <1>3, RequestAssumption DEF RecordFact, DirectOK
    <2>2. DbOK(db)
      BY DEF Sound
    <2>3. db' = WithFact(db, c.job, c.at, c.name, c.content) /\ UNCHANGED returned
      BY <1>3 DEF RecordFact, WithFact
    <2> QED
      BY <2>1, <2>2, <2>3, FactRecorded
  <1>4. ASSUME NEW ns \in Namespaces, NEW e \in EventIds, MintAdapterReceipt(ns, e)
        PROVE  Effect(db, db') /\ Unattributed(db, db') /\ UNCHANGED returned
    <2>1. db' = [db EXCEPT !.receipts = @ \cup {<<ns, e>>}] /\ UNCHANGED returned
      BY <1>4 DEF MintAdapterReceipt
    <2>2. DbOK(db)
      BY DEF Sound
    <2> QED
      BY <2>1, <2>2, ReceiptMinted
  <1>5. ASSUME Effect(db, db'), Unattributed(db, db'), UNCHANGED returned
        PROVE  Progress(db, db') /\ AllKept'
    <2>1. Progress(db, db')
      BY <1>5, QuietProgress
    <2> QED
      BY <1>5, <2>1 DEF Progress, AllKept, Kept
  <1> QED
    BY <1>1, <1>2, <1>3, <1>4, <1>5 DEF IntakeNext

-----------------------------------------------------------------------------
(* The handoffs.                                                           *)

(* Projection over the rows d. *)
ProjectionOf(d, j) ==
    [job |-> j, rev |-> d.job[j].rev, activity |-> d.job[j].activity,
     facts |-> [n \in DOMAIN CurrentFacts(d, j) |->
                   [revision |-> CurrentRevision(d, j, n),
                    row      |-> CurrentFacts(d, j)[n]]]]

Handoffs ==
    [job : Jobs, rev : Nat, activity : {"ACTIVE", "DORMANT"},
     facts : UNION { [S -> [revision : Nat, row : FactRows]] : S \in SUBSET FactNames }]

(* What publishers hold and what they have published. *)
Handed == {x \in Handoffs : \E p \in Publishers : draft[p] = x /\ draft[p] # None}
              \cup Range(published)

HandoffType == draft \in [Publishers -> Handoffs \cup {None}] /\ published \in Seq(Handoffs)

(* A handoff is not from the future, and one of the present is what it says. *)
HandoffOK(d, x) ==
    /\ x.job \in Jobs /\ d.job[x.job].exists
    /\ x.rev \in Nat /\ x.rev <= d.job[x.job].rev
    /\ x.rev = d.job[x.job].rev => x = ProjectionOf(d, x.job)

Faithful == \A x \in Handed : HandoffOK(db, x)

OneContent == \A x, y \in Handed : x.job = y.job /\ x.rev = y.rev => x = y

InOrder ==
    \A i, k \in DOMAIN published :
        i < k /\ published[i].job = published[k].job => ListedBefore(published[i], published[k])

(* The inductive invariant. *)
Inv ==
    /\ Sound(db) /\ AllKept
    /\ HandoffType /\ Faithful /\ OneContent /\ InOrder

LEMMA ProjectionIs ==
    \A j : Projection(j) = ProjectionOf(db, j)
  BY DEF Projection, ProjectionOf

LEMMA ProjectionType ==
    ASSUME NEW d, DbOK(d), NEW j \in Jobs
    PROVE  /\ ProjectionOf(d, j) \in Handoffs /\ ProjectionOf(d, j).job = j
           /\ ProjectionOf(d, j).rev = d.job[j].rev /\ d.job[j].rev \in Nat
  <1> DEFINE S == {m \in FactNames : d.facts[j][m] # <<>>}
             g == [n \in S |-> [revision |-> Len(d.facts[j][n]),
                                row |-> d.facts[j][n][Len(d.facts[j][n])]]]
             R == [revision : Nat, row : FactRows]
  <1>1. ProjectionOf(d, j) = [job |-> j, rev |-> d.job[j].rev, activity |-> d.job[j].activity, facts |-> g]
    BY DEF ProjectionOf, CurrentFacts, CurrentRevision
  <1>2. ASSUME NEW n \in S
        PROVE  /\ Len(d.facts[j][n]) \in Nat
               /\ d.facts[j][n][Len(d.facts[j][n])] \in FactRows
    <2>1. d.facts[j][n] \in Seq(FactRows) /\ d.facts[j][n] # <<>>
      BY DEF DbOK
    <2>2. \A s \in Seq(FactRows) : s # <<>> => Len(s) \in Nat /\ s[Len(s)] \in FactRows
      OBVIOUS
    <2> QED
      BY <2>1, <2>2
  <1>3. g \in [S -> R] /\ S \in SUBSET FactNames
    BY <1>2
  <1> HIDE DEF g, S, R
  <1>4. g \in UNION { [T -> R] : T \in SUBSET FactNames }
    BY <1>3
  <1>5. d.job[j].rev \in Nat /\ d.job[j].activity \in {"ACTIVE", "DORMANT"}
    BY DEF DbOK, JobRows
  <1> QED
    BY <1>1, <1>4, <1>5 DEF Handoffs, R

LEMMA ProjectionStays ==
    ASSUME NEW d, NEW e, NEW j, Same(d, e, j)
    PROVE  ProjectionOf(e, j) = ProjectionOf(d, j)
  BY DEF Same, ProjectionOf, CurrentFacts, CurrentRevision

(* A new revision shows other content. *)
LEMMA ProjectionMoves ==
    ASSUME NEW d, DbOK(d), NEW e, DbOK(e), NEW j \in Jobs, Advanced(d, e, j)
    PROVE  \/ ProjectionOf(d, j).activity # ProjectionOf(e, j).activity
           \/ ProjectionOf(d, j).facts # ProjectionOf(e, j).facts
  <1> DEFINE F(b) == ProjectionOf(b, j).facts
  <1>1. \A b : /\ ProjectionOf(b, j).activity = b.job[j].activity
               /\ DOMAIN F(b) = {m \in FactNames : b.facts[j][m] # <<>>}
               /\ \A n \in DOMAIN F(b) : F(b)[n].revision = Len(b.facts[j][n])
    BY DEF ProjectionOf, CurrentFacts, CurrentRevision
  <1> HIDE DEF F
  <1>2. CASE \E n \in FactNames : Len(e.facts[j][n]) = Len(d.facts[j][n]) + 1
    <2>1. PICK n \in FactNames : Len(e.facts[j][n]) = Len(d.facts[j][n]) + 1
      BY <1>2
    <2>2. d.facts[j][n] \in Seq(FactRows) /\ e.facts[j][n] \in Seq(FactRows)
      BY DEF DbOK
    <2>3. e.facts[j][n] # <<>> /\ Len(d.facts[j][n]) \in Nat
      BY <2>1, <2>2
    <2>4. F(d) # F(e)
      <3> SUFFICES ASSUME F(d) = F(e)
                   PROVE  FALSE
        OBVIOUS
      <3>1. n \in DOMAIN F(e) /\ n \in DOMAIN F(d)
        BY <1>1, <2>3
      <3>2. F(e)[n].revision = Len(e.facts[j][n]) /\ F(d)[n].revision = Len(d.facts[j][n])
        BY <1>1, <3>1
      <3> QED
        BY <2>1, <2>3, <3>2
    <2> QED
      BY <2>4 DEF F
  <1>3. CASE d.job[j].activity # e.job[j].activity
    BY <1>1, <1>3
  <1> QED
    BY <1>2, <1>3 DEF Advanced

(* A handoff stays true of its revision whatever the tables do. *)
LEMMA HandoffStays ==
    ASSUME NEW d, DbOK(d), NEW e, Grows(d, e), NEW x, HandoffOK(d, x)
    PROVE  HandoffOK(e, x)
  <1> DEFINE j == x.job
  <1>1. /\ j \in Jobs /\ e.job[j].exists /\ (Same(d, e, j) \/ Advanced(d, e, j))
        /\ x.rev \in Nat /\ d.job[j].rev \in Nat /\ x.rev <= d.job[j].rev
    BY DEF HandoffOK, Grows, DbOK, JobRows
  <1>2. CASE Same(d, e, j)
    <2>1. ProjectionOf(e, j) = ProjectionOf(d, j) /\ e.job[j].rev = d.job[j].rev
      BY <1>2, ProjectionStays DEF Same
    <2> QED
      BY <1>1, <2>1 DEF HandoffOK
  <1>3. CASE Advanced(d, e, j)
    <2>1. e.job[j].rev = d.job[j].rev + 1
      BY <1>3 DEF Advanced
    <2> QED
      BY <1>1, <2>1 DEF HandoffOK
  <1> QED
    BY <1>1, <1>2, <1>3

-----------------------------------------------------------------------------
(* The invariant and its theorems.                                         *)

LEMMA InvInit ==
    Init => Inv
  <1> SUFFICES ASSUME Init
               PROVE  Inv
    OBVIOUS
  <1>1. db = EmptyDb /\ returned = {} /\ draft = [p \in Publishers |-> None] /\ published = <<>>
    BY DEF Init, IntakeInit
  <1>2. /\ db.job = [j \in Jobs |-> NoRow] /\ db.facts = [j \in Jobs |-> [n \in FactNames |-> <<>>]]
        /\ db.history = [j \in Jobs |-> <<>>] /\ db.ops = {} /\ db.conflicts = {}
        /\ db = [job |-> db.job, facts |-> db.facts, conv |-> db.conv, history |-> db.history,
                 evidence |-> db.evidence, ops |-> db.ops, conflicts |-> db.conflicts,
                 receipts |-> db.receipts]
    BY <1>1 DEF EmptyDb
  <1>3. DbOK(db)
    <2>1. NoRow \in JobRows
      BY DEF NoRow, JobRows
    <2> QED
      BY <1>2, <2>1 DEF DbOK
  <1>4. Sound(db) /\ AllKept
    <2>1. RowsAnswered(db)
      BY <1>2 DEF RowsAnswered
    <2> QED
      BY <1>1, <1>2, <1>3, <2>1 DEF Sound, Recorded, AllKept
  <1>5. HandoffType
    BY <1>1 DEF HandoffType
  <1>6. Handed = {}
    BY <1>1 DEF Handed, Range
  <1> QED
    BY <1>1, <1>4, <1>5, <1>6 DEF Inv, Faithful, OneContent, InOrder

(* The tables of the next state grow out of the present ones. *)
LEMMA Step ==
    ASSUME Inv, [Next]_vars
    PROVE  Progress(db, db') /\ AllKept'
  <1>1. CASE IntakeNext
    BY <1>1, IntakeStep DEF Inv
  <1>2. CASE UNCHANGED <<db, returned>>
    <2>1. Effect(db, db)
      BY NoEffect DEF Inv, Sound
    <2>2. Progress(db, db)
      BY <2>1 DEF Progress, Grows, Effect, Inv
    <2> QED
      BY <1>2, <2>2 DEF AllKept, Inv, Kept
  <1> QED
    BY <1>1, <1>2 DEF Next, vars, CurrentProjection, PublishHandoff

(* Reading and publishing hand out what the tables say now. *)
LEMMA HandedStep ==
    ASSUME Inv, [Next]_vars
    PROVE  HandoffType' /\ (Faithful' /\ OneContent') /\ InOrder'
  <1>1. DbOK(db) /\ Progress(db, db') /\ HandoffType /\ Faithful /\ OneContent /\ InOrder
    BY Step DEF Inv, Sound
  <1>2. Grows(db, db')
    BY <1>1 DEF Progress
  <1>3. CASE UNCHANGED pvars
    <2>1. Handed' = Handed
      BY <1>3 DEF Handed, pvars
    <2>2. \A x \in Handed : HandoffOK(db', x)
      BY <1>1, <1>2, HandoffStays DEF Faithful
    <2>3. Faithful'
      BY <2>1, <2>2 DEF Faithful
    <2> QED
      BY <1>1, <1>3, <2>1, <2>3 DEF pvars, HandoffType, OneContent, InOrder
  <1>4. ASSUME NEW p \in Publishers, NEW j \in Jobs, CurrentProjection(p, j)
        PROVE  HandoffType' /\ (Faithful' /\ OneContent') /\ InOrder'
    <2> DEFINE y == ProjectionOf(db, j)
    <2>1. /\ Exists(db, j) /\ draft' = [draft EXCEPT ![p] = y]
          /\ db' = db /\ published' = published
      BY <1>4, ProjectionIs DEF CurrentProjection
    <2>2. y \in Handoffs /\ y.job = j /\ y.rev = db.job[j].rev /\ db.job[j].rev \in Nat
      BY <1>1, ProjectionType
    <2>3. HandoffOK(db, y)
      BY <2>1, <2>2 DEF HandoffOK, Exists
    <2>4. \A x \in Handed : x.job = y.job /\ x.rev = y.rev => x = y
      BY <1>1, <2>2 DEF Faithful, HandoffOK
    <2> HIDE DEF y
    <2>5. Handed' \subseteq Handed \cup {y}
      BY <1>1, <2>1 DEF Handed, HandoffType
    <2>6. HandoffType'
      BY <1>1, <2>1, <2>2 DEF HandoffType
    <2>7. Faithful'
      BY <1>1, <2>1, <2>3, <2>5 DEF Faithful
    <2>8. OneContent'
      BY <1>1, <2>4, <2>5 DEF OneContent
    <2>9. InOrder'
      BY <1>1, <2>1 DEF InOrder, ListedBefore
    <2> QED
      BY <2>6, <2>7, <2>8, <2>9
  <1>5. ASSUME NEW p \in Publishers, PublishHandoff(p)
        PROVE  HandoffType' /\ (Faithful' /\ OneContent') /\ InOrder'
    <2> DEFINE y == draft[p]
               N == Len(published)
    <2>1. /\ y # None /\ PublishedAt(y.job, y.rev) = {} /\ y = ProjectionOf(db, y.job)
          /\ published' = Append(published, y) /\ draft' = draft /\ db' = db
      BY <1>5, ProjectionIs DEF PublishHandoff
    <2>2. y \in Handoffs
      BY <1>1, <2>1 DEF HandoffType
    <2>3. y \in Handed
      BY <2>1, <2>2 DEF Handed
    <2> HIDE DEF y
    <2>4. /\ published \in Seq(Handoffs) /\ published' \in Seq(Handoffs) /\ N \in Nat
          /\ Len(published') = N + 1 /\ published'[N + 1] = y
          /\ \A i \in 1 .. N : published'[i] = published[i]
          /\ DOMAIN published = 1 .. N /\ DOMAIN published' = 1 .. N + 1
      BY <1>1, <2>1, <2>2 DEF HandoffType
    <2>5. \A x \in Range(published') : x \in Range(published) \/ x = y
      BY <2>4 DEF Range
    <2>6. Handed' \subseteq Handed
      BY <2>1, <2>3, <2>5 DEF Handed
    <2>7. HandoffType'
      BY <1>1, <2>1, <2>4 DEF HandoffType
    <2>8. Faithful' /\ OneContent'
      BY <1>1, <2>1, <2>6 DEF Faithful, OneContent
    <2>9. y.job \in Jobs /\ y.rev = db.job[y.job].rev /\ y.rev \in Nat
      BY <1>1, <2>1, <2>3, ProjectionType DEF Faithful, HandoffOK
    <2>10. ASSUME NEW i \in 1 .. N, published[i].job = y.job
           PROVE  ListedBefore(published[i], y)
      <3> DEFINE x == published[i]
      <3>1. x \in Range(published)
        BY <2>4 DEF Range
      <3>2. x \in Handed
        BY <3>1 DEF Handed
      <3>3. x.rev # y.rev
        BY <2>1, <2>10, <3>1 DEF PublishedAt
      <3>4. x.rev \in Nat /\ x.rev <= db.job[x.job].rev
        BY <1>1, <3>2 DEF Faithful, HandoffOK
      <3> QED
        BY <2>9, <2>10, <3>3, <3>4 DEF ListedBefore
    <2>11. InOrder'
      <3> SUFFICES ASSUME NEW i \in 1 .. N + 1, NEW k \in 1 .. N + 1, i < k,
                          published'[i].job = published'[k].job
                   PROVE  ListedBefore(published'[i], published'[k])
        BY <2>4 DEF InOrder, ListedBefore
      <3>1. i \in 1 .. N /\ (k \in 1 .. N \/ k = N + 1)
        BY <2>4
      <3>2. CASE k \in 1 .. N
        BY <1>1, <2>4, <3>1, <3>2 DEF InOrder
      <3>3. CASE k = N + 1
        BY <2>4, <2>10, <3>1, <3>3
      <3> QED
        BY <3>1, <3>2, <3>3
    <2> QED
      BY <2>7, <2>8, <2>11
  <1> QED
    BY <1>3, <1>4, <1>5 DEF Next, vars, pvars

LEMMA InvNext ==
    Inv /\ [Next]_vars => Inv'
  BY Step, HandedStep DEF Inv, Progress

LEMMA InvAlways ==
    Spec => []Inv
  BY InvInit, InvNext, PTL DEF Spec

(***************************************************************************)
(* Whatever adapters send and repeat, a request has one result for ever    *)
(* (execute, lifecycle.py): the ledger holds what was returned, under a    *)
(* key that is applied once.                                               *)
(***************************************************************************)
THEOREM AlwaysOneResultPerRequest ==
    Spec => []OneResultPerRequest
  <1>1. Inv => OneResultPerRequest
    <2> SUFFICES ASSUME Inv, NEW x \in returned, NEW y \in returned, x.op = y.op
                 PROVE  x.result = y.result
      BY DEF OneResultPerRequest
    <2> DEFINE op == x.op
               a == LedgerRow(op, x.result)
               b == LedgerRow(op, y.result)
    <2>1. Kept(db, op, x.result) /\ Kept(db, op, y.result) /\ Recorded(db)
      BY DEF Inv, AllKept, Sound
    <2>2. /\ a.key = Key(op) /\ a.fingerprint = op /\ a.result = x.result
          /\ b.key = Key(op) /\ b.fingerprint = op /\ b.result = y.result
      BY DEF LedgerRow
    <2>3. /\ a \in db.ops \/ (a \in db.conflicts /\ \E o \in db.ops : o.key = Key(op) /\ o.fingerprint # op)
          /\ b \in db.ops \/ (b \in db.conflicts /\ \E o \in db.ops : o.key = Key(op) /\ o.fingerprint # op)
      BY <2>1 DEF Kept
    <2> HIDE DEF a, b
    <2>4. a = b
      BY <2>1, <2>2, <2>3 DEF Recorded
    <2> QED
      BY <2>2, <2>4
  <1> QED
    BY <1>1, InvAlways, PTL

(***************************************************************************)
(* The fact rows and the results of the ledger answer for each other: what *)
(* _record_follow_up writes is what its result reports, in one revision    *)
(* after the base it was read at, and no later step takes it back.         *)
(***************************************************************************)
THEOREM FactsAlwaysAnswerForEvidence ==
    Spec => []FactsAnswerForEvidence
  <1>1. Inv => FactsAnswerForEvidence
    <2> SUFFICES ASSUME Inv
                 PROVE  FactsAnswerForEvidence
      OBVIOUS
    <2>1. RowsAnswered(db) /\ \A o \in db.ops : Reported(db, o)
      BY DEF Inv, Sound
    <2>2. \A j \in Jobs, n \in FactNames : \A r \in 1 .. CurrentRevision(db, j, n) :
             LET k == db.facts[j][n][r].evidence
             IN  k # None =>
                   \E o \in db.ops : /\ o.key = k /\ o.result.job = j
                                     /\ o.result.outcome = "FOLLOW_UP_RECORDED"
                                     /\ <<n, r>> \in o.result.revisions
                                     /\ o.fingerprint.base[n] = r - 1
      BY <2>1 DEF RowsAnswered, RowAnswered, AnswersFor, CurrentRevision
    <2>3. \A o \in db.ops : o.result.evidence # None =>
             /\ \E i \in FollowUpEvidence(db, o.result.job) : db.history[o.result.job][i].key = o.key
             /\ \A x \in o.result.revisions :
                   /\ x[2] <= CurrentRevision(db, o.result.job, x[1])
                   /\ db.facts[o.result.job][x[1]][x[2]].evidence = o.key
             /\ o.result.outcome = "FACT_REVISION_CONFLICT" => o.result.revisions = {}
      BY <2>1 DEF Reported, CurrentRevision
    <2> QED
      BY <2>2, <2>3 DEF FactsAnswerForEvidence
  <1> QED
    BY <1>1, InvAlways, PTL

(***************************************************************************)
(* Every operation, by whatever path it comes, advances the source         *)
(* revision by one exactly when it changes what M2 would be handed.        *)
(***************************************************************************)
THEOREM RevisionAlwaysIdentifiesContent ==
    Spec => RevisionIdentifiesContent
  <1>1. ASSUME Inv, [Next]_vars, NEW j \in Jobs
        PROVE  ContentStep(j)
    <2> SUFFICES ASSUME Exists(db, j)
                 PROVE  ContentStep(j)
      BY DEF ContentStep
    <2>1. Grows(db, db') /\ DbOK(db)
      BY <1>1, Step DEF Progress, Inv, Sound
    <2>2. Same(db, db', j) \/ Advanced(db, db', j)
      BY <2>1 DEF Grows, Exists
    <2>3. /\ Projection(j) = ProjectionOf(db, j) /\ Projection(j)' = ProjectionOf(db', j)
      BY DEF Projection, ProjectionOf, CurrentFacts, CurrentRevision
    <2> DEFINE x == ProjectionOf(db, j)
               y == ProjectionOf(db', j)
    <2>4. db.job[j].rev \in Nat
      BY <2>1 DEF DbOK, JobRows
    <2>5. CASE Same(db, db', j)
      <3>1. x = y /\ db'.job[j].rev = db.job[j].rev
        BY <2>5, ProjectionStays DEF Same
      <3> HIDE DEF x, y
      <3> QED
        BY <2>3, <2>4, <3>1 DEF ContentStep, x, y
    <2>6. CASE Advanced(db, db', j)
      <3>1. db'.job[j].rev = db.job[j].rev + 1
        BY <2>6 DEF Advanced
      <3>2. x.activity # y.activity \/ x.facts # y.facts
        BY <2>1, <2>6, ProjectionMoves DEF Grows
      <3> QED
        BY <2>3, <3>1, <3>2 DEF ContentStep
    <2> QED
      BY <2>2, <2>5, <2>6
  <1>2. Inv /\ [Next]_vars => [\A j \in Jobs : ContentStep(j)]_vars
    BY <1>1
  <1> QED
    BY <1>2, InvAlways, PTL DEF Spec, RevisionIdentifiesContent

(***************************************************************************)
(* Every publication is the state of its revision, a job's publications    *)
(* are made in the order of their revisions, and no publisher meets other  *)
(* content under the revision it read (publish_handoff).                   *)
(***************************************************************************)
THEOREM AlwaysPublishedAsRead ==
    Spec => []PublishedAsRead
  <1>1. Inv => PublishedAsRead
    <2> SUFFICES ASSUME Inv
                 PROVE  PublishedAsRead
      OBVIOUS
    <2>1. HandoffType /\ Faithful /\ OneContent /\ InOrder
      BY DEF Inv
    <2>2. \A x \in Range(published) : x.rev = db.job[x.job].rev => x = Projection(x.job)
      BY <2>1, ProjectionIs DEF Handed, Faithful, HandoffOK
    <2>3. ASSUME NEW p \in Publishers, draft[p] # None
          PROVE  ~ HandoffConflict(draft[p])
      <3>1. draft[p] \in Handed
        BY <2>1, <2>3 DEF Handed, HandoffType
      <3>2. \A y \in PublishedAt(draft[p].job, draft[p].rev) : y = draft[p]
        BY <2>1, <3>1 DEF OneContent, PublishedAt, Handed
      <3> QED
        BY <3>2 DEF HandoffConflict
    <2> QED
      BY <2>1, <2>2, <2>3 DEF PublishedAsRead, InOrder
  <1> QED
    BY <1>1, InvAlways, PTL

=============================================================================
