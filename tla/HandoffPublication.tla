------------------------- MODULE HandoffPublication -------------------------
(***************************************************************************)
(* The M1 to M2 boundary (src/src/werkcrew_ai/intake/publication.py) over  *)
(* the rows of IntakeLifecycle.  A publisher reads the current projection  *)
(* in one transaction and publishes it in a later one; other operations    *)
(* come in between.                                                        *)
(***************************************************************************)
EXTENDS IntakeLifecycle, Functions

CONSTANTS
    Publishers,
    MaxPublications   \* bound of the model on the rows published

ASSUME PublicationAssumption == MaxPublications \in Nat

VARIABLES
    draft,      \* the projection a publisher holds, or None
    published   \* the rows of m1_handoff_publications, as inserted

pvars == <<draft, published>>
vars == <<db, returned, draft, published>>

(* _projection_from_connection; M1HandoffFact carries revision, content    *)
(* and evidence of the newest row of each fact.                            *)
Projection(j) ==
    [job |-> j, rev |-> db.job[j].rev, activity |-> db.job[j].activity,
     facts |-> [n \in DOMAIN CurrentFacts(db, j) |->
                   [revision |-> CurrentRevision(db, j, n),
                    row      |-> CurrentFacts(db, j)[n]]]]

(* current_projection *)
CurrentProjection(p, j) ==
    /\ Exists(db, j)
    /\ draft' = [draft EXCEPT ![p] = Projection(j)]
    /\ UNCHANGED <<db, returned, published>>

PublishedAt(j, rev) == {x \in Range(published) : x.job = j /\ x.rev = rev}

(* Mutant: a projection is taken at its word.                              *)
PublishHandoffUnchecked(p) ==
    /\ draft[p] # None
    /\ Len(published) < MaxPublications
    /\ PublishedAt(draft[p].job, draft[p].rev) = {}
    /\ published' = Append(published, draft[p])
    /\ UNCHANGED <<db, returned, draft>>

(* publish_handoff: a row of the revision is returned, or raises a conflict *)
(* if its content is another; a new row must be the current projection or  *)
(* the call raises a mismatch.  Only the new row changes anything.         *)
PublishHandoff(p) ==
    /\ draft[p] # None
    /\ Len(published) < MaxPublications
    /\ PublishedAt(draft[p].job, draft[p].rev) = {}
    /\ draft[p] = Projection(draft[p].job)
    /\ published' = Append(published, draft[p])
    /\ UNCHANGED <<db, returned, draft>>

(* The conflict that publish_handoff raises for the draft it is given.     *)
HandoffConflict(x) ==
    PublishedAt(x.job, x.rev) # {} /\ x \notin PublishedAt(x.job, x.rev)

(* handoffs_for_job lists the publications of a job by source_revision.    *)
ListedBefore(x, y) == x.job = y.job /\ x.rev < y.rev

-----------------------------------------------------------------------------
Init ==
    /\ IntakeInit
    /\ draft = [p \in Publishers |-> None]
    /\ published = <<>>

Next ==
    \/ IntakeNext /\ UNCHANGED pvars
    \/ \E p \in Publishers, j \in Jobs : CurrentProjection(p, j)
    \/ \E p \in Publishers : PublishHandoff(p)

Spec == Init /\ [][Next]_vars

-----------------------------------------------------------------------------
(***************************************************************************)
(* A source revision identifies content: an operation that changes what M2 *)
(* would be handed advances the revision by one, and an operation that     *)
(* does not, leaves it.  This is what makes (job, source_revision) a key.  *)
(***************************************************************************)
ContentStep(j) ==
    Exists(db, j) =>
        LET before == [activity |-> Projection(j).activity, facts |-> Projection(j).facts]
            after  == [activity |-> Projection(j).activity', facts |-> Projection(j).facts']
        IN  db.job[j].rev' = db.job[j].rev + (IF before = after THEN 0 ELSE 1)

RevisionIdentifiesContent == [][\A j \in Jobs : ContentStep(j)]_vars

(***************************************************************************)
(* What is published is the state of its revision: a publication of the    *)
(* current revision shows the current rows, the publications of a job are  *)
(* made in the order in which they are listed, so that M2 never receives   *)
(* an older state after a newer one, and a publisher that publishes what   *)
(* it read may come too late (a mismatch) but never meets other content    *)
(* under its revision.                                                     *)
(***************************************************************************)
PublishedAsRead ==
    /\ \A x \in Range(published) :
          x.rev = db.job[x.job].rev => x = Projection(x.job)
    /\ \A i, k \in DOMAIN published :
          i < k /\ published[i].job = published[k].job => ListedBefore(published[i], published[k])
    /\ \A p \in Publishers : draft[p] # None => ~ HandoffConflict(draft[p])
=============================================================================
