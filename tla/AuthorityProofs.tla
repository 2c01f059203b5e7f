--------------------------- MODULE AuthorityProofs ---------------------------
(***************************************************************************)
(* Theorems about who may decide and what is released on whose word.       *)
(*                                                                         *)
(* The first part is about trusted principals and the ledger of human      *)
(* actions, for every set of company plans, workers, keys, references and  *)
(* scopes, and for every order of provisioning, recording and retrying.    *)
(*                                                                         *)
(* The second part is about the operational authority, for every schedule, *)
(* every list of candidates, every store a decision may start from and     *)
(* every number of edits: the merged working time of a set of items is the *)
(* number of units they cover; a cut that is current at the decision has   *)
(* the stores' own values; so what is released is authorised by the stores.*)
(*                                                                         *)
(* The third part follows an honest adaptor through a world that does not  *)
(* move: what it captures passes every check of the cut.                   *)
(***************************************************************************)
EXTENDS PolicyEvidence, AuthorityDecision, FiniteSetTheorems, NaturalsInduction,
        WellFoundedInduction, TLAPS

Principals ==
    [company : Companies, subject : Subjects, type : {"OWNER", "WORKER"},
     worker : Workers \cup {None}]

TypeOK ==
    /\ registry \in [revision : Nat, workers : SUBSET Workers]
    /\ roots \in [Companies -> Roots \cup {None}]
    /\ capture \in [Companies -> Keys \cup {None}]
    /\ principals \subseteq Principals
    /\ profiles \subseteq Companies
    /\ said \in Seq(evidence)
    /\ IsFiniteSet(evidence)

(* A root is bound to workers the registry still has and has one owner; a  *)
(* principal belongs to a root and is bound as it was provisioned.         *)
Rooted ==
    /\ \A c \in Companies : roots[c] # None =>
          /\ roots[c].workers \subseteq registry.workers
          /\ { p \in principals : p.company = c /\ p.type = "OWNER" } = {OwnerPrincipal(c, roots[c].owner)}
    /\ \A p \in principals :
          /\ roots[p.company] # None
          /\ p.type = "WORKER" => p.worker \in roots[p.company].workers

Provisioned ==
    /\ \A c \in Companies : capture[c] # None \/ c \in profiles => roots[c] # None
    /\ \A i \in issuances : i.company \in profiles /\ i.owner \in principals

(* Evidence names a root, a principal and the key of the capture root, and *)
(* the principal was entitled to say it.                                   *)
Backed ==
    \A e \in evidence :
        /\ e.company \in Companies /\ e.principal \in principals
        /\ roots[e.company] # None
        /\ e.key \in Keys /\ capture[e.company] = e.key
        /\ IF e.kind = "OWNER_APPROVAL" THEN ApproverIsOwner(e) ELSE ConsenterIsWorker(e)

(* A capture reference is consumed by one piece of evidence.               *)
Consumption ==
    /\ consumptions = { ConsumptionOf(e) : e \in evidence }
    /\ \A e, f \in evidence : e.key = f.key /\ e.reference = f.reference => e = f

LineageIn(es, q) == { e \in es : InLineage(q, e) }

Size(es, q) == Cardinality(LineageIn(es, q))

(* Every lineage is numbered from 1 to its size in the order in which its  *)
(* parts were said, each naming the one before it.                         *)
LineageOK(es, s, e) ==
    /\ e.seq \in 1 .. Size(es, e)
    /\ e.seq = 1 => e.previous = None
    /\ e.seq # 1 => e.previous \in LineageIn(es, e) /\ e.previous.seq = e.seq - 1
    /\ \A f \in LineageIn(es, e) : f.seq = e.seq => f = e
    /\ \E i \in DOMAIN s : InLineage(e, s[i]) /\ s[i].seq = Size(es, e)
    /\ \A i, j \in DOMAIN s : InLineage(e, s[i]) /\ InLineage(e, s[j]) /\ i < j => s[i].seq < s[j].seq

Lineages == \A e \in evidence : e.kind = "WORKER_CONSENT" => LineageOK(evidence, said, e)

(* An answer is the evidence stored for the request.                       *)
Answered ==
    \A a \in answers :
        /\ a.evidence \in evidence
        /\ a.evidence.value = a.request.value /\ a.evidence.scope = a.request.scope
        /\ a.evidence.key = a.request.key /\ a.evidence.reference = a.request.reference

Inv == TypeOK /\ Rooted /\ Provisioned /\ Backed /\ Consumption /\ Lineages /\ Answered

-----------------------------------------------------------------------------
(* Roots and principals.                                                   *)

(* A provisioned root loads, whatever the registry has become, and so does *)
(* every principal.                                                        *)
LEMMA AuthorityLoads ==
    ASSUME TypeOK, Rooted
    PROVE  /\ \A c \in Companies : roots[c] # None => RootLoads(c)
           /\ \A p \in principals : PrincipalLoads(p)
  <1>1. \A p \in principals : PrincipalBinding(p)
    <2> SUFFICES ASSUME NEW p \in principals
                 PROVE  PrincipalBinding(p)
      OBVIOUS
    <2> DEFINE c == p.company
    <2>1. p \in Principals /\ c \in Companies /\ roots[c] # None
      BY DEF TypeOK, Rooted, Principals
    <2>2. CASE p.type = "OWNER"
      <3>1. p \in { x \in principals : x.company = c /\ x.type = "OWNER" }
        BY <2>2
      <3>2. p = OwnerPrincipal(c, roots[c].owner)
        BY <2>1, <3>1 DEF Rooted
      <3> QED
        BY <2>2, <3>2 DEF PrincipalBinding, OwnerPrincipal
    <2>3. CASE p.type = "WORKER"
      BY <2>1, <2>3 DEF Rooted, PrincipalBinding
    <2> QED
      BY <2>1, <2>2, <2>3 DEF Principals
  <1>2. ASSUME NEW c \in Companies, roots[c] # None
        PROVE  RootLoads(c)
    <2> DEFINE owners == { p \in principals : p.company = c /\ p.type = "OWNER" }
    <2>1. owners = {OwnerPrincipal(c, roots[c].owner)}
      BY <1>2 DEF Rooted
    <2>2. Cardinality(owners) = 1
      BY <2>1, FS_Singleton
    <2>3. RegistryBinding(roots[c])
      BY <1>2 DEF Rooted, RegistryBinding
    <2> QED
      BY <1>1, <1>2, <2>2, <2>3 DEF RootLoads
  <1> QED
    BY <1>1, <1>2 DEF PrincipalLoads, Rooted, TypeOK, Principals

(* What deployment has provisioned stays as it is. *)
Grown ==
    /\ principals \subseteq principals'
    /\ \A c \in Companies : roots[c] # None => roots'[c] = roots[c]
    /\ \A c \in Companies : capture[c] # None => capture'[c] = capture[c]

AuthorityKept ==
    /\ Grown /\ Rooted' /\ Provisioned'
    /\ registry' \in [revision : Nat, workers : SUBSET Workers]
    /\ roots' \in [Companies -> Roots \cup {None}]
    /\ capture' \in [Companies -> Keys \cup {None}]
    /\ principals' \subseteq Principals
    /\ profiles' \subseteq Companies

(* The registry only gains workers. *)
LEMMA RegistryStep ==
    ASSUME Inv, NEW w \in Workers, RegistryAdvances(w)
    PROVE  AuthorityKept
  <1>1. /\ registry' = [revision |-> registry.revision + 1, workers |-> registry.workers \cup {w}]
        /\ UNCHANGED <<roots, principals, capture, profiles, issuances>>
    BY DEF RegistryAdvances
  <1>2. registry.workers \subseteq registry'.workers
    BY <1>1
  <1>3. registry' \in [revision : Nat, workers : SUBSET Workers]
    BY <1>1 DEF Inv, TypeOK
  <1>4. Rooted'
    BY <1>1, <1>2 DEF Inv, Rooted
  <1> QED
    BY <1>1, <1>3, <1>4 DEF Inv, TypeOK, Provisioned, AuthorityKept, Grown

(* provision_company_authority writes a root where there was none, with    *)
(* its only owner.                                                         *)
LEMMA RootStep ==
    ASSUME Inv, NEW c \in Companies, NEW x \in Subjects, ProvisionCompanyAuthority(c, x)
    PROVE  AuthorityKept
  <1> DEFINE r == NewRoot(x)
             o == OwnerPrincipal(c, x)
  <1>1. /\ roots[c] = None
        /\ roots' = [roots EXCEPT ![c] = r]
        /\ principals' = principals \cup {o}
        /\ UNCHANGED <<registry, capture, profiles, issuances>>
    BY DEF ProvisionCompanyAuthority
  <1>2. r \in Roots /\ r # None /\ r.workers = registry.workers /\ r.owner = x
    BY NoneAssumption DEF NewRoot, Roots, Inv, TypeOK
  <1>3. o \in Principals /\ o.company = c /\ o.type = "OWNER" /\ o = OwnerPrincipal(c, r.owner)
    BY <1>2 DEF OwnerPrincipal, Principals
  <1> HIDE DEF r, o
  <1>4. \A p \in principals : p.company # c
    BY <1>1 DEF Inv, Rooted
  <1>5. \A d \in Companies : roots'[d] = IF d = c THEN r ELSE roots[d]
    BY <1>1 DEF Inv, TypeOK
  <1>6. Rooted'
    <2>1. ASSUME NEW d \in Companies, roots'[d] # None
          PROVE  /\ roots'[d].workers \subseteq registry'.workers
                 /\ { p \in principals' : p.company = d /\ p.type = "OWNER" }
                      = {OwnerPrincipal(d, roots'[d].owner)}
      <3>1. CASE d = c
        <4>1. { p \in principals' : p.company = d /\ p.type = "OWNER" } = {o}
          BY <1>1, <1>3, <1>4, <3>1
        <4> QED
          BY <1>1, <1>2, <1>3, <1>5, <3>1, <4>1
      <3>2. CASE d # c
        <4>1. { p \in principals' : p.company = d /\ p.type = "OWNER" }
                = { p \in principals : p.company = d /\ p.type = "OWNER" }
          BY <1>1, <1>3, <3>2
        <4> QED
          BY <1>1, <1>5, <2>1, <3>2, <4>1 DEF Inv, Rooted
      <3> QED
        BY <3>1, <3>2
    <2>2. ASSUME NEW p \in principals'
          PROVE  /\ roots'[p.company] # None
                 /\ p.type = "WORKER" => p.worker \in roots'[p.company].workers
      <3>1. CASE p = o
        BY <1>2, <1>3, <1>5, <3>1
      <3>2. CASE p \in principals
        <4>1. p.company \in Companies /\ p.company # c
          BY <1>4, <3>2 DEF Inv, TypeOK, Principals
        <4> QED
          BY <1>5, <3>2, <4>1 DEF Inv, Rooted
      <3> QED
        BY <1>1, <3>1, <3>2
    <2> QED
      BY <2>1, <2>2 DEF Rooted
  <1>7. Provisioned'
    BY <1>1, <1>2, <1>5 DEF Inv, Provisioned
  <1>8. roots' \in [Companies -> Roots \cup {None}]
    BY <1>1, <1>2 DEF Inv, TypeOK
  <1> QED
    BY <1>1, <1>3, <1>5, <1>6, <1>7, <1>8 DEF Inv, TypeOK, AuthorityKept, Grown

(* provision_worker_principal adds a worker of the root's registry. *)
LEMMA WorkerStep ==
    ASSUME Inv, NEW c \in Companies, NEW x \in Subjects, NEW w \in Workers,
           ProvisionWorkerPrincipal(c, x, w)
    PROVE  AuthorityKept
  <1> DEFINE n == WorkerPrincipal(c, x, w)
  <1>1. /\ roots[c] # None /\ w \in roots[c].workers
        /\ principals' = principals \cup {n}
        /\ UNCHANGED <<registry, roots, capture, profiles, issuances>>
    BY DEF ProvisionWorkerPrincipal, RootLoads
  <1>2. n \in Principals /\ n.company = c /\ n.type = "WORKER" /\ n.worker = w
    BY DEF WorkerPrincipal, Principals
  <1> HIDE DEF n
  <1>3. \A d : { p \in principals' : p.company = d /\ p.type = "OWNER" }
             = { p \in principals : p.company = d /\ p.type = "OWNER" }
    BY <1>1, <1>2
  <1>4. Rooted'
    BY <1>1, <1>2, <1>3 DEF Inv, Rooted
  <1> QED
    BY <1>1, <1>2, <1>4 DEF Inv, TypeOK, Provisioned, AuthorityKept, Grown

(* Capture roots, profiles and issuances are written once, over a root. *)
LEMMA DeploymentSteps ==
    ASSUME Inv, NEW c \in Companies,
           \/ RecordCompanyPolicyProfile(c)
           \/ \E k \in Keys : ProvisionCapture(k, c)
           \/ \E p \in principals : IssueCompanyPolicyProfile(c, p)
    PROVE  AuthorityKept
  <1>1. UNCHANGED <<registry, roots, principals>> /\ roots[c] # None
    BY DEF RecordCompanyPolicyProfile, ProvisionCapture, IssueCompanyPolicyProfile, RootLoads
  <1>2. Rooted'
    BY <1>1 DEF Inv, Rooted
  <1>3. CASE RecordCompanyPolicyProfile(c)
    BY <1>1, <1>2, <1>3 DEF RecordCompanyPolicyProfile, Inv, TypeOK, Provisioned, AuthorityKept, Grown
  <1>4. CASE \E k \in Keys : ProvisionCapture(k, c)
    <2>1. PICK k \in Keys : ProvisionCapture(k, c)
      BY <1>4
    <2>2. capture[c] = None /\ capture' = [capture EXCEPT ![c] = k] /\ UNCHANGED <<profiles, issuances>>
      BY <2>1 DEF ProvisionCapture
    <2>3. \A d \in Companies : capture'[d] = IF d = c THEN k ELSE capture[d]
      BY <2>2 DEF Inv, TypeOK
    <2>4. capture' \in [Companies -> Keys \cup {None}]
      BY <2>2 DEF Inv, TypeOK
    <2>5. Provisioned'
      BY <1>1, <2>2, <2>3 DEF Inv, Provisioned
    <2>6. Grown
      BY <1>1, <2>2, <2>3 DEF Grown
    <2> QED
      BY <1>1, <1>2, <2>2, <2>4, <2>5, <2>6 DEF Inv, TypeOK, AuthorityKept
  <1>5. CASE \E p \in principals : IssueCompanyPolicyProfile(c, p)
    <2>1. PICK p \in principals : IssueCompanyPolicyProfile(c, p)
      BY <1>5
    <2> DEFINE i == [company |-> c, owner |-> p]
    <2>2. i.company \in profiles /\ i.owner \in principals
      BY <2>1 DEF IssueCompanyPolicyProfile
    <2>3. issuances' = issuances \cup {i} /\ UNCHANGED <<capture, profiles>>
      BY <2>1 DEF IssueCompanyPolicyProfile
    <2> HIDE DEF i
    <2>4. Provisioned'
      BY <1>1, <2>2, <2>3 DEF Inv, Provisioned
    <2> QED
      BY <1>1, <1>2, <2>3, <2>4 DEF Inv, TypeOK, AuthorityKept, Grown
  <1> QED
    BY <1>3, <1>4, <1>5

(* Deployment does not touch the ledger, and what backs the evidence stays.*)
LEMMA LedgerKept ==
    ASSUME Inv, AuthorityKept, UNCHANGED <<consumptions, evidence, said, answers>>
    PROVE  Inv'
  <1>1. Backed'
    <2> SUFFICES ASSUME NEW e \in evidence
                 PROVE  /\ e.company \in Companies /\ e.principal \in principals'
                        /\ roots'[e.company] # None
                        /\ e.key \in Keys /\ capture'[e.company] = e.key
                        /\ IF e.kind = "OWNER_APPROVAL" THEN ApproverIsOwner(e)' ELSE ConsenterIsWorker(e)'
      BY DEF Backed
    <2>1. /\ e.company \in Companies /\ e.principal \in principals /\ roots[e.company] # None
          /\ e.key \in Keys /\ capture[e.company] = e.key /\ e.key # None
          /\ IF e.kind = "OWNER_APPROVAL" THEN ApproverIsOwner(e) ELSE ConsenterIsWorker(e)
      BY NoneAssumption DEF Inv, Backed
    <2>2. roots'[e.company] = roots[e.company] /\ capture'[e.company] = capture[e.company]
          /\ e.principal \in principals'
      BY <2>1 DEF AuthorityKept, Grown
    <2> QED
      BY <2>1, <2>2 DEF ApproverIsOwner, ConsenterIsWorker
  <1>2. Consumption' /\ Lineages' /\ Answered'
    BY DEF Inv, Consumption, Lineages, Answered
  <1>3. TypeOK'
    BY DEF Inv, TypeOK, AuthorityKept
  <1> QED
    BY <1>1, <1>2, <1>3 DEF Inv, AuthorityKept

-----------------------------------------------------------------------------
(* Lineages.                                                               *)

(* A lineage is one worker's consents about one scope: all of its parts    *)
(* have the same lineage.                                                  *)
LEMMA SameLineage ==
    ASSUME NEW es, NEW q, NEW e, InLineage(q, e)
    PROVE  LineageIn(es, e) = LineageIn(es, q) /\ \A f : InLineage(e, f) <=> InLineage(q, f)
  BY DEF InLineage, LineageIn

NumberedLineages(es, s) == \A e \in es : e.kind = "WORKER_CONSENT" => LineageOK(es, s, e)

(* The last of s that belongs to the lineage of q. *)
LastOf(s, q) ==
    LET mine == { i \in DOMAIN s : InLineage(q, s[i]) }
    IN  s[CHOOSE i \in mine : \A j \in mine : j <= i]

(* The head of a lineage is its part with the highest number, which is the *)
(* last one said.                                                          *)
LEMMA HeadIsLast ==
    ASSUME NEW es, NEW s \in Seq(es), NumberedLineages(es, s), IsFiniteSet(es),
           NEW q, LineageIn(es, q) # {}
    PROVE  /\ HeadOf(LineageIn(es, q)) \in LineageIn(es, q)
           /\ HeadOf(LineageIn(es, q)).seq = Size(es, q)
           /\ HeadOf(LineageIn(es, q)) = LastOf(s, q)
  <1> DEFINE L == LineageIn(es, q)
             mine == { i \in DOMAIN s : InLineage(q, s[i]) }
             n == Size(es, q)
             h == HeadOf(L)
             last == CHOOSE i \in mine : \A j \in mine : j <= i
  <1>1. \A f \in L : f \in es /\ f.kind = "WORKER_CONSENT" /\ InLineage(q, f)
    BY DEF LineageIn, InLineage
  <1>2. \A f \in L : LineageIn(es, f) = L /\ \A g : InLineage(f, g) <=> InLineage(q, g)
    BY <1>1, SameLineage
  <1>3. PICK f \in L : TRUE
    OBVIOUS
  <1>4. \A g \in L : Size(es, g) = n
    BY <1>2 DEF Size
  <1>5. n \in Nat
    <2>1. IsFiniteSet(L)
      BY FS_Subset DEF LineageIn
    <2> QED
      BY <2>1, FS_CardinalityType DEF Size
  <1>6. \A g \in L : LineageOK(es, s, g)
    BY <1>1 DEF NumberedLineages
  <1>7. \A g \in L : g.seq \in 1 .. n
    BY <1>4, <1>6 DEF LineageOK
  <1>8. PICK i \in DOMAIN s : InLineage(q, s[i]) /\ s[i].seq = n
    BY <1>2, <1>3, <1>4, <1>6 DEF LineageOK
  <1>9. s[i] \in L
    BY <1>8 DEF LineageIn
  <1> HIDE DEF L, n
  <1>10. \E e \in L : \A g \in L : g.seq <= e.seq
    BY <1>5, <1>7, <1>8, <1>9
  <1>11. h = CHOOSE e \in L : \A g \in L : g.seq <= e.seq
    BY <1>9 DEF HeadOf
  <1>12. h \in L /\ \A g \in L : g.seq <= h.seq
    BY <1>10, <1>11
  <1>13. h.seq = n
    BY <1>5, <1>7, <1>8, <1>9, <1>12
  <1>14. h = s[i]
    <2>1. s[i] \in LineageIn(es, h) /\ s[i].seq = h.seq
      BY <1>2, <1>8, <1>9, <1>12, <1>13
    <2> QED
      BY <1>6, <1>12, <2>1 DEF LineageOK
  <1>15. \A j \in mine : s[j] \in L
    BY DEF L, LineageIn
  <1>16. \A j \in mine : j <= i
    <2> SUFFICES ASSUME NEW j \in mine, j > i
                 PROVE  FALSE
      OBVIOUS
    <2>1. InLineage(f, s[i]) /\ InLineage(f, s[j])
      BY <1>2, <1>3, <1>8
    <2>2. s[i].seq < s[j].seq
      BY <1>3, <1>6, <2>1 DEF LineageOK
    <2> QED
      BY <1>5, <1>7, <1>8, <1>15, <2>2
  <1>17. i \in mine
    BY <1>8
  <1>18. last \in mine /\ \A j \in mine : j <= last
    BY <1>16, <1>17
  <1>19. last = i
    BY <1>16, <1>17, <1>18
  <1>20. h = s[last]
    BY <1>14, <1>19
  <1>21. LastOf(s, q) = s[last]
    BY Zenon DEF LastOf
  <1> QED
    BY <1>12, <1>13, <1>20, <1>21 DEF L, n

(* A new action takes the next number of its lineage, names the head and   *)
(* leaves every lineage numbered.                                          *)
LEMMA LineageExtended ==
    ASSUME NEW es, IsFiniteSet(es), NEW s \in Seq(es), NumberedLineages(es, s),
           NEW e, e \notin es,
           e.kind = "WORKER_CONSENT" =>
              e.seq = Size(es, e) + 1 /\ e.previous = HeadOf(LineageIn(es, e))
    PROVE  NumberedLineages(es \cup {e}, Append(s, e))
  <1> DEFINE fs == es \cup {e}
             t == Append(s, e)
  <1>1. \A i \in DOMAIN s : t[i] = s[i] /\ s[i] \in es
    OBVIOUS
  <1>2. DOMAIN t = DOMAIN s \cup {Len(s) + 1} /\ t[Len(s) + 1] = e /\ Len(s) \in Nat /\ DOMAIN s = 1 .. Len(s)
    OBVIOUS
  <1> SUFFICES ASSUME NEW f \in fs, f.kind = "WORKER_CONSENT"
               PROVE  LineageOK(fs, t, f)
    BY DEF NumberedLineages
  <1>3. CASE ~ InLineage(f, e)
    <2>1. f \in es
      BY <1>3 DEF InLineage
    <2>2. LineageIn(fs, f) = LineageIn(es, f)
      BY <1>3 DEF LineageIn
    <2>3. Size(fs, f) = Size(es, f)
      BY <2>2 DEF Size
    <2>4. LineageOK(es, s, f)
      BY <2>1 DEF NumberedLineages
    <2> HIDE DEF fs, t
    <2>5. \E i \in DOMAIN t : InLineage(f, t[i]) /\ t[i].seq = Size(fs, f)
      BY <1>1, <1>2, <2>3, <2>4 DEF LineageOK
    <2>6. \A i, j \in DOMAIN t : InLineage(f, t[i]) /\ InLineage(f, t[j]) /\ i < j => t[i].seq < t[j].seq
      BY <1>1, <1>2, <1>3, <2>4 DEF LineageOK
    <2> QED
      BY <2>2, <2>3, <2>4, <2>5, <2>6 DEF LineageOK
  <1>4. CASE InLineage(f, e)
    <2> DEFINE n == Size(es, e)
               L == LineageIn(es, e)
    <2>1. e.kind = "WORKER_CONSENT" /\ e.seq = n + 1 /\ e.previous = HeadOf(L)
      BY <1>4 DEF InLineage
    <2>2. InLineage(e, f) /\ \A g : InLineage(f, g) <=> InLineage(e, g)
      BY <1>4 DEF InLineage
    <2>3. LineageIn(fs, f) = L \cup {e} /\ e \notin L
      BY <1>4, <2>2 DEF LineageIn
    <2>4. IsFiniteSet(L)
      BY FS_Subset DEF LineageIn
    <2>5. n \in Nat /\ Size(fs, f) = n + 1
      BY <2>3, <2>4, FS_CardinalityType, FS_AddElement DEF Size
    <2>6. \A g \in L : g.kind = "WORKER_CONSENT" /\ InLineage(e, g) /\ LineageOK(es, s, g)
      BY DEF LineageIn, InLineage, NumberedLineages
    <2>7. \A g \in L : LineageIn(es, g) = L /\ Size(es, g) = n
      BY <2>6, SameLineage DEF Size
    <2>8. \A g \in L : g.seq \in 1 .. n
      BY <2>6, <2>7 DEF LineageOK
    <2>9. L # {} => HeadOf(L) \in L /\ HeadOf(L).seq = n
      BY HeadIsLast
    <2>10. L = {} => n = 0 /\ HeadOf(L) = None
      BY FS_EmptySet DEF HeadOf, Size
    <2>11. L # {} => n # 0
      BY <2>4, FS_EmptySet DEF Size
    <2>12. f = e \/ f \in L
      BY <2>2 DEF LineageIn
    <2> HIDE DEF n, L, fs, t
    <2>13. f.seq \in 1 .. n + 1
      BY <2>1, <2>5, <2>8, <2>12
    <2>14. /\ f.seq = 1 => f.previous = None
           /\ f.seq # 1 => f.previous \in L \cup {e} /\ f.previous.seq = f.seq - 1
      <3>1. CASE f = e
        BY <2>1, <2>5, <2>9, <2>10, <2>11, <3>1
      <3>2. CASE f \in L
        BY <2>6, <2>7, <3>2 DEF LineageOK
      <3> QED
        BY <2>12, <3>1, <3>2
    <2>15. \A g \in L \cup {e} : g.seq = f.seq => g = f
      <3>1. ASSUME NEW g \in L, f \in L, g.seq = f.seq
            PROVE  g = f
        BY <2>6, <2>7, <3>1 DEF LineageOK
      <3> QED
        BY <2>1, <2>5, <2>8, <2>12, <3>1
    <2>16. \E i \in DOMAIN t : InLineage(f, t[i]) /\ t[i].seq = n + 1
      BY <1>2, <1>4, <2>1
    <2>17. ASSUME NEW i \in DOMAIN t, NEW j \in DOMAIN t,
                  InLineage(f, t[i]), InLineage(f, t[j]), i < j
           PROVE  t[i].seq < t[j].seq
      <3>1. i \in DOMAIN s /\ s[i] \in L
        BY <1>1, <1>2, <2>2, <2>17 DEF L, LineageIn
      <3>2. CASE j \in DOMAIN s
        <4>1. s[j] \in L
          BY <1>1, <2>2, <2>17, <3>2 DEF L, LineageIn
        <4>2. InLineage(s[i], s[i]) /\ InLineage(s[i], s[j])
          BY <2>6, <3>1, <4>1 DEF InLineage
        <4> QED
          BY <1>1, <2>6, <2>17, <3>1, <3>2, <4>2 DEF LineageOK
      <3>3. CASE j = Len(s) + 1
        BY <1>1, <1>2, <2>1, <2>5, <2>8, <3>1, <3>3
      <3> QED
        BY <1>2, <3>2, <3>3
    <2> QED
      BY <2>3, <2>5, <2>13, <2>14, <2>15, <2>16, <2>17 DEF LineageOK
  <1> QED
    BY <1>3, <1>4

-----------------------------------------------------------------------------
(* Recording.                                                              *)

(* record_owner_approval and record_worker_consent: new evidence consumes  *)
(* a reference nobody used, and is backed by what was checked.             *)
LEMMA RecordStep ==
    ASSUME Inv, NEW q \in Requests, RecordNew(q)
    PROVE  Inv'
  <1> DEFINE e == Signed(q)
  <1>1. /\ Admitted(q) /\ Consumed(q) = {}
        /\ consumptions' = consumptions \cup {ConsumptionOf(e)}
        /\ evidence' = evidence \cup {e}
        /\ said' = Append(said, e)
        /\ answers' = answers \cup {[request |-> q, evidence |-> e]}
        /\ UNCHANGED <<registry, roots, principals, capture, profiles, issuances>>
    BY DEF RecordNew, Answer, authority
  <1>2. /\ e.kind = q.kind /\ e.value = q.value /\ e.company = q.company
        /\ e.principal = q.principal /\ e.scope = q.scope /\ e.key = q.key
        /\ e.reference = q.reference
    BY DEF Signed
  <1>3. e.kind = "WORKER_CONSENT" =>
            e.seq = Size(evidence, e) + 1 /\ e.previous = HeadOf(LineageIn(evidence, e))
    <2>1. ASSUME e.kind = "WORKER_CONSENT"
          PROVE  e.seq = Cardinality(Lineage(q)) + 1 /\ e.previous = HeadOf(Lineage(q))
      BY <1>2, <2>1 DEF Signed
    <2>2. Lineage(q) = LineageIn(evidence, e)
      <3> HIDE DEF e
      <3> QED
        BY <1>2 DEF Lineage, LineageIn, InLineage
    <2> QED
      BY <2>1, <2>2 DEF Size
  <1> HIDE DEF e
  <1>4. \A f \in evidence : ~ (f.key = e.key /\ f.reference = e.reference)
    <2>1. \A f \in evidence : ConsumptionOf(f) \in consumptions
      BY DEF Inv, Consumption
    <2>2. \A f : ConsumptionOf(f).key = f.key /\ ConsumptionOf(f).reference = f.reference
      BY DEF ConsumptionOf
    <2> QED
      BY <1>1, <1>2, <2>1, <2>2 DEF Consumed
  <1>5. e \notin evidence
    BY <1>4
  <1>6. TypeOK'
    <2>1. IsFiniteSet(evidence')
      BY <1>1, FS_AddElement DEF Inv, TypeOK
    <2>2. said' \in Seq(evidence')
      <3>1. said \in Seq(evidence')
        BY <1>1 DEF Inv, TypeOK
      <3> QED
        BY <1>1, <3>1
    <2> QED
      BY <1>1, <2>1, <2>2 DEF Inv, TypeOK
  <1>7. Lineages'
    <2>1. NumberedLineages(evidence, said) /\ IsFiniteSet(evidence) /\ said \in Seq(evidence)
      BY DEF Inv, Lineages, NumberedLineages, TypeOK
    <2>2. NumberedLineages(evidence \cup {e}, Append(said, e))
      BY <1>3, <1>5, <2>1, LineageExtended
    <2> QED
      BY <1>1, <2>2 DEF Lineages, NumberedLineages
  <1>8. Backed'
    <2>1. q.company \in Companies /\ q.principal \in principals /\ q.key \in Keys
      BY DEF Requests
    <2>2. /\ roots[q.company] # None /\ capture[q.company] = q.key
          /\ IF q.kind = "OWNER_APPROVAL" THEN ApproverIsOwner(q) ELSE ConsenterIsWorker(q)
      BY <1>1 DEF Admitted, RootLoads
    <2>3. IF e.kind = "OWNER_APPROVAL" THEN ApproverIsOwner(e) ELSE ConsenterIsWorker(e)
      BY <1>2, <2>2 DEF ApproverIsOwner, ConsenterIsWorker
    <2> QED
      BY <1>1, <1>2, <2>1, <2>2, <2>3 DEF Inv, Backed, ApproverIsOwner, ConsenterIsWorker
  <1>9. Consumption'
    BY <1>1, <1>4 DEF Inv, Consumption
  <1>10. Answered'
    <2> DEFINE a == [request |-> q, evidence |-> e]
    <2>1. a.request = q /\ a.evidence = e /\ answers' = answers \cup {a}
      BY <1>1
    <2> HIDE DEF a
    <2> QED
      BY <1>1, <1>2, <2>1 DEF Inv, Answered
  <1>11. Rooted' /\ Provisioned'
    BY <1>1 DEF Inv, Rooted, Provisioned
  <1> QED
    BY <1>6, <1>7, <1>8, <1>9, <1>10, <1>11 DEF Inv

(* An exact retry only answers, with the evidence its reference consumed.  *)
LEMMA ReplayStep ==
    ASSUME Inv, NEW q \in Requests, RecordReplay(q)
    PROVE  Inv'
  <1>1. UNCHANGED <<registry, roots, principals, capture, profiles, issuances,
                    consumptions, evidence, said>>
    BY DEF RecordReplay, authority
  <1>2. PICK u \in Consumed(q) : /\ SameAction(q, u.evidence)
                                 /\ answers' = answers \cup {[request |-> q, evidence |-> u.evidence]}
    BY DEF RecordReplay, Answer
  <1>3. u \in consumptions /\ u.key = q.key /\ u.reference = q.reference
    BY DEF Consumed
  <1>4. PICK e \in evidence : u = ConsumptionOf(e)
    BY <1>3 DEF Inv, Consumption
  <1>5. u.evidence = e /\ e.key = q.key /\ e.reference = q.reference
    BY <1>3, <1>4 DEF ConsumptionOf
  <1>6. e.value = q.value /\ e.scope = q.scope
    BY <1>2, <1>5 DEF SameAction
  <1>7. Answered'
    <2> DEFINE a == [request |-> q, evidence |-> e]
    <2>1. a.request = q /\ a.evidence = e /\ answers' = answers \cup {a}
      BY <1>2, <1>5
    <2> HIDE DEF a
    <2> QED
      BY <1>1, <1>5, <1>6, <2>1 DEF Inv, Answered
  <1>8. TypeOK' /\ Rooted' /\ Provisioned' /\ Consumption' /\ Lineages'
    BY <1>1 DEF Inv, TypeOK, Rooted, Provisioned, Consumption, Lineages
  <1>9. Backed'
    BY <1>1 DEF Inv, Backed, ApproverIsOwner, ConsenterIsWorker
  <1> QED
    BY <1>7, <1>8, <1>9 DEF Inv

-----------------------------------------------------------------------------
(* The theorems.                                                           *)

(* Nothing is provisioned and nothing is recorded at the start. *)
LEMMA InitInv == PolicyInit => Inv
  <1> SUFFICES ASSUME PolicyInit
               PROVE  Inv
    OBVIOUS
  <1>1. TypeOK
    BY RegistryAssumption, FS_EmptySet DEF PolicyInit, TypeOK
  <1>2. Rooted /\ Provisioned
    BY DEF PolicyInit, Rooted, Provisioned
  <1>3. Backed /\ Consumption /\ Lineages /\ Answered
    BY DEF PolicyInit, Backed, Consumption, Lineages, Answered
  <1> QED
    BY <1>1, <1>2, <1>3 DEF Inv

(* Every step keeps the invariant. *)
LEMMA EveryStep == Inv /\ [PolicyNext]_vars => Inv'
  <1> SUFFICES ASSUME Inv, [PolicyNext]_vars
               PROVE  Inv'
    OBVIOUS
  <1>1. CASE UNCHANGED vars
    <2>1. AuthorityKept
      BY <1>1 DEF vars, AuthorityKept, Grown, Inv, TypeOK, Rooted, Provisioned
    <2> QED
      BY <1>1, <2>1, LedgerKept DEF vars
  <1>2. ASSUME NEW w \in Workers, RegistryAdvances(w)
        PROVE  Inv'
    BY <1>2, RegistryStep, LedgerKept DEF RegistryAdvances
  <1>3. ASSUME NEW c \in Companies,
               \/ RecordCompanyPolicyProfile(c)
               \/ \E k \in Keys : ProvisionCapture(k, c)
               \/ \E p \in principals : IssueCompanyPolicyProfile(c, p)
        PROVE  Inv'
    <2>1. AuthorityKept
      BY <1>3, DeploymentSteps
    <2>2. UNCHANGED <<consumptions, evidence, said, answers>>
      BY <1>3 DEF RecordCompanyPolicyProfile, ProvisionCapture, IssueCompanyPolicyProfile
    <2> QED
      BY <2>1, <2>2, LedgerKept
  <1>4. ASSUME NEW c \in Companies, NEW x \in Subjects, ProvisionCompanyAuthority(c, x)
        PROVE  Inv'
    BY <1>4, RootStep, LedgerKept DEF ProvisionCompanyAuthority
  <1>5. ASSUME NEW c \in Companies, NEW x \in Subjects, NEW w \in Workers,
               ProvisionWorkerPrincipal(c, x, w)
        PROVE  Inv'
    BY <1>5, WorkerStep, LedgerKept DEF ProvisionWorkerPrincipal
  <1>6. ASSUME NEW q \in Requests, RecordNew(q) \/ RecordReplay(q)
        PROVE  Inv'
    BY <1>6, RecordStep, ReplayStep
  <1> QED
    BY <1>1, <1>2, <1>3, <1>4, <1>5, <1>6 DEF PolicyNext

(* The inductive invariant holds in every reachable state. *)
LEMMA Invariance == PolicySpec => []Inv
  BY InitInv, EveryStep, PTL DEF PolicySpec

(* resolve_worker_consent accepts a consent exactly when it is the last    *)
(* thing its worker was recorded to say about the scope and it was given   *)
(* freely, for any number of retries and of other recorders' actions.      *)
THEOREM ConsentAlwaysLastWord == PolicySpec => []ConsentIsLastWord
  <1>1. Inv => ConsentIsLastWord
    <2> SUFFICES ASSUME Inv, NEW e \in evidence, e.kind = "WORKER_CONSENT"
                 PROVE  UsableConsent(e) <=> e = LastSaid(e) /\ e.value = "FREELY_GIVEN"
      BY DEF ConsentIsLastWord
    <2>1. Lineage(e) = LineageIn(evidence, e) /\ e \in LineageIn(evidence, e)
      BY DEF Lineage, LineageIn, InLineage
    <2>2. NumberedLineages(evidence, said) /\ IsFiniteSet(evidence) /\ said \in Seq(evidence)
      BY DEF Inv, Lineages, NumberedLineages, TypeOK
    <2>3. HeadOf(LineageIn(evidence, e)) = LastOf(said, e)
      BY <2>1, <2>2, HeadIsLast
    <2>4. LastOf(said, e) = LastSaid(e)
      BY Zenon DEF LastOf, LastSaid
    <2>5. HeadOf(Lineage(e)) = LastSaid(e)
      BY <2>1, <2>3, <2>4
    <2> QED
      BY <2>5 DEF UsableConsent
  <1> QED
    BY <1>1, Invariance, PTL

(* _find_capture_replay and the unique consumption: a capture reference    *)
(* stands for one human action, whoever retries it in whatever later state.*)
THEOREM AlwaysOneActionPerCapture == PolicySpec => []OneActionPerCapture
  <1>1. Inv => OneActionPerCapture
    BY DEF Inv, Answered, Consumption, OneActionPerCapture
  <1> QED
    BY <1>1, Invariance, PTL

(* Every stored approval and consent passes the checks its readers make,   *)
(* in every later state of roots, principals, registry and ledger, its     *)
(* lineage has no gap, and an issued policy stays issued.                  *)
THEOREM EvidenceAlwaysReadable == PolicySpec => []EvidenceStaysReadable
  <1>1. Inv => EvidenceStaysReadable
    <2> SUFFICES ASSUME Inv
                 PROVE  EvidenceStaysReadable
      OBVIOUS
    <2>1. /\ \A c \in Companies : roots[c] # None => RootLoads(c)
          /\ \A p \in principals : PrincipalLoads(p)
      BY AuthorityLoads DEF Inv
    <2>2. ASSUME NEW e \in evidence
          PROVE  EvidenceLoads(e)
      <3>1. { u \in consumptions : u.key = e.key /\ u.reference = e.reference } = {ConsumptionOf(e)}
        <4>1. \A f : ConsumptionOf(f).key = f.key /\ ConsumptionOf(f).reference = f.reference
          BY DEF ConsumptionOf
        <4> QED
          BY <4>1 DEF Inv, Consumption
      <3>2. Verified(e)
        BY <3>1 DEF Inv, Backed, Verified
      <3> QED
        BY <2>1, <3>2 DEF Inv, Backed, EvidenceLoads
    <2>3. ASSUME NEW q \in evidence, NEW e \in Lineage(q)
          PROVE  /\ EvidenceLoads(e)
                 /\ IF e.seq = 1 THEN e.previous = None
                    ELSE e.previous \in Lineage(q) /\ e.previous.seq = e.seq - 1
      <3>1. e \in evidence /\ e.kind = "WORKER_CONSENT" /\ InLineage(q, e)
        BY DEF Lineage, InLineage
      <3>2. LineageIn(evidence, e) = LineageIn(evidence, q)
        BY <3>1, SameLineage
      <3>3. Lineage(q) = LineageIn(evidence, e)
        BY <3>2 DEF Lineage, LineageIn
      <3>4. LineageOK(evidence, said, e)
        BY <3>1 DEF Inv, Lineages
      <3> QED
        BY <2>2, <3>1, <3>3, <3>4 DEF LineageOK
    <2>4. ASSUME NEW i \in issuances
          PROVE  PolicyIssued(i.company)
      BY <2>1 DEF Inv, TypeOK, Provisioned, PolicyIssued
    <2> QED
      BY <2>2, <2>3, <2>4 DEF EvidenceStaysReadable, LineageLoads
  <1> QED
    BY <1>1, Invariance, PTL

(***************************************************************************)
(* Operational authority.                                                  *)
(***************************************************************************)
LEMMA LeastNat ==
    ASSUME NEW S \in SUBSET Nat, S # {}
    PROVE  \E x \in S : \A y \in S : x <= y
  <1>1. PICK x \in S : \A y \in S : ~(<<y, x>> \in OpToRel(<, Nat))
    BY NatLessThanWellFounded, WFMin
  <1>2. \A y \in S : ~(y < x)
    BY <1>1 DEF OpToRel
  <1> QED
    BY <1>2

(***************************************************************************)
(* The merged time of a set of intervals is the number of units in them.   *)
(***************************************************************************)
Intervals == [start : Nat, end : Nat]
Proper(S) == S \subseteq Intervals /\ \A i \in S : i.start < i.end
UnitsIn(S) == UNION { i.start .. (i.end - 1) : i \in S }

Swept(S, n, f) ==
    f = [ k \in 0 .. n |-> IF k = 0 THEN [left |-> S, merged |-> [time |-> 0, end |-> 0]]
                           ELSE SweepNext(f[k - 1]) ]

(* The sweep of a finite set of intervals, which is defined step by step   *)
(* over their number, exists.                                              *)
LEMMA SweepExists ==
    ASSUME NEW S, NEW n \in Nat
    PROVE  \E f : Swept(S, n, f)
  <1> DEFINE zero == [left |-> S, merged |-> [time |-> 0, end |-> 0]]
             Has(x) == \E f : Swept(S, x, f)
             Bad == {x \in Nat : ~Has(x)}
  <1> SUFFICES ASSUME Bad # {} PROVE FALSE
    OBVIOUS
  <1>1. PICK x \in Bad : \A y \in Bad : x <= y
    <2>1. Bad \in SUBSET Nat
      OBVIOUS
    <2> HIDE DEF Bad
    <2> QED
      BY <2>1, LeastNat
  <1>2. x \in Nat /\ ~Has(x)
    OBVIOUS
  <1>3. x # 0
    <2>1. Has(0)
      <3> DEFINE f == [ k \in 0 .. 0 |-> zero ]
      <3>1. Swept(S, 0, f)
        BY DEF Swept
      <3> QED
        BY <3>1
    <2> QED
      BY <1>2, <2>1
  <1>4. x - 1 \in Nat /\ x - 1 \notin Bad
    <2> HIDE DEF Bad
    <2>1. x - 1 \in Nat /\ ~(x <= x - 1)
      BY <1>2, <1>3
    <2> QED
      BY <1>1, <2>1
  <1>5. PICK f : Swept(S, x - 1, f)
    BY <1>4
  <1> DEFINE g == [ k \in 0 .. x |-> IF k = x THEN SweepNext(f[x - 1]) ELSE f[k] ]
             h == [ k \in 0 .. x |-> IF k = 0 THEN zero ELSE SweepNext(g[k - 1]) ]
  <1>6. ASSUME NEW k \in 0 .. x PROVE g[k] = h[k]
    <2>1. CASE k = 0
      <3>1. f[0] = zero
        BY <1>4, <1>5 DEF Swept
      <3> QED
        BY <1>2, <1>3, <2>1, <3>1
    <2>2. CASE k # 0
      <3>1. k - 1 \in 0 .. x /\ k - 1 # x /\ g[k - 1] = f[k - 1]
        BY <1>2, <2>2
      <3>2. k # x => k \in 0 .. x - 1 /\ f[k] = SweepNext(f[k - 1])
        BY <1>2, <1>5, <2>2 DEF Swept
      <3> QED
        BY <1>2, <2>2, <3>1, <3>2
    <2> QED
      BY <2>1, <2>2
  <1>7. g = h
    <2> HIDE DEF h
    <2>1. DOMAIN h = 0 .. x /\ h = [ k \in 0 .. x |-> h[k] ]
      BY DEF h
    <2>2. \A k \in 0 .. x : g[k] = h[k]
      BY <1>6
    <2>3. g = [ k \in 0 .. x |-> g[k] ]
      OBVIOUS
    <2> HIDE DEF g
    <2> QED
      BY <2>1, <2>2, <2>3
  <1>8. Has(x)
    BY <1>7 DEF Swept
  <1> QED
    BY <1>2, <1>8

(* The sweep is what is left after as many steps as there are intervals.   *)
LEMMA SweepIs ==
    ASSUME NEW S, Cardinality(S) \in Nat
    PROVE  \E f : Swept(S, Cardinality(S), f) /\ Sweep(S) = f[Cardinality(S)]
<1> DEFINE n == Cardinality(S)
           F == CHOOSE f : Swept(S, n, f)
<1>1. Swept(S, n, F)
  BY SweepExists
<1>2. Sweep(S) = F[n]
  BY DEF Sweep, Swept
<1> QED BY <1>1, <1>2

(* One of finitely many intervals sorts first.                             *)
LEMMA EarliestIs ==
    ASSUME NEW S, Proper(S), S # {}
    PROVE  /\ Earliest(S) \in S
           /\ \A j \in S : Earliest(S).start <= j.start
<1> DEFINE starts == { i.start : i \in S }
<1>1. PICK a \in starts : \A b \in starts : a <= b
  <2>1. starts \in SUBSET Nat /\ starts # {}
    BY DEF Proper, Intervals
  <2> HIDE DEF starts
  <2> QED BY <2>1, LeastNat
<1> DEFINE ends == { i.end : i \in { j \in S : j.start = a } }
<1>2. PICK e \in ends : \A b \in ends : e <= b
  <2>1. ends \in SUBSET Nat /\ ends # {}
    BY <1>1 DEF Proper, Intervals
  <2> HIDE DEF ends
  <2> QED BY <2>1, LeastNat
<1>3. PICK i \in S : i.start = a /\ i.end = e
  BY <1>2
<1>4. \A j \in S : i.start < j.start \/ (i.start = j.start /\ i.end <= j.end)
  <2> SUFFICES ASSUME NEW j \in S
               PROVE  i.start < j.start \/ (i.start = j.start /\ i.end <= j.end)
    OBVIOUS
  <2>1. a <= j.start /\ a \in Nat /\ j.start \in Nat
    BY <1>1, <1>3 DEF Proper, Intervals
  <2>2. j.start = a => e <= j.end
    BY <1>2
  <2> QED BY <1>3, <2>1, <2>2
<1>5. \E x \in S : \A j \in S : x.start < j.start \/ (x.start = j.start /\ x.end <= j.end)
  BY <1>4
<1>6. /\ Earliest(S) \in S
      /\ \A j \in S : Earliest(S).start < j.start
                      \/ (Earliest(S).start = j.start /\ Earliest(S).end <= j.end)
  BY <1>5 DEF Earliest
<1> QED BY <1>6 DEF Proper, Intervals

(* What is merged of the intervals of S that are no longer left: their     *)
(* units are counted, and the last end is the end of one of them.          *)
Merging(S, s) ==
    LET done == S \ s.left
    IN  /\ s.left \subseteq S
        /\ \A i \in done, j \in s.left : i.start <= j.start
        /\ IsFiniteSet(UnitsIn(done)) /\ s.merged.time = Cardinality(UnitsIn(done))
        /\ s.merged.time \in Nat
        /\ done = {} => s.merged.time = 0
        /\ done # {} => /\ s.merged.time # 0
                        /\ \E i \in done : i.end = s.merged.end
                        /\ \A i \in done : i.end <= s.merged.end

(* An interval has as many units as it is long.                            *)
LEMMA Counted ==
    ASSUME NEW a \in Nat, NEW b \in Nat, a <= b
    PROVE  IsFiniteSet(a .. (b - 1)) /\ Cardinality(a .. (b - 1)) = b - a
<1>1. CASE a < b
  BY <1>1, FS_Interval
<1>2. CASE a = b
  BY <1>2, FS_Interval
<1> QED BY <1>1, <1>2

LEMMA CountedBoth ==
    ASSUME NEW S, NEW T, IsFiniteSet(S), IsFiniteSet(T), S \cap T = {}
    PROVE  IsFiniteSet(S \cup T) /\ Cardinality(S \cup T) = Cardinality(S) + Cardinality(T)
<1>1. Cardinality(S \cap T) = 0
  BY FS_EmptySet
<1> QED BY <1>1, FS_Union, FS_CardinalityType

(* One step of the sweep keeps the merged time equal to the number of      *)
(* units in the intervals merged so far: nothing merged reaches past the   *)
(* end that is kept, and what is left starts no earlier.                   *)
LEMMA MergeStep ==
    ASSUME NEW S, Proper(S), NEW s, Merging(S, s), s.left # {}
    PROVE  Merging(S, SweepNext(s)) /\ SweepNext(s).left = s.left \ {Earliest(s.left)}
                                    /\ Earliest(s.left) \in s.left
<1> DEFINE done == S \ s.left
           x == Earliest(s.left)
           t == SweepNext(s)
           now == S \ t.left
           m == s.merged
<1>1. /\ x \in s.left /\ x \in S
      /\ \A j \in s.left : x.start <= j.start
  <2>1. Proper(s.left)
    BY DEF Merging, Proper
  <2> QED BY <2>1, EarliestIs DEF Merging
<1>2. t.left = s.left \ {x} /\ t.merged = Merge(m, x)
  BY DEF SweepNext
<1>3. x.start \in Nat /\ x.end \in Nat /\ x.start < x.end
  BY <1>1 DEF Proper, Intervals
<1>4. now = done \cup {x} /\ now # {} /\ x \notin done
  BY <1>1, <1>2
<1>5. UnitsIn(now) = UnitsIn(done) \cup (x.start .. (x.end - 1))
  BY <1>4 DEF UnitsIn
<1>6. \A i \in now, j \in t.left : i.start <= j.start
  BY <1>1, <1>2, <1>4 DEF Merging
<1>7. \A i \in done : i.start \in Nat /\ i.end \in Nat /\ i.start < i.end /\ i.start <= x.start
  BY <1>1 DEF Merging, Proper, Intervals
<1>8. IsFiniteSet(UnitsIn(done)) /\ m.time = Cardinality(UnitsIn(done)) /\ m.time \in Nat
  BY DEF Merging
<1>9. /\ IsFiniteSet(UnitsIn(now)) /\ t.merged.time = Cardinality(UnitsIn(now))
      /\ t.merged.time \in Nat /\ t.merged.time # 0
      /\ \E i \in now : i.end = t.merged.end
      /\ \A i \in now : i.end <= t.merged.end
  <2>c. /\ IsFiniteSet(x.start .. (x.end - 1))
        /\ Cardinality(x.start .. (x.end - 1)) = x.end - x.start
    BY <1>3, Counted
  <2>1. CASE done = {}
    <3>1. m.time = 0 /\ t.merged = [time |-> x.end - x.start, end |-> x.end]
      <4>1. m.time = 0
        BY <2>1 DEF Merging
      <4> QED BY <1>2, <1>3, <4>1 DEF Merge
    <3>2. UnitsIn(now) = x.start .. (x.end - 1)
      BY <1>5, <2>1 DEF UnitsIn
    <3> QED BY <1>3, <1>4, <2>1, <2>c, <3>1, <3>2
  <2>2. ASSUME done # {}
        PROVE  /\ m.time # 0 /\ m.end \in Nat
               /\ \E i \in done : i.end = m.end
               /\ \A i \in done : i.end <= m.end
    BY <1>7, <2>2 DEF Merging
  <2>3. CASE done # {} /\ x.start > m.end
    <3>1. t.merged = [time |-> m.time + (x.end - x.start), end |-> x.end]
      BY <1>2, <2>3 DEF Merge
    <3>2. UnitsIn(done) \cap (x.start .. (x.end - 1)) = {}
      BY <1>3, <1>7, <2>2, <2>3 DEF UnitsIn
    <3>3. /\ IsFiniteSet(UnitsIn(now))
          /\ Cardinality(UnitsIn(now)) = m.time + (x.end - x.start)
      <4> DEFINE T == x.start .. (x.end - 1)
                 U == UnitsIn(done)
      <4>1. IsFiniteSet(U) /\ IsFiniteSet(T) /\ U \cap T = {}
        BY <1>8, <2>c, <3>2
      <4> HIDE DEF T, U
      <4>2. IsFiniteSet(U \cup T) /\ Cardinality(U \cup T) = Cardinality(U) + Cardinality(T)
        BY <4>1, CountedBoth
      <4> QED BY <1>5, <1>8, <2>c, <4>2 DEF T, U
    <3>4. \A i \in now : i.end <= x.end
      BY <1>3, <1>4, <1>7, <2>2, <2>3
    <3> QED BY <1>3, <1>4, <1>8, <3>1, <3>3, <3>4
  <2>4. CASE done # {} /\ ~(x.start > m.end) /\ x.end > m.end
    <3>1. t.merged = [time |-> m.time + (x.end - m.end), end |-> x.end]
      BY <1>2, <2>2, <2>4 DEF Merge
    <3>2. PICK i \in done : i.end = m.end
      BY <2>2, <2>4
    <3>3. UnitsIn(now) = UnitsIn(done) \cup (m.end .. (x.end - 1))
      <4>1. i.start .. (m.end - 1) \subseteq UnitsIn(done)
        BY <3>2 DEF UnitsIn
      <4>2. \A u \in x.start .. (x.end - 1) : u \in i.start .. (m.end - 1) \/ u \in m.end .. (x.end - 1)
        BY <1>3, <1>7, <2>2, <2>4, <3>2
      <4>3. m.end .. (x.end - 1) \subseteq x.start .. (x.end - 1)
        BY <1>3, <2>2, <2>4
      <4> QED BY <1>5, <4>1, <4>2, <4>3
    <3>4. UnitsIn(done) \cap (m.end .. (x.end - 1)) = {}
      BY <1>3, <1>7, <2>2, <2>4 DEF UnitsIn
    <3>5. /\ IsFiniteSet(m.end .. (x.end - 1))
          /\ Cardinality(m.end .. (x.end - 1)) = x.end - m.end
      BY <1>3, <2>2, <2>4, Counted
    <3>6. /\ IsFiniteSet(UnitsIn(now))
          /\ Cardinality(UnitsIn(now)) = m.time + (x.end - m.end)
      <4> DEFINE T == m.end .. (x.end - 1)
                 U == UnitsIn(done)
      <4>1. IsFiniteSet(U) /\ IsFiniteSet(T) /\ U \cap T = {}
        BY <1>8, <3>4, <3>5
      <4> HIDE DEF T, U
      <4>2. IsFiniteSet(U \cup T) /\ Cardinality(U \cup T) = Cardinality(U) + Cardinality(T)
        BY <4>1, CountedBoth
      <4> QED BY <1>8, <3>3, <3>5, <4>2 DEF T, U
    <3>7. \A j \in now : j.end <= x.end
      BY <1>3, <1>4, <1>7, <2>2, <2>4
    <3> QED BY <1>3, <1>4, <1>8, <2>2, <2>4, <3>1, <3>6, <3>7
  <2>5. CASE done # {} /\ ~(x.start > m.end) /\ ~(x.end > m.end)
    <3>1. t.merged = m
      BY <1>2, <2>2, <2>5 DEF Merge
    <3>2. PICK i \in done : i.end = m.end
      BY <2>2, <2>5
    <3>3. x.start .. (x.end - 1) \subseteq i.start .. (i.end - 1)
      BY <1>3, <1>7, <2>2, <2>5, <3>2
    <3>4. UnitsIn(now) = UnitsIn(done)
      BY <1>5, <3>2, <3>3 DEF UnitsIn
    <3>5. \A j \in now : j.end <= m.end
      BY <1>3, <1>4, <1>7, <2>2, <2>5
    <3> QED BY <1>4, <1>8, <2>2, <2>5, <3>1, <3>2, <3>4, <3>5
  <2> QED BY <2>1, <2>3, <2>4, <2>5
<1> HIDE DEF t
<1>10. t.left \subseteq S
  BY <1>2 DEF Merging
<1>11. Merging(S, t)
  BY <1>4, <1>6, <1>9, <1>10 DEF Merging
<1> QED BY <1>1, <1>2, <1>11 DEF t

(* calculate_rule_overtime sums merged intervals: the sum is the number of *)
(* units that lie in at least one interval, however they overlap.          *)
LEMMA SweepCounts ==
    ASSUME NEW S, Proper(S), IsFiniteSet(S)
    PROVE  /\ Sweep(S).merged.time = Cardinality(UnitsIn(S))
           /\ IsFiniteSet(UnitsIn(S))
           /\ Cardinality(UnitsIn(S)) \in Nat
<1> DEFINE n == Cardinality(S)
<1>1. n \in Nat
  BY FS_CardinalityType
<1>2. PICK f : Swept(S, n, f) /\ Sweep(S) = f[n]
  BY <1>1, SweepIs
<1>3. f[0] = [left |-> S, merged |-> [time |-> 0, end |-> 0]]
  BY <1>1, <1>2 DEF Swept
<1>4. \A k \in 1 .. n : f[k] = SweepNext(f[k - 1])
  BY <1>1, <1>2 DEF Swept
<1> HIDE DEF n
<1> DEFINE Good(k) == /\ Merging(S, f[k]) /\ IsFiniteSet(f[k].left)
                      /\ Cardinality(f[k].left) = n - k
           Bad == {k \in 0 .. n : ~Good(k)}
<1>5. Good(0)
  <2>1. S \ S = {} /\ UnitsIn({}) = {}
    BY DEF UnitsIn
  <2>2. Cardinality({}) = 0 /\ IsFiniteSet({})
    BY FS_EmptySet
  <2>3. Merging(S, f[0])
    BY <1>3, <2>1, <2>2 DEF Merging
  <2> QED BY <1>1, <1>3, <2>3 DEF n
<1>6. ASSUME NEW k \in 1 .. n, Good(k - 1) PROVE Good(k)
  <2>1. Cardinality(f[k - 1].left) # 0 /\ f[k - 1].left # {}
    BY <1>1, <1>6, FS_EmptySet
  <2>2. /\ Merging(S, f[k])
        /\ f[k].left = f[k - 1].left \ {Earliest(f[k - 1].left)}
        /\ Earliest(f[k - 1].left) \in f[k - 1].left
    BY <1>4, <1>6, <2>1, MergeStep
  <2>3. /\ IsFiniteSet(f[k].left)
        /\ Cardinality(f[k].left) = Cardinality(f[k - 1].left) - 1
    <3> DEFINE L == f[k - 1].left
               e == Earliest(L)
    <3>1. IsFiniteSet(L) /\ e \in L /\ f[k].left = L \ {e}
      BY <1>6, <2>2
    <3> HIDE DEF L, e
    <3>2. IsFiniteSet(L \ {e}) /\ Cardinality(L \ {e}) = Cardinality(L) - 1
      BY <3>1, FS_RemoveElement
    <3>3. IsFiniteSet(f[k].left) /\ Cardinality(f[k].left) = Cardinality(L) - 1
      BY <3>1, <3>2
    <3> QED BY <3>3 DEF L
  <2>4. Cardinality(f[k].left) = n - k
    BY <1>1, <1>6, <2>3
  <2> QED BY <2>2, <2>3, <2>4
<1>7. Good(n)
  <2> SUFFICES ASSUME Bad # {} PROVE FALSE
    BY <1>1
  <2>1. PICK k \in Bad : \A j \in Bad : k <= j
    <3>1. Bad \in SUBSET Nat
      BY <1>1
    <3> HIDE DEF Bad
    <3> QED BY <3>1, LeastNat
  <2>2. k \in 0 .. n /\ ~Good(k)
    OBVIOUS
  <2>3. k # 0
    BY <1>5, <2>2
  <2>4. k \in 1 .. n /\ k - 1 \in 0 .. n
    BY <1>1, <2>2, <2>3
  <2>5. Good(k - 1)
    <3> SUFFICES ASSUME ~Good(k - 1) PROVE FALSE
      OBVIOUS
    <3>1. k - 1 \in Bad
      BY <2>4
    <3> HIDE DEF Bad, Good
    <3> QED BY <1>1, <2>1, <2>4, <3>1
  <2> QED BY <1>6, <2>2, <2>4, <2>5
<1>8. f[n].left = {}
  BY <1>1, <1>7, FS_EmptySet
<1> QED
  BY <1>2, <1>7, <1>8 DEF Merging

LEMMA MaxOfTwo ==
    ASSUME NEW a \in Int, NEW b \in Int
    PROVE  Max({a, b}) = IF a >= b THEN a ELSE b
<1>1. \E x \in {a, b} : \A y \in {a, b} : x >= y
  OBVIOUS
<1> QED BY <1>1 DEF Max

LEMMA MinOfTwo ==
    ASSUME NEW a \in Int, NEW b \in Int
    PROVE  Min({a, b}) = IF a <= b THEN a ELSE b
<1>1. \E x \in {a, b} : \A y \in {a, b} : x <= y
  OBVIOUS
<1> QED BY <1>1 DEF Min

(* A later part of the cut leaves the earlier parts as they were captured. *)
LEMMA JoinedKeeps ==
    ASSUME NEW r, NEW s, NEW f \in DOMAIN r
    PROVE  f \in DOMAIN Joined(r, s) /\ Joined(r, s)[f] = r[f]
BY DEF Joined

(* The stores stay as they are required to be, and the boundaries of a cut *)
(* were read from such stores.                                             *)
BoundariesKnown ==
    /\ StoresOK(world)
    /\ stage # "idle" => "hard" \in DOMAIN cut /\ cut.hard \in HardBoundaries

(* What released a candidate also passes every check of its assessment: no *)
(* constraint of its trace failed or is unknown, so it is feasible; no     *)
(* owner approval is missing, so every gate that asks for one passes.      *)
LEMMA AssessmentsAgree ==
    ASSUME NEW c, NEW v, NEW n \in Positions, c.hard \in HardBoundaries
    PROVE  AssessmentOK(CandidateAssessment(n, c, v))
<1> DEFINE a == CandidateAssessment(n, c, v)
           k == CandidateSeq[n]
           out == AuthorityOutcome(n, c, v)
<1>f. /\ a.technical = TechnicalFeasibility(k) /\ a.outcome = out
      /\ a.relation = PolicyRelation(n, c) /\ a.override = OverrideStatus(n, c)
      /\ a.disposition = Disposition(n, c, v) /\ a.gates = GateAssessments(n, c)
  BY DEF CandidateAssessment
<1>h. c.hard[n] \in {"APPLICABLE", "UNKNOWN", "NOT_APPLICABLE"}
  BY DEF HardBoundaries
<1>1. ASSUME out = "ACT"
      PROVE  /\ c.hard[n] = "NOT_APPLICABLE"
             /\ OrdinaryFailures(k) = {} /\ WindowFailures(k) = {}
             /\ ~Undecidable(n, c, v) /\ ~NeedsHuman(n, c)
  BY <1>1, <1>h DEF AuthorityOutcome, Undecidable
<1>2. ASSUME out = "ACT" PROVE k.verdict = "FEASIBLE"
  <2>1. UnknownConstraints(k) = {}
    BY <1>1, <1>2 DEF Undecidable
  <2>2. \A t \in k.trace : t.status # "FAIL" /\ t.status # "UNKNOWN"
    BY <1>1, <1>2, <2>1 DEF OrdinaryFailures, WindowFailures, UnknownConstraints
  <2> QED BY <2>2, VerdictAssumption DEF Positions
<1>3. ASSUME out = "ACT" PROVE a.technical = "FEASIBLE"
  BY <1>f, <1>2, <1>3 DEF TechnicalFeasibility
<1>4. ASSUME out = "ACT", NEW g \in Gates PROVE a.gates[g] = "PASS"
  <2>1. MissingOwner(k, c) = {} /\ \A h : MissingOwnerAt(h, k, c) = {}
    BY <1>1, <1>4 DEF NeedsHuman, MissingOwnerAt
  <2>2. AssignGate(k, c.hard[n]) = "PASS"
    BY <1>1, <1>4 DEF AssignGate, Undecidable
  <2>3. CostGate(k, c) = "PASS"
    BY <1>1, <1>4, <2>1 DEF CostGate, Undecidable
  <2>4. OvertimeGate(OvertimeApplicability(c.working.evidence[n])) = "PASS"
    <3>1. OvertimeApplicability(c.working.evidence[n]) = "DOES_NOT_CREATE_OVERTIME"
      BY <1>1, <1>4 DEF OvertimeApplicability, Undecidable, NeedsHuman
    <3> QED BY <3>1 DEF OvertimeGate
  <2>5. VehicleGate(k, c) = "PASS"
    BY <1>1, <1>4, <2>1 DEF VehicleGate, Undecidable
  <2>6. TagGate(k, c, AssessApprovalTags(k, c.markers).applicability) = "PASS"
    BY <1>1, <1>4, <2>1 DEF TagGate, Undecidable
  <2>7. SearchGate(c.exhausted) = "PASS"
    BY <1>2, <1>4 DEF SearchGate, FeasibleCandidates
  <2>8. ~LaterDay(k) /\ k.residual = {}
    BY <1>1, <1>4 DEF NeedsHuman, Undecidable
  <2> QED
    BY <1>f, <1>1, <1>4, <2>2, <2>3, <2>4, <2>5, <2>6, <2>7, <2>8 DEF Gates, GateAssessments
<1>5. ASSUME out = "ACT"
      PROVE  IF a.relation = "SOFT_EXCEPTION"
             THEN a.override = "APPROVED" /\ a.disposition = "EXECUTE_WITH_RECORDED_RISK"
             ELSE /\ a.relation = "WITHIN_ENVELOPE" /\ a.override = "NOT_REQUIRED"
                  /\ a.disposition = "EXECUTE"
  <2>1. ~MissingSoftApproval(k, c)
    <3>1. MissingOwner(k, c) = {} /\ c.policy = "ISSUED_SUPPORTED"
      BY <1>1, <1>5 DEF NeedsHuman, Undecidable
    <3>2. ASSUME Costed(k) PROVE CostOf(k, c).state # "UNAVAILABLE_UNSUPPORTED_POLICY"
      BY <3>1, <3>2 DEF CostOf, AssessCost
    <3> QED BY <3>1, <3>2 DEF MissingSoftApproval
  <2> QED
    BY <1>f, <1>1, <1>5, <2>1 DEF PolicyRelation, OverrideStatus, Disposition
<1>6. out # "ACT" => a.disposition \in {"ABSTAIN", "FORBIDDEN"}
  BY <1>f DEF Disposition
<1>7. (a.relation = "HARD_BLOCK") <=> (a.disposition = "FORBIDDEN")
  BY <1>f DEF PolicyRelation, Disposition
<1>8. a.relation = "HARD_BLOCK" => out = "BLOCK"
  BY <1>f DEF PolicyRelation, AuthorityOutcome
<1> QED
  BY <1>f, <1>3, <1>4, <1>5, <1>6, <1>7, <1>8 DEF AssessmentOK

LEMMA ResultsAgree ==
    ASSUME NEW c, NEW v, c.hard \in HardBoundaries
    PROVE  ResultOK(c, EvaluateOperationalAuthority(c, v))
<1> DEFINE r == EvaluateOperationalAuthority(c, v)
<1>1. CASE c.search = "NO_REPAIR_REQUIRED"
  BY <1>1 DEF ResultOK, EvaluateOperationalAuthority
<1>2. CASE c.search # "NO_REPAIR_REQUIRED"
  <2>1. /\ r.assessments = [n \in Positions |-> CandidateAssessment(n, c, v)]
        /\ r.projection = SearchProjection(c)
    BY <1>2 DEF EvaluateOperationalAuthority
  <2>2. /\ DOMAIN r.assessments = Positions
        /\ \A n \in Positions : r.assessments[n] = CandidateAssessment(n, c, v)
    BY <2>1
  <2>3. \A n \in DOMAIN r.assessments : AssessmentOK(r.assessments[n])
    <3>1. \A n \in Positions : AssessmentOK(CandidateAssessment(n, c, v))
      BY AssessmentsAgree
    <3> HIDE DEF r
    <3> QED BY <2>2, <3>1
  <2>4. (\E n \in DOMAIN r.assessments : r.assessments[n].technical = "FEASIBLE")
            <=> FeasibleCandidates # {}
    <3>1. \A n \in Positions : CandidateAssessment(n, c, v).technical = "FEASIBLE"
                                <=> n \in FeasibleCandidates
      BY DEF CandidateAssessment, TechnicalFeasibility, FeasibleCandidates
    <3>2. FeasibleCandidates \subseteq Positions
      BY DEF FeasibleCandidates
    <3> HIDE DEF r
    <3> QED BY <2>2, <3>1, <3>2
  <2> QED BY <1>2, <2>1, <2>3, <2>4 DEF ResultOK, SearchProjection
<1> QED BY <1>1, <1>2

LEMMA BoundariesInit == AuthorityInit => BoundariesKnown /\ EvaluationNeverRaises
BY AuthorityDecisionAssumption DEF AuthorityInit, BoundariesKnown, EvaluationNeverRaises

LEMMA EditedStores ==
    ASSUME NEW w, StoresOK(w), NEW c, NEW x \in Edited(w, c)
    PROVE  StoresOK(x)
<1>a. DOMAIN w = Stores
  BY DEF StoresOK
<1>b. {"hard", "ledger", "threshold", "delta", "principals", "consent"} \subseteq Stores
  BY DEF Stores
<1>1. CASE x \in { [w EXCEPT !.plan = @ + 1], [w EXCEPT !.handoff = @ + 1],
                   [w EXCEPT !.tasks = @ + 1], [w EXCEPT !.assignments = @ + 1],
                   [w EXCEPT !.days = [d \in DOMAIN @ |-> @[d] + 1]],
                   [w EXCEPT !.sources = @ + 1], [w EXCEPT !.registry = @ + 1],
                   [w EXCEPT !.policy = "NOT_ISSUED"], [w EXCEPT !.markers = MarkerUniverse] }
      \/ \E l : x = [w EXCEPT !.approvals = l]
  <2>1. /\ DOMAIN x = Stores /\ x.hard = w.hard /\ x.ledger = w.ledger
        /\ x.threshold = w.threshold /\ x.delta = w.delta /\ x.principals = w.principals
        /\ x.consent = w.consent
    BY <1>1, <1>a, <1>b
  <2> QED BY <2>1 DEF StoresOK
<1>2. CASE x = [w EXCEPT !.threshold = Max({0, @ - 1})]
  <2>1. /\ DOMAIN x = Stores /\ x.hard = w.hard /\ x.ledger = w.ledger /\ x.delta = w.delta
        /\ x.principals = w.principals /\ x.consent = w.consent
        /\ x.threshold = Max({0, w.threshold - 1})
    BY <1>2, <1>a, <1>b
  <2>2. w.threshold \in Nat
    BY DEF StoresOK
  <2>3. Max({0, w.threshold - 1}) \in Nat
    BY <2>2, MaxOfTwo
  <2> QED BY <2>1, <2>3 DEF StoresOK
<1>3. CASE x \in { [w EXCEPT !.hard[1] = "APPLICABLE"], [w EXCEPT !.hard[1] = "UNKNOWN"] }
  <2>1. /\ DOMAIN x = Stores /\ x.ledger = w.ledger
        /\ x.threshold = w.threshold /\ x.delta = w.delta /\ x.principals = w.principals
        /\ x.consent = w.consent
        /\ x.hard \in { [w.hard EXCEPT ![1] = "APPLICABLE"], [w.hard EXCEPT ![1] = "UNKNOWN"] }
    BY <1>3, <1>a, <1>b
  <2>2. w.hard \in HardBoundaries
    BY DEF StoresOK
  <2>3. x.hard \in HardBoundaries
    BY <2>1, <2>2 DEF HardBoundaries
  <2> QED BY <2>1, <2>3 DEF StoresOK
<1>4. CASE x = [w EXCEPT !.delta = [i \in DOMAIN @ |-> P_COST_THRESHOLD + 1]]
  <2>1. /\ DOMAIN x = Stores /\ x.hard = w.hard /\ x.ledger = w.ledger
        /\ x.threshold = w.threshold /\ x.principals = w.principals /\ x.consent = w.consent
        /\ x.delta = [i \in DOMAIN w.delta |-> P_COST_THRESHOLD + 1]
    BY <1>4, <1>a, <1>b
  <2> QED BY <2>1 DEF StoresOK, P_COST_THRESHOLD
<1>5. CASE \E l \in MoreConsents(w) : x = [w EXCEPT !.consent = l]
  <2>1. PICK l \in MoreConsents(w) : x = [w EXCEPT !.consent = l]
    BY <1>5
  <2>2. /\ DOMAIN x = Stores /\ x.hard = w.hard /\ x.ledger = w.ledger
        /\ x.threshold = w.threshold /\ x.delta = w.delta /\ x.principals = w.principals
        /\ x.consent = l
    BY <2>1, <1>a, <1>b
  <2>3. w.consent \in Seq({"FREELY_GIVEN", "WITHDRAWN"})
    BY DEF StoresOK
  <2>4. Drivers \subseteq w.principals
        /\ \E s \in {"FREELY_GIVEN", "WITHDRAWN"} : l = Append(w.consent, s)
    BY <2>1 DEF MoreConsents
  <2>5. l \in Seq({"FREELY_GIVEN", "WITHDRAWN"})
    BY <2>3, <2>4
  <2> QED BY <2>2, <2>4, <2>5 DEF StoresOK
<1>6. CASE \E l \in LedgerItems : x = [w EXCEPT !.ledger = @ \cup {l}]
  <2>1. PICK l \in LedgerItems : x = [w EXCEPT !.ledger = @ \cup {l}]
    BY <1>6
  <2>2. /\ DOMAIN x = Stores /\ x.hard = w.hard /\ x.consent = w.consent
        /\ x.threshold = w.threshold /\ x.delta = w.delta /\ x.principals = w.principals
        /\ x.ledger = w.ledger \cup {l}
    BY <2>1, <1>a, <1>b
  <2>3. \A i \in x.ledger : InLedger(i)
    BY <2>2, AuthorityDecisionAssumption DEF StoresOK
  <2> QED BY <2>2, <2>3 DEF StoresOK
<1>7. CASE x = [w EXCEPT !.principals = RegisteredWorkers]
  <2>1. /\ DOMAIN x = Stores /\ x.hard = w.hard /\ x.ledger = w.ledger
        /\ x.threshold = w.threshold /\ x.delta = w.delta /\ x.consent = w.consent
        /\ x.principals = RegisteredWorkers
    BY <1>7, <1>a, <1>b
  <2>2. Drivers \subseteq RegisteredWorkers
    BY AuthorityDecisionAssumption DEF Drivers
  <2> QED BY <2>1, <2>2 DEF StoresOK
<1> QED
  BY <1>1, <1>2, <1>3, <1>4, <1>5, <1>6, <1>7 DEF Edited

(* The evaluation cannot raise, because its results agree.                 *)
LEMMA BoundariesStep ==
    BoundariesKnown /\ EvaluationNeverRaises /\ [AuthorityNext]_decisionVars
    => BoundariesKnown' /\ EvaluationNeverRaises'
<1> SUFFICES ASSUME BoundariesKnown, EvaluationNeverRaises, [AuthorityNext]_decisionVars
             PROVE  BoundariesKnown' /\ EvaluationNeverRaises'
  OBVIOUS
<1> USE DEF BoundariesKnown, EvaluationNeverRaises
<1>1. CASE Begin
  BY <1>1 DEF Begin, StoresOK
<1>2. CASE CaptureSupport
  BY <1>2, JoinedKeeps DEF CaptureSupport
<1>3. CASE CaptureCost
  BY <1>3, JoinedKeeps DEF CaptureCost
<1>4. ASSUME NEW f \in WorkingTimeFaults, NEW b \in Bool, CaptureWorkingTime(f, b)
      PROVE  BoundariesKnown' /\ EvaluationNeverRaises'
  BY <1>4, JoinedKeeps DEF CaptureWorkingTime
<1>5. ASSUME NEW u, CaptureMarkers(u) PROVE BoundariesKnown' /\ EvaluationNeverRaises'
  BY <1>5, JoinedKeeps DEF CaptureMarkers
<1>6. ASSUME NEW p \in 0..1, SelectEvidence(p) PROVE BoundariesKnown' /\ EvaluationNeverRaises'
  BY <1>6, JoinedKeeps DEF SelectEvidence
<1>7. CASE Decide
  <2>1. DecidedStage(cut, Observed(world, cut)) \in {"refused", "decided"}
    BY <1>7, ResultsAgree DEF Decide, DecidedStage
  <2> QED BY <1>7, <2>1 DEF Decide
<1>8. CASE Restart
  BY <1>8 DEF Restart
<1>9. CASE WorldMoves
  BY <1>9, EditedStores DEF WorldMoves
<1>10. CASE UNCHANGED decisionVars
  BY <1>10 DEF decisionVars
<1> QED
  BY <1>1, <1>2, <1>3, <1>4, <1>5, <1>6, <1>7, <1>8, <1>9, <1>10 DEF AuthorityNext

(* The gates, the outcome cascade, the policy relation, the override and   *)
(* the disposition never contradict each other: the evaluation of a cut    *)
(* that binds never raises.                                                *)
THEOREM EvaluationAlwaysAgrees == AuthoritySpec => []EvaluationNeverRaises
<1>1. AuthoritySpec => [](BoundariesKnown /\ EvaluationNeverRaises)
  BY BoundariesInit, BoundariesStep, PTL DEF AuthoritySpec
<1> QED BY <1>1, PTL

(* The parts of a cut that have been captured when it is decided on.       *)
FirstParts == {"plan", "input", "days", "root", "policy", "hard", "exhausted", "search"}

Stages == {"idle", "support", "cost", "working", "markers", "selections", "decide",
           "decided", "refused", "raised"}

PartsCaptured ==
    LET supported == FirstParts \cup {"support", "m3"}
        costed == supported \cup {"cost"}
        timed == costed \cup {"working"}
        marked == timed \cup {"markers"}
    IN  /\ stage \in Stages
        /\ stage = "support" => DOMAIN cut = FirstParts
        /\ stage = "cost" => DOMAIN cut = supported
        /\ stage = "working" => DOMAIN cut = costed
        /\ stage = "markers" => DOMAIN cut = timed
        /\ stage = "selections" => DOMAIN cut = marked
        /\ stage \in {"decide", "decided", "refused", "raised"} =>
              DOMAIN cut = marked \cup {"owner", "consent"}

LEMMA JoinedHas ==
    ASSUME NEW r, NEW s
    PROVE  DOMAIN Joined(r, s) = DOMAIN r \cup DOMAIN s
BY DEF Joined

LEMMA PartsInit == AuthorityInit => PartsCaptured
BY DEF AuthorityInit, PartsCaptured, Stages

LEMMA PartsStep == PartsCaptured /\ [AuthorityNext]_decisionVars => PartsCaptured'
<1> SUFFICES ASSUME PartsCaptured, [AuthorityNext]_decisionVars PROVE PartsCaptured'
  OBVIOUS
<1> USE DEF PartsCaptured, Stages
<1>1. CASE Begin
  BY <1>1 DEF Begin, FirstParts
<1>2. CASE CaptureSupport
  <2>1. DOMAIN cut' = DOMAIN cut \cup {"support", "m3"}
    BY <1>2, JoinedHas DEF CaptureSupport
  <2> QED BY <1>2, <2>1 DEF CaptureSupport
<1>3. CASE CaptureCost
  <2>1. DOMAIN cut' = DOMAIN cut \cup {"cost"}
    BY <1>3, JoinedHas DEF CaptureCost
  <2> QED BY <1>3, <2>1 DEF CaptureCost
<1>4. ASSUME NEW f \in WorkingTimeFaults, NEW b \in Bool, CaptureWorkingTime(f, b)
      PROVE  PartsCaptured'
  <2>1. DOMAIN cut' = DOMAIN cut \cup {"working"}
    BY <1>4, JoinedHas DEF CaptureWorkingTime
  <2> QED BY <1>4, <2>1 DEF CaptureWorkingTime
<1>5. ASSUME NEW u, CaptureMarkers(u) PROVE PartsCaptured'
  <2>1. DOMAIN cut' = DOMAIN cut \cup {"markers"}
    BY <1>5, JoinedHas DEF CaptureMarkers
  <2> QED BY <1>5, <2>1 DEF CaptureMarkers
<1>6. ASSUME NEW p \in 0..1, SelectEvidence(p) PROVE PartsCaptured'
  <2>1. DOMAIN cut' = DOMAIN cut \cup {"owner", "consent"}
    BY <1>6, JoinedHas DEF SelectEvidence
  <2> QED BY <1>6, <2>1 DEF SelectEvidence
<1>7. CASE Decide
  BY <1>7 DEF Decide, DecidedStage
<1>8. CASE Restart
  BY <1>8 DEF Restart
<1>9. CASE WorldMoves
  BY <1>9 DEF WorldMoves
<1>10. CASE UNCHANGED decisionVars
  BY <1>10 DEF decisionVars
<1> QED
  BY <1>1, <1>2, <1>3, <1>4, <1>5, <1>6, <1>7, <1>8, <1>9, <1>10 DEF AuthorityNext

SameButOwner(c, d) ==
    /\ d.plan = c.plan /\ d.input = c.input /\ d.days = c.days /\ d.root = c.root
    /\ d.policy = c.policy /\ d.hard = c.hard /\ d.support = c.support /\ d.m3 = c.m3
    /\ d.cost = c.cost /\ d.working = c.working /\ d.markers = c.markers
    /\ d.consent = c.consent

(* What is required of a candidate does not depend on what the owner has   *)
(* approved.                                                               *)
LEMMA SameRequirements ==
    ASSUME NEW c, NEW d, SameButOwner(c, d)
    PROVE  /\ Requirements(d) = Requirements(c)
           /\ \A n \in Positions : NonaffirmativeConsent(CandidateSeq[n], d)
                                     = NonaffirmativeConsent(CandidateSeq[n], c)
           /\ \A n \in Positions : CostOf(CandidateSeq[n], d) = CostOf(CandidateSeq[n], c)
<1>1. \A k : CostOf(k, d) = CostOf(k, c)
  BY DEF SameButOwner, CostOf
<1>2. \A k : DeriveAuthorityRequirements(k, d) = DeriveAuthorityRequirements(k, c)
  BY <1>1 DEF SameButOwner, DeriveAuthorityRequirements
<1>3. Requirements(d) = Requirements(c)
  BY <1>2 DEF Requirements
<1>4. \A k : NonaffirmativeConsent(k, d) = NonaffirmativeConsent(k, c)
  BY <1>2 DEF NonaffirmativeConsent, CandidateRequirements, SameButOwner
<1> QED BY <1>1, <1>3, <1>4

(* Nor does anything that is observed at the decision, the selection of    *)
(* approvals itself excepted.                                              *)
LEMMA SameObservations ==
    ASSUME NEW c, NEW d, SameButOwner(c, d)
    PROVE  /\ DOMAIN RequiredObservations(d) = DOMAIN RequiredObservations(c)
           /\ \A s \in DOMAIN RequiredObservations(c) :
                 s # "OWNER_APPROVAL_SELECTIONS" =>
                    RequiredObservations(d)[s] = RequiredObservations(c)[s]
           /\ RequiredObservations(c)["OWNER_APPROVAL_SELECTIONS"] = c.owner
           /\ RequiredObservations(d)["OWNER_APPROVAL_SELECTIONS"] = d.owner
           /\ UnknownSubjects(d) = UnknownSubjects(c)
           /\ "OWNER_APPROVAL_SELECTIONS" \notin UnknownSubjects(c)
<1> USE DEF SameButOwner
<1>1. PlanObservations(d) = PlanObservations(c)
  BY DEF PlanObservations
<1>2. SupportObservations(d) = SupportObservations(c)
  BY DEF SupportObservations
<1>3. HeadObservations(d) = HeadObservations(c)
  BY DEF HeadObservations
<1>4. DerivedObservations(d) = DerivedObservations(c)
  BY SameRequirements DEF DerivedObservations
<1>5. /\ DOMAIN SelectionObservations(c) = {"OWNER_APPROVAL_SELECTIONS", "WORKER_CONSENT_HEADS"}
      /\ DOMAIN SelectionObservations(d) = {"OWNER_APPROVAL_SELECTIONS", "WORKER_CONSENT_HEADS"}
      /\ SelectionObservations(c)["OWNER_APPROVAL_SELECTIONS"] = c.owner
      /\ SelectionObservations(d)["OWNER_APPROVAL_SELECTIONS"] = d.owner
      /\ SelectionObservations(d)["WORKER_CONSENT_HEADS"]
            = SelectionObservations(c)["WORKER_CONSENT_HEADS"]
  BY DEF SelectionObservations
<1>6. "OWNER_APPROVAL_SELECTIONS" \notin DOMAIN PlanObservations(c)
      /\ "OWNER_APPROVAL_SELECTIONS" \notin DOMAIN SupportObservations(c)
  BY DEF PlanObservations, SupportObservations
<1>7. /\ DOMAIN RequiredObservations(d) = DOMAIN RequiredObservations(c)
      /\ \A s \in DOMAIN RequiredObservations(c) :
            s # "OWNER_APPROVAL_SELECTIONS" =>
               RequiredObservations(d)[s] = RequiredObservations(c)[s]
      /\ RequiredObservations(c)["OWNER_APPROVAL_SELECTIONS"] = c.owner
      /\ RequiredObservations(d)["OWNER_APPROVAL_SELECTIONS"] = d.owner
  BY <1>1, <1>2, <1>3, <1>4, <1>5, <1>6 DEF RequiredObservations, Joined
<1>8. UnknownSubjects(d) = UnknownSubjects(c)
      /\ "OWNER_APPROVAL_SELECTIONS" \notin UnknownSubjects(c)
  BY DEF UnknownSubjects, SourceKinds
<1> QED BY <1>7, <1>8

(* So what keeps a candidate undecided is not answered by approvals.       *)
LEMMA StillUndecidable ==
    ASSUME NEW c, NEW d, SameButOwner(c, d), NEW v, NEW u, NEW n \in Positions,
           v["OWNER_APPROVAL_SELECTIONS"] = c.owner,
           \A s : s # "OWNER_APPROVAL_SELECTIONS" /\ s \in DOMAIN v => u[s] = v[s],
           DOMAIN RequiredObservations(c) \subseteq DOMAIN v,
           Undecidable(n, c, v)
    PROVE  Undecidable(n, d, u)
<1>1. ASSUME ~AllCurrent(c, v) PROVE ~AllCurrent(d, u)
  <2>1. PICK s \in DOMAIN RequiredObservations(c) :
               s \in UnknownSubjects(c) \/ RequiredObservations(c)[s] # v[s]
    BY <1>1 DEF AllCurrent, ExactMatch
  <2>2. s # "OWNER_APPROVAL_SELECTIONS"
    BY <2>1, SameObservations
  <2>3. s \in UnknownSubjects(d) \/ RequiredObservations(d)[s] # u[s]
    BY <2>1, <2>2, SameObservations
  <2>4. s \in DOMAIN RequiredObservations(d)
    BY <2>1, SameObservations
  <2> QED BY <2>3, <2>4 DEF AllCurrent, ExactMatch
<1>2. /\ CostOf(CandidateSeq[n], d) = CostOf(CandidateSeq[n], c)
      /\ NonaffirmativeConsent(CandidateSeq[n], d) = NonaffirmativeConsent(CandidateSeq[n], c)
  BY SameRequirements
<1>3. /\ d.hard = c.hard /\ d.working = c.working /\ d.markers = c.markers
      /\ d.policy = c.policy
  BY DEF SameButOwner
<1> QED BY <1>1, <1>2, <1>3 DEF Undecidable

(* A result with assessments is the evaluation of the cut against the      *)
(* heads of the moment.                                                    *)
LEMMA DecidesWithTheCut ==
    ASSUME AuthorityNext, DecidesHere
    PROVE  /\ Decide
           /\ result'.assessments = [n \in Positions |->
                  CandidateAssessment(n, cut, Observed(world, cut))]
           /\ CurrentnessVectorOK(cut, Observed(world, cut))
<1>1. Decide
  BY DEF AuthorityNext, DecidesHere, Begin, CaptureSupport, CaptureCost, CaptureWorkingTime,
         CaptureMarkers, SelectEvidence, Restart, WorldMoves
<1>2. /\ result' = EvaluateOperationalAuthority(cut, Observed(world, cut))
      /\ CurrentnessVectorOK(cut, Observed(world, cut))
  BY <1>1 DEF Decide, DecidesHere, DecidedStage
<1>3. cut.search # "NO_REPAIR_REQUIRED"
  BY <1>2 DEF EvaluateOperationalAuthority, DecidesHere
<1> QED BY <1>1, <1>2, <1>3 DEF EvaluateOperationalAuthority

(* A candidate that is blocked or abstained from stays so had the owner    *)
(* approved everything that is asked.                                      *)
THEOREM ApprovalsNeverCure == AuthoritySpec => ApprovalNeverCures
<1>1. AuthoritySpec => []PartsCaptured
  BY PartsInit, PartsStep, PTL DEF AuthoritySpec
<1>2. ASSUME PartsCaptured, AuthorityNext, DecidesHere, NEW n \in Positions,
             Outcome(n) \in {"BLOCK", "ABSTAIN"}, OwnerSelections(world, cut) = cut.owner
      PROVE  LET all == [cut EXCEPT !.owner = [r \in DOMAIN @ |-> r.scope]]
                 vector == [Observed(world, cut)
                              EXCEPT !.OWNER_APPROVAL_SELECTIONS = all.owner]
             IN  AuthorityOutcome(n, all, vector) = Outcome(n)
  <2> DEFINE all == [cut EXCEPT !.owner = [r \in DOMAIN @ |-> r.scope]]
             v == Observed(world, cut)
             u == [v EXCEPT !.OWNER_APPROVAL_SELECTIONS = all.owner]
  <2>1. Outcome(n) = AuthorityOutcome(n, cut, v)
    BY <1>2, DecidesWithTheCut DEF Outcome, CandidateAssessment
  <2>2. SameButOwner(cut, all)
    BY <1>2 DEF SameButOwner, PartsCaptured, FirstParts, DecidesHere
  <2>3. /\ v["OWNER_APPROVAL_SELECTIONS"] = cut.owner
        /\ \A s : s # "OWNER_APPROVAL_SELECTIONS" /\ s \in DOMAIN v => u[s] = v[s]
    <3>1. v.OWNER_APPROVAL_SELECTIONS = OwnerSelections(world, cut)
      BY DEF Observed
    <3> HIDE DEF v
    <3> QED BY <1>2, <3>1
  <2>4. DOMAIN RequiredObservations(cut) \subseteq DOMAIN v
    BY <1>2, DecidesWithTheCut DEF CurrentnessVectorOK
  <2>5. all.hard = cut.hard
    BY <2>2 DEF SameButOwner
  <2> HIDE DEF all, v, u
  <2>6. Undecidable(n, cut, v) => Undecidable(n, all, u)
    BY <2>2, <2>3, <2>4, StillUndecidable
  <2>7. AuthorityOutcome(n, all, u) = Outcome(n)
    BY <1>2, <2>1, <2>5, <2>6 DEF AuthorityOutcome
  <2> QED BY <2>7 DEF all, v, u
<1>3. PartsCaptured /\ [AuthorityNext]_decisionVars =>
        [DecidesHere =>
           LET all == [cut EXCEPT !.owner = [r \in DOMAIN @ |-> r.scope]]
               vector == [Observed(world, cut)
                            EXCEPT !.OWNER_APPROVAL_SELECTIONS = all.owner]
           IN  \A n \in Positions :
                  Outcome(n) \in {"BLOCK", "ABSTAIN"}
                  /\ OwnerSelections(world, cut) = cut.owner =>
                     AuthorityOutcome(n, all, vector) = Outcome(n)]_decisionVars
  BY <1>2
<1> QED BY <1>1, <1>3, PTL DEF AuthoritySpec, ApprovalNeverCures

(***************************************************************************)
(* Days and units.                                                         *)
(***************************************************************************)
LEMMA DayBounds ==
    ASSUME NEW t \in Nat
    PROVE  /\ t \div DayLength \in Nat
           /\ (t \div DayLength) * DayLength <= t
           /\ t < ((t \div DayLength) + 1) * DayLength
BY WorkingTimeAssumption, SMT

LEMMA DaysApart ==
    ASSUME NEW d \in Nat, NEW e \in Nat, d < e
    PROVE  (d + 1) * DayLength <= e * DayLength
<1>1. e - (d + 1) \in Nat /\ e = (d + 1) + (e - (d + 1))
  OBVIOUS
<1>2. PICK z \in Nat : e = (d + 1) + z
  BY <1>1
<1>3. DayLength \in Nat
  BY WorkingTimeAssumption
<1>4. e * DayLength = (d + 1) * DayLength + z * DayLength /\ z * DayLength \in Nat
  BY <1>2, <1>3
<1>5. (d + 1) * DayLength \in Nat
  BY <1>3
<1> QED BY <1>4, <1>5

LEMMA OneDay ==
    ASSUME NEW t \in Nat, NEW d \in Nat, NEW e \in Nat,
           d * DayLength <= t, t < (d + 1) * DayLength,
           e * DayLength <= t, t < (e + 1) * DayLength
    PROVE  d = e
<1>1. DayLength \in Nat
  BY WorkingTimeAssumption
<1>2. d * DayLength \in Nat /\ e * DayLength \in Nat
      /\ (d + 1) * DayLength \in Nat /\ (e + 1) * DayLength \in Nat
  BY <1>1
<1>3. ~(d < e)
  BY <1>2, DaysApart
<1>4. ~(e < d)
  BY <1>2, DaysApart
<1> QED BY <1>3, <1>4

LEMMA DayOrder ==
    ASSUME NEW s \in Nat, NEW t \in Nat, s <= t
    PROVE  s \div DayLength <= t \div DayLength
<1> DEFINE d == s \div DayLength
           e == t \div DayLength
<1>1. d \in Nat /\ d * DayLength <= s
  BY DayBounds
<1>2. e \in Nat /\ t < (e + 1) * DayLength
  BY DayBounds
<1> HIDE DEF d, e
<1>3. DayLength \in Nat
  BY WorkingTimeAssumption
<1>4. d * DayLength \in Nat /\ (e + 1) * DayLength \in Nat
  BY <1>1, <1>2, <1>3
<1>5. ~(e < d)
  BY <1>1, <1>2, <1>4, DaysApart
<1>6. d <= e
  BY <1>1, <1>2, <1>5
<1> QED BY <1>6 DEF d, e

(* The part of a placement inside a period covers what both cover.         *)
LEMMA ClipCovers ==
    ASSUME NEW p, NEW k, Booking(p), k.start \in Nat, k.end \in Nat,
           NEW worker, NEW kind, NEW candidate, NEW source
    PROVE  LET q == Clip(worker, kind, candidate, p, k, source)
           IN  /\ Overlaps(p, k) => Booking(q) /\ k.start <= q.start /\ q.end <= k.end
               /\ \A t \in Nat : Overlaps(p, k) /\ Covers(q, t) <=> Covers(p, t) /\ Covers(k, t)
<1> DEFINE q == Clip(worker, kind, candidate, p, k, source)
<1>1. p.start \in Nat /\ p.end \in Nat /\ p.start < p.end
  BY DEF Booking
<1>2. q.start = Max({p.start, k.start}) /\ q.end = Min({p.end, k.end})
  BY DEF Clip, WorkItem
<1>3. q.start = IF p.start >= k.start THEN p.start ELSE k.start
  BY <1>1, <1>2, MaxOfTwo
<1>4. q.end = IF p.end <= k.end THEN p.end ELSE k.end
  BY <1>1, <1>2, MinOfTwo
<1>5. Overlaps(p, k) <=> q.end > q.start
  BY <1>2 DEF Overlaps
<1> HIDE DEF q
<1>6. /\ Overlaps(p, k) => Booking(q) /\ k.start <= q.start /\ q.end <= k.end
      /\ \A t \in Nat : Overlaps(p, k) /\ Covers(q, t) <=> Covers(p, t) /\ Covers(k, t)
  BY <1>1, <1>3, <1>4, <1>5 DEF Booking, Covers
<1> QED BY <1>6 DEF q

(* The time that countable items inside a period cover is counted once.    *)
Inside(I, k) == \A i \in I : Booking(i) /\ k.start <= i.start /\ i.end <= k.end

(* The countable time of items inside a period is the number of its units  *)
(* that some item covers.                                                  *)
LEMMA CountableIs ==
    ASSUME NEW I, NEW k, k.start \in Nat, k.end \in Nat, Inside(I, k)
    PROVE  LET U == { t \in k.start .. (k.end - 1) : \E i \in I : Covers(i, t) }
           IN  CountableTime(I) = Cardinality(U) /\ Cardinality(U) \in Nat
<1> DEFINE S == { [start |-> i.start, end |-> i.end] : i \in I }
           U == { t \in k.start .. (k.end - 1) : \E i \in I : Covers(i, t) }
<1>1. Proper(S)
  BY DEF Proper, Intervals, Inside, Booking
<1>2. IsFiniteSet(S)
  <2> DEFINE A == k.start .. k.end
  <2>1. IsFiniteSet(A)
    <3>1. \A a, b \in Nat : IsFiniteSet(a .. b)
      BY FS_Interval
    <3> QED BY <3>1
  <2>2. IsFiniteSet(A \X A)
    BY <2>1, FS_Product
  <2> DEFINE B == { [start |-> x[1], end |-> x[2]] : x \in A \X A }
             F == [ x \in A \X A |-> [start |-> x[1], end |-> x[2]] ]
  <2>3. IsFiniteSet(B)
    <3>1. F \in Surjection(A \X A, B)
      BY DEF Surjection
    <3> HIDE DEF A, B, F
    <3> QED BY <2>2, <3>1, FS_Surjection
  <2>4. S \subseteq B
    <3> SUFFICES ASSUME NEW i \in I PROVE [start |-> i.start, end |-> i.end] \in B
      OBVIOUS
    <3>1. i.start \in A /\ i.end \in A
      BY DEF Inside, Booking
    <3>2. <<i.start, i.end>> \in A \X A
      BY <3>1
    <3> HIDE DEF A
    <3> QED BY <3>2
  <2> QED BY <2>3, <2>4, FS_Subset
<1>3. UnitsIn(S) = U
  <2>1. ASSUME NEW t \in UnitsIn(S) PROVE t \in U
    BY <2>1 DEF UnitsIn, Inside, Booking, Covers
  <2>2. ASSUME NEW t \in U PROVE t \in UnitsIn(S)
    <3>1. PICK i \in I : Covers(i, t)
      BY <2>2
    <3>2. t \in i.start .. (i.end - 1)
      BY <2>2, <3>1 DEF Covers, Inside, Booking
    <3> DEFINE j == [start |-> i.start, end |-> i.end]
    <3>3. j \in S /\ t \in j.start .. (j.end - 1)
      BY <3>2
    <3> HIDE DEF j, S
    <3> QED BY <3>3 DEF UnitsIn
  <2> QED BY <2>1, <2>2
<1>4. CountableTime(I) = Sweep(S).merged.time
  BY DEF CountableTime
<1> HIDE DEF S, U
<1>5. CountableTime(I) = Cardinality(U) /\ Cardinality(U) \in Nat
  BY <1>1, <1>2, <1>3, <1>4, SweepCounts
<1> QED BY <1>5 DEF U

(***************************************************************************)
(* Where the parts of a cut come from.                                     *)
(***************************************************************************)
Traced ==
    /\ stage \in {"markers", "selections", "decide"} =>
          \E w : \E f \in WorkingTimeFaults, b \in Bool : cut.working = WorkingTimeCut(w, f, b)
    /\ stage \in {"selections", "decide"} => \E w, u : cut.markers = MarkerCut(w, u)

LEMMA JoinedAdds ==
    ASSUME NEW r, NEW s, NEW f \in DOMAIN s, f \notin DOMAIN r
    PROVE  Joined(r, s)[f] = s[f]
BY DEF Joined

LEMMA TracedStep ==
    PartsCaptured /\ Traced /\ [AuthorityNext]_decisionVars => Traced'
<1> SUFFICES ASSUME PartsCaptured, Traced, [AuthorityNext]_decisionVars PROVE Traced'
  OBVIOUS
<1>1. CASE Begin
  BY <1>1 DEF Begin, Traced
<1>2. CASE CaptureSupport
  BY <1>2 DEF CaptureSupport, Traced
<1>3. CASE CaptureCost
  BY <1>3 DEF CaptureCost, Traced
<1>4. ASSUME NEW f \in WorkingTimeFaults, NEW b \in Bool, CaptureWorkingTime(f, b)
      PROVE  Traced'
  <2>1. "working" \notin DOMAIN cut
    BY <1>4 DEF CaptureWorkingTime, PartsCaptured, FirstParts
  <2>2. cut'.working = WorkingTimeCut(world, f, b)
    BY <1>4, <2>1, JoinedAdds DEF CaptureWorkingTime
  <2>3. stage' = "markers"
    BY <1>4 DEF CaptureWorkingTime
  <2> QED BY <1>4, <2>2, <2>3 DEF Traced
<1>5. ASSUME NEW u, CaptureMarkers(u) PROVE Traced'
  <2>1. "markers" \notin DOMAIN cut /\ "working" \in DOMAIN cut
    BY <1>5 DEF CaptureMarkers, PartsCaptured, FirstParts
  <2>2. cut'.markers = MarkerCut(world, u) /\ cut'.working = cut.working
    BY <1>5, <2>1, JoinedAdds, JoinedKeeps DEF CaptureMarkers
  <2>3. stage = "markers" /\ stage' = "selections"
    BY <1>5 DEF CaptureMarkers
  <2> QED BY <2>2, <2>3 DEF Traced
<1>6. ASSUME NEW p \in 0..1, SelectEvidence(p) PROVE Traced'
  <2>1. "markers" \in DOMAIN cut /\ "working" \in DOMAIN cut
    BY <1>6 DEF SelectEvidence, PartsCaptured, FirstParts
  <2>2. cut'.markers = cut.markers /\ cut'.working = cut.working
    BY <1>6, <2>1, JoinedKeeps DEF SelectEvidence
  <2>3. stage = "selections" /\ stage' = "decide"
    BY <1>6 DEF SelectEvidence
  <2> QED BY <2>2, <2>3 DEF Traced
<1>7. CASE Decide
  BY <1>7 DEF Decide, DecidedStage, Traced
<1>8. CASE Restart
  BY <1>8 DEF Restart, Traced
<1>9. CASE WorldMoves
  BY <1>9 DEF WorldMoves, Traced
<1>10. CASE UNCHANGED decisionVars
  BY <1>10 DEF decisionVars, Traced
<1> QED
  BY <1>1, <1>2, <1>3, <1>4, <1>5, <1>6, <1>7, <1>8, <1>9, <1>10 DEF AuthorityNext

(***************************************************************************)
(* What a current cut says of the stores.                                  *)
(***************************************************************************)
LEMMA ObservedNow ==
    ASSUME NEW c, NEW w, AllCurrent(c, Observed(w, c))
    PROVE  /\ c.input = InputOf(w) /\ c.support = SupportOf(w) /\ c.days = w.days
           /\ c.root = RootOf(w) /\ c.policy = w.policy /\ c.hard = w.hard
           /\ c.cost.delta = w.delta
           /\ c.owner = OwnerSelections(w, c)
           /\ c.consent = [r \in WorkerRequirements(c) |-> ConsentHead(w, r.scope)]
           /\ { r.threshold : r \in c.working.rules } = {w.threshold}
           /\ c.working.selections["WORKING_TIME_LEDGER"].state # "UNKNOWN"
           /\ c.working.selections["WORKING_TIME_LEDGER"].head = w.ledger
           /\ UNION { { e.head : e \in c.markers[s].evidence } : s \in DOMAIN c.markers }
                = {w.markers}
<1> DEFINE R == RequiredObservations(c)
           V == Observed(w, c)
<1>1. \A s \in DOMAIN R : s \notin UnknownSubjects(c) /\ R[s] = V[s]
  BY DEF AllCurrent, ExactMatch
<1>2. DOMAIN R = DOMAIN PlanObservations(c) \cup DOMAIN SupportObservations(c)
                 \cup DOMAIN SelectionObservations(c) \cup DOMAIN HeadObservations(c)
                 \cup DOMAIN DerivedObservations(c)
  BY DEF RequiredObservations, Joined
<1>3. /\ DOMAIN PlanObservations(c) =
            {"COMPANY_PLAN_REVISION_HEAD", "CURRENT_PLANNING_SCOPE", "M1_HANDOFF_PRECONDITIONS",
             "M2_JOB_TASK_PRECONDITIONS", "M2_ASSIGNMENT_PRECONDITIONS",
             "PLAN_DAY_PRECONDITIONS", "EVALUATION_INPUT_BINDING"}
      /\ DOMAIN SupportObservations(c) =
            {"C0_SUPPORT_SELECTED_SOURCES", "M3_C_RECOMPUTATION", "M5_M3_D_CHAIN",
             "AUTH_0_BINDING", "POLICY_BINDING"}
      /\ DOMAIN SelectionObservations(c) = {"OWNER_APPROVAL_SELECTIONS", "WORKER_CONSENT_HEADS"}
      /\ DOMAIN HeadObservations(c) =
            {"WORKING_TIME_RULE_HEAD", "WORKING_TIME_C0_HEAD", "WORKING_TIME_LEDGER_HEAD",
             "AUTHORITY_MARKER_HEADS"}
      /\ DOMAIN DerivedObservations(c) = {"HARD_BOUNDARIES", "AUTHORITY_REQUIREMENTS"}
  BY DEF PlanObservations, SupportObservations, SelectionObservations, HeadObservations,
         DerivedObservations
<1>4. /\ \A s \in DOMAIN PlanObservations(c) : R[s] = PlanObservations(c)[s]
      /\ \A s \in DOMAIN SupportObservations(c) : R[s] = SupportObservations(c)[s]
      /\ \A s \in DOMAIN SelectionObservations(c) : R[s] = SelectionObservations(c)[s]
      /\ \A s \in DOMAIN HeadObservations(c) : R[s] = HeadObservations(c)[s]
      /\ \A s \in DOMAIN DerivedObservations(c) : R[s] = DerivedObservations(c)[s]
  BY <1>3 DEF RequiredObservations, Joined
<1> HIDE DEF R, V
<1>5. c.input = InputOf(w) /\ c.days = w.days
  <2>1. V["EVALUATION_INPUT_BINDING"] = InputOf(w) /\ V["PLAN_DAY_PRECONDITIONS"] = w.days
    BY DEF V, Observed
  <2>2. /\ PlanObservations(c)["EVALUATION_INPUT_BINDING"] = c.input
        /\ PlanObservations(c)["PLAN_DAY_PRECONDITIONS"] = c.days
    BY DEF PlanObservations
  <2> QED BY <1>1, <1>2, <1>3, <1>4, <2>1, <2>2
<1>6. /\ c.support = SupportOf(w) /\ c.root = RootOf(w) /\ c.policy = w.policy
      /\ c.cost.delta = w.delta
  <2>1. /\ V["C0_SUPPORT_SELECTED_SOURCES"] = SupportOf(w)
        /\ V["AUTH_0_BINDING"] = RootOf(w) /\ V["POLICY_BINDING"] = w.policy
        /\ V["M5_M3_D_CHAIN"].delta = w.delta
    BY DEF V, Observed, CostSupportOf
  <2>2. /\ SupportObservations(c)["C0_SUPPORT_SELECTED_SOURCES"] = c.support
        /\ SupportObservations(c)["AUTH_0_BINDING"] = c.root
        /\ SupportObservations(c)["POLICY_BINDING"] = c.policy
        /\ SupportObservations(c)["M5_M3_D_CHAIN"] = c.cost
    BY DEF SupportObservations
  <2> QED BY <1>1, <1>2, <1>3, <1>4, <2>1, <2>2
<1>7. /\ c.owner = OwnerSelections(w, c)
      /\ c.consent = [r \in WorkerRequirements(c) |-> ConsentHead(w, r.scope)]
  <2>1. /\ V["OWNER_APPROVAL_SELECTIONS"] = OwnerSelections(w, c)
        /\ V["WORKER_CONSENT_HEADS"] = [r \in WorkerRequirements(c) |-> ConsentHead(w, r.scope)]
    BY DEF V, Observed
  <2>2. /\ SelectionObservations(c)["OWNER_APPROVAL_SELECTIONS"] = c.owner
        /\ SelectionObservations(c)["WORKER_CONSENT_HEADS"] = c.consent
    BY DEF SelectionObservations
  <2> QED BY <1>1, <1>2, <1>3, <1>4, <2>1, <2>2
<1>8. /\ { r.threshold : r \in c.working.rules } = {w.threshold}
      /\ c.working.selections["WORKING_TIME_LEDGER"].head = w.ledger
      /\ UNION { { e.head : e \in c.markers[s].evidence } : s \in DOMAIN c.markers }
           = {w.markers}
  <2>1. /\ V["WORKING_TIME_RULE_HEAD"] = {w.threshold} /\ V["WORKING_TIME_LEDGER_HEAD"] = w.ledger
        /\ V["AUTHORITY_MARKER_HEADS"] = {w.markers}
    BY DEF V, Observed
  <2>2. /\ HeadObservations(c)["WORKING_TIME_RULE_HEAD"]
              = { r.threshold : r \in c.working.rules }
        /\ HeadObservations(c)["WORKING_TIME_LEDGER_HEAD"]
              = c.working.selections["WORKING_TIME_LEDGER"].head
        /\ HeadObservations(c)["AUTHORITY_MARKER_HEADS"]
              = UNION { { e.head : e \in c.markers[s].evidence } : s \in DOMAIN c.markers }
    BY DEF HeadObservations
  <2>3. /\ R["WORKING_TIME_RULE_HEAD"] = V["WORKING_TIME_RULE_HEAD"]
        /\ R["WORKING_TIME_LEDGER_HEAD"] = V["WORKING_TIME_LEDGER_HEAD"]
        /\ R["AUTHORITY_MARKER_HEADS"] = V["AUTHORITY_MARKER_HEADS"]
    BY <1>1, <1>2, <1>3
  <2>4. /\ R["WORKING_TIME_RULE_HEAD"] = HeadObservations(c)["WORKING_TIME_RULE_HEAD"]
        /\ R["WORKING_TIME_LEDGER_HEAD"] = HeadObservations(c)["WORKING_TIME_LEDGER_HEAD"]
        /\ R["AUTHORITY_MARKER_HEADS"] = HeadObservations(c)["AUTHORITY_MARKER_HEADS"]
    BY <1>3, <1>4
  <2> QED BY <2>1, <2>2, <2>3, <2>4
<1>9. c.hard = w.hard
  <2>1. V["HARD_BOUNDARIES"] = w.hard
    BY DEF V, Observed
  <2>2. DerivedObservations(c)["HARD_BOUNDARIES"] = c.hard
    BY DEF DerivedObservations
  <2> QED BY <1>1, <1>2, <1>3, <1>4, <2>1, <2>2
<1>10. c.working.selections["WORKING_TIME_LEDGER"].state # "UNKNOWN"
  <2>1. "WORKING_TIME_LEDGER_HEAD" \notin UnknownSubjects(c)
    BY <1>1, <1>2, <1>3
  <2> QED BY <2>1 DEF UnknownSubjects, SourceKinds
<1> QED BY <1>5, <1>6, <1>7, <1>8, <1>9, <1>10

(***************************************************************************)
(* The work items of a worker's day and the units they cover.              *)
(***************************************************************************)
Day(worker, d) == [worker |-> worker, start |-> d * DayLength, end |-> (d + 1) * DayLength]

LEMMA DayIs ==
    ASSUME NEW worker, NEW d \in Nat
    PROVE  /\ Day(worker, d).worker = worker
           /\ Day(worker, d).start = d * DayLength /\ Day(worker, d).end = (d + 1) * DayLength
           /\ Day(worker, d).start \in Nat /\ Day(worker, d).end \in Nat
           /\ UnitsOf(d) = Day(worker, d).start .. (Day(worker, d).end - 1)
<1>1. DayLength \in Nat
  BY WorkingTimeAssumption
<1>2. d * DayLength \in Nat /\ (d + 1) * DayLength \in Nat
  BY <1>1
<1> QED BY <1>2 DEF Day, UnitsOf

(* What the plan leaves as it is covers the units of the day that the      *)
(* placements of unmodified commitments cover.                             *)
LEMMA PlannedCovers ==
    ASSUME NEW n \in Positions, NEW k, k.start \in Nat, k.end \in Nat, NEW source
    PROVE  LET I == ExpectedC0Common(CandidateSeq[n], k, source)
           IN  /\ Inside(I, k)
               /\ \A t \in k.start .. (k.end - 1) : (\E i \in I : Covers(i, t)) <=>
                    \E p \in Schedule : p.commitment \notin CandidateSeq[n].modified
                                        /\ k.worker \in p.workers /\ Covers(p, t)
<1> DEFINE C(p) == Clip(k.worker, "UNCHANGED_SCHEDULED", NONE, p, k, source)
           mine == { q \in Schedule : q.commitment \notin CandidateSeq[n].modified
                                      /\ k.worker \in q.workers /\ Overlaps(q, k) }
           I == { C(p) : p \in mine }
<1>1. \A p \in Schedule :
         /\ Overlaps(p, k) => Booking(C(p)) /\ k.start <= C(p).start /\ C(p).end <= k.end
         /\ \A t \in Nat : Overlaps(p, k) /\ Covers(C(p), t) <=> Covers(p, t) /\ Covers(k, t)
  <2> SUFFICES ASSUME NEW p \in Schedule
               PROVE  /\ Overlaps(p, k) => Booking(C(p)) /\ k.start <= C(p).start /\ C(p).end <= k.end
                      /\ \A t \in Nat : Overlaps(p, k) /\ Covers(C(p), t)
                                        <=> Covers(p, t) /\ Covers(k, t)
    OBVIOUS
  <2>1. Booking(p)
    BY WorkingTimeAssumption DEF Booking
  <2> QED BY <2>1, ClipCovers
<1> HIDE DEF C
<1>2. Inside(I, k)
  BY <1>1 DEF Inside
<1>3. ASSUME NEW t \in k.start .. (k.end - 1)
      PROVE  (\E i \in I : Covers(i, t)) <=>
               \E p \in Schedule : p.commitment \notin CandidateSeq[n].modified
                                   /\ k.worker \in p.workers /\ Covers(p, t)
  <2>1. t \in Nat /\ Covers(k, t)
    BY <1>3 DEF Covers
  <2> QED BY <1>1, <2>1
<1> QED BY <1>2, <1>3 DEF ExpectedC0Common, C

(* What the candidate takes away covers the units of the modified          *)
(* baseline.                                                               *)
LEMMA ChangedCovers ==
    ASSUME NEW n \in Positions, NEW k, k.start \in Nat, k.end \in Nat, NEW source
    PROVE  LET I == ExpectedBaseline(CandidateSeq[n], k, source)
           IN  /\ Inside(I, k)
               /\ \A t \in k.start .. (k.end - 1) : (\E i \in I : Covers(i, t)) <=>
                    \E p \in Schedule : p.commitment \in CandidateSeq[n].modified
                                        /\ k.worker \in p.workers /\ Covers(p, t)
<1> DEFINE C(p) == Clip(k.worker, "BASELINE_CHANGED", NONE, p, k, source)
           mine == { q \in Schedule : q.commitment \in CandidateSeq[n].modified
                                      /\ k.worker \in q.workers /\ Overlaps(q, k) }
           I == { C(p) : p \in mine }
<1>1. \A p \in Schedule :
         /\ Overlaps(p, k) => Booking(C(p)) /\ k.start <= C(p).start /\ C(p).end <= k.end
         /\ \A t \in Nat : Overlaps(p, k) /\ Covers(C(p), t) <=> Covers(p, t) /\ Covers(k, t)
  <2> SUFFICES ASSUME NEW p \in Schedule
               PROVE  /\ Overlaps(p, k) => Booking(C(p)) /\ k.start <= C(p).start /\ C(p).end <= k.end
                      /\ \A t \in Nat : Overlaps(p, k) /\ Covers(C(p), t)
                                        <=> Covers(p, t) /\ Covers(k, t)
    OBVIOUS
  <2>1. Booking(p)
    BY WorkingTimeAssumption DEF Booking
  <2> QED BY <2>1, ClipCovers
<1> HIDE DEF C
<1>2. Inside(I, k)
  BY <1>1 DEF Inside
<1>3. ASSUME NEW t \in k.start .. (k.end - 1)
      PROVE  (\E i \in I : Covers(i, t)) <=>
               \E p \in Schedule : p.commitment \in CandidateSeq[n].modified
                                   /\ k.worker \in p.workers /\ Covers(p, t)
  <2>1. t \in Nat /\ Covers(k, t)
    BY <1>3 DEF Covers
  <2> QED BY <1>1, <2>1
<1> QED BY <1>2, <1>3 DEF ExpectedBaseline, C

(* What the candidate gives covers the units of its proposed placements.   *)
LEMMA ProposedCovers ==
    ASSUME NEW n \in Positions, NEW k, k.start \in Nat, k.end \in Nat
    PROVE  LET I == ExpectedCandidate(CandidateSeq[n], k)
           IN  /\ Inside(I, k)
               /\ \A t \in k.start .. (k.end - 1) : (\E i \in I : Covers(i, t)) <=>
                    \E p \in CandidateSeq[n].proposed : p.worker = k.worker /\ Covers(p, t)
<1> DEFINE c == CandidateSeq[n]
           C(p) == Clip(k.worker, "PROPOSED_CANDIDATE", c.id, p, k, <<"CANDIDATE", c.id>>)
           mine == { q \in c.proposed : q.commitment \in c.modified
                                        /\ q.worker = k.worker /\ Overlaps(q, k) }
           I == { C(p) : p \in mine }
<1>1. \A p \in c.proposed :
         /\ p.commitment \in c.modified
         /\ Overlaps(p, k) => Booking(C(p)) /\ k.start <= C(p).start /\ C(p).end <= k.end
         /\ \A t \in Nat : Overlaps(p, k) /\ Covers(C(p), t) <=> Covers(p, t) /\ Covers(k, t)
  <2> SUFFICES ASSUME NEW p \in c.proposed
               PROVE  /\ p.commitment \in c.modified
                      /\ Overlaps(p, k) => Booking(C(p)) /\ k.start <= C(p).start /\ C(p).end <= k.end
                      /\ \A t \in Nat : Overlaps(p, k) /\ Covers(C(p), t)
                                        <=> Covers(p, t) /\ Covers(k, t)
    OBVIOUS
  <2>1. Booking(p) /\ p.commitment \in c.modified
    BY WorkingTimeAssumption DEF Booking, Positions
  <2> QED BY <2>1, ClipCovers
<1> HIDE DEF C
<1>2. Inside(I, k)
  BY <1>1 DEF Inside
<1>3. ASSUME NEW t \in k.start .. (k.end - 1)
      PROVE  (\E i \in I : Covers(i, t)) <=>
               \E p \in c.proposed : p.worker = k.worker /\ Covers(p, t)
  <2>1. t \in Nat /\ Covers(k, t)
    BY <1>3 DEF Covers
  <2> QED BY <1>1, <2>1
<1> QED BY <1>2, <1>3 DEF ExpectedCandidate, C

(* A day on which a candidate takes time from or gives time to a worker is *)
(* one of the periods the cut is expected to compare.                      *)
LEMMA TouchedIsExpected ==
    ASSUME NEW n \in Positions, NEW W, NEW worker, NEW d \in TouchedDays(CandidateSeq[n], worker),
           WorkersWithoutRules(W, CandidateSeq[n]) = {}
    PROVE  d \in Nat /\ Day(worker, d) \in ExpectedPeriods(W, CandidateSeq[n])
<1> DEFINE c == CandidateSeq[n]
<1>1. \E i \in ChangedIntervals(c, worker) :
         i.start \in Nat /\ i.end \in Nat /\ d \in DaysOf(i.start, i.end)
      /\ worker \in ChangedWorkers(c)
  <2>1. CASE \E p \in Schedule : p.commitment \in c.modified /\ worker \in p.workers
                                 /\ d \in DaysOf(p.start, p.end)
    <3>1. PICK p \in Schedule : p.commitment \in c.modified /\ worker \in p.workers
                                /\ d \in DaysOf(p.start, p.end)
      BY <2>1
    <3>2. BaselineOf(p.commitment) = p
      BY WorkingTimeAssumption DEF BaselineOf
    <3>3. p.start \in Nat /\ p.end \in Nat
      BY WorkingTimeAssumption
    <3> DEFINE i == [start |-> BaselineOf(p.commitment).start, end |-> BaselineOf(p.commitment).end]
    <3>4. i \in ChangedIntervals(c, worker) /\ worker \in ChangedWorkers(c)
      BY <3>1, <3>2 DEF ChangedIntervals, ChangedWorkers
    <3>5. i.start = p.start /\ i.end = p.end
      BY <3>2
    <3> HIDE DEF i
    <3> QED BY <3>1, <3>3, <3>4, <3>5
  <2>2. CASE \E p \in c.proposed : p.worker = worker /\ d \in DaysOf(p.start, p.end)
    <3>1. PICK p \in c.proposed : p.worker = worker /\ d \in DaysOf(p.start, p.end)
      BY <2>2
    <3>2. p.commitment \in c.modified /\ p.start \in Nat /\ p.end \in Nat
      BY WorkingTimeAssumption DEF Positions
    <3>3. ProposedOf(c, p.commitment) = p
      BY WorkingTimeAssumption DEF ProposedOf, Positions
    <3> DEFINE i == [start |-> ProposedOf(c, p.commitment).start,
                     end |-> ProposedOf(c, p.commitment).end]
    <3>4. i \in ChangedIntervals(c, worker) /\ worker \in ChangedWorkers(c)
      BY <3>1, <3>2, <3>3 DEF ChangedIntervals, ChangedWorkers
    <3>5. i.start = p.start /\ i.end = p.end
      BY <3>3
    <3> HIDE DEF i
    <3> QED BY <3>1, <3>2, <3>4, <3>5
  <2> QED BY <2>1, <2>2 DEF TouchedDays
<1>2. PICK i \in ChangedIntervals(c, worker) :
         i.start \in Nat /\ i.end \in Nat /\ d \in DaysOf(i.start, i.end)
  BY <1>1
<1>3. PICK t \in i.start .. (i.end - 1) : d = t \div DayLength
  BY <1>2 DEF DaysOf
<1>4. t \in Nat /\ i.end - 1 \in Nat /\ i.start <= t /\ t <= i.end - 1
  BY <1>2, <1>3
<1>5. d \in Nat /\ d \in (i.start \div DayLength) .. ((i.end - 1) \div DayLength)
  <2>1. /\ i.start \div DayLength <= t \div DayLength
        /\ t \div DayLength <= (i.end - 1) \div DayLength
    BY <1>2, <1>4, DayOrder
  <2>2. /\ i.start \div DayLength \in Nat /\ t \div DayLength \in Nat
        /\ (i.end - 1) \div DayLength \in Nat
    BY <1>2, <1>4, DayBounds
  <2> QED BY <1>3, <2>1, <2>2
<1> DEFINE p == [start |-> d * DayLength, end |-> (d + 1) * DayLength]
<1>6. p \in LocalCalendarPeriods(ChangedIntervals(c, worker))
  BY <1>2, <1>5 DEF LocalCalendarPeriods
<1>7. worker \in ChangedWorkers(c) \ WorkersWithoutRules(W, c)
  BY <1>1
<1>8. [worker |-> worker, start |-> p.start, end |-> p.end] \in ExpectedPeriods(W, c)
  <2> HIDE DEF p
  <2> QED BY <1>6, <1>7 DEF ExpectedPeriods
<1> QED BY <1>5, <1>8 DEF Day

LEMMA TouchedIsDay ==
    ASSUME NEW n \in Positions, NEW worker, NEW d \in TouchedDays(CandidateSeq[n], worker)
    PROVE  d \in Nat
<1>1. PICK s, e : s \in Nat /\ e \in Nat /\ d \in DaysOf(s, e)
  BY WorkingTimeAssumption DEF TouchedDays, Positions
<1>2. PICK t \in s .. (e - 1) : d = t \div DayLength
  BY <1>1 DEF DaysOf
<1>3. t \in Nat
  BY <1>1, <1>2
<1> QED BY <1>2, <1>3, DayBounds

LEMMA CapturedIsDay ==
    ASSUME NEW f, NEW n \in Positions, NEW k \in CapturedKeys(f, n)
    PROVE  \E worker \in RegisteredWorkers : \E d \in Nat : k = Day(worker, d)
BY TouchedIsDay DEF CapturedKeys, CapturedPeriods, Day

(* The booked work is all there: what the ledger's manifest lists is what  *)
(* the ledger holds, and each of it lies in one day.                       *)
LEMMA BookedCovers ==
    ASSUME NEW w, NEW f, NEW b, f # "LEDGER_UNKNOWN", LedgerContentOK(WorkingTimeCut(w, f, b)),
           \A l \in w.ledger : Booking(l), NEW worker, NEW d \in Nat
    PROVE  LET I == BookedWork(w, f, Day(worker, d))
           IN  /\ Inside(I, Day(worker, d))
               /\ \A t \in UnitsOf(d) : (\E i \in I : Covers(i, t)) <=>
                    \E l \in w.ledger : l.worker = worker /\ Covers(l, t)
<1> DEFINE k == Day(worker, d)
           I == BookedWork(w, f, k)
           W == WorkingTimeCut(w, f, b)
           M == ManifestOf(w, f, "WORKING_TIME_LEDGER")
           Item(l) == WorkItem(l.worker, l.kind, l.commitment, NONE, l.start, l.end,
                               <<"WORKING_TIME_LEDGER", w.ledger>>)
<1>1. /\ k.worker = worker /\ k.start = d * DayLength /\ k.end = (d + 1) * DayLength
      /\ k.start \in Nat /\ k.end \in Nat /\ UnitsOf(d) = k.start .. (k.end - 1)
  BY DayIs
<1>2. \A l : Item(l).start = l.start /\ Item(l).end = l.end /\ Item(l).worker = l.worker
             /\ LedgerSourceItem(Item(l)).start = l.start /\ LedgerSourceItem(Item(l)).end = l.end
             /\ LedgerSourceItem(Item(l)).worker = l.worker
  BY DEF WorkItem, LedgerSourceItem
<1>3. \A key : \A i : i \in LedgerWork(w.ledger, key) <=>
         \E l \in w.ledger : i = Item(l) /\ l.worker = key.worker /\ l.start >= key.start
                             /\ l.end <= key.end
  BY DEF LedgerWork
<1>4. w.ledger = { LedgerSourceItem(i) : i \in EntryItems(M) }
  <2>1. W.manifests["WORKING_TIME_LEDGER"] = M /\ "WORKING_TIME_LEDGER" \in DOMAIN W.manifests
    BY DEF WorkingTimeCut, SourceKinds
  <2>2. M.head = w.ledger
    BY DEF ManifestOf
  <2> HIDE DEF W, M
  <2> QED BY <2>1, <2>2 DEF LedgerContentOK, W
<1> HIDE DEF k, Item
<1>5. Inside(I, k)
  BY <1>2, <1>3 DEF Inside, BookedWork, Booking
<1>6. ASSUME NEW l \in w.ledger
      PROVE  /\ f # "LEDGER_WORK_LEFT_OUT"
             /\ \E e \in Nat : e * DayLength <= l.start /\ l.end <= (e + 1) * DayLength
  <2>1. PICK i \in EntryItems(M) : l = LedgerSourceItem(i)
    BY <1>4, <1>6
  <2>a. PICK x \in M.entries : i \in x.items
    BY <2>1 DEF EntryItems
  <2>b. PICK n \in Positions : x \in { EntryOf(w, f, "WORKING_TIME_LEDGER", n, key) :
                                        key \in CapturedKeys(f, n) }
    BY <2>a DEF ManifestOf
  <2>c. PICK key \in CapturedKeys(f, n) : x = EntryOf(w, f, "WORKING_TIME_LEDGER", n, key)
    BY <2>b
  <2>2. i \in BookedWork(w, f, key)
    BY <2>a, <2>c DEF EntryOf
  <2>3. f # "LEDGER_WORK_LEFT_OUT" /\ i \in LedgerWork(w.ledger, key)
    BY <2>2 DEF BookedWork
  <2>4. PICK j \in w.ledger : i = Item(j) /\ j.start >= key.start /\ j.end <= key.end
    BY <1>3, <2>3
  <2>5. l.start = j.start /\ l.end = j.end
    BY <1>2, <2>1, <2>4
  <2>6. PICK y \in RegisteredWorkers : \E e \in Nat : key = Day(y, e)
    BY CapturedIsDay
  <2>7. PICK e \in Nat : key = Day(y, e)
    BY <2>6
  <2>8. key.start = e * DayLength /\ key.end = (e + 1) * DayLength
        /\ key.start \in Nat /\ key.end \in Nat
    BY <2>7, DayIs
  <2>9. e * DayLength <= l.start /\ l.end <= (e + 1) * DayLength
    BY <2>4, <2>5, <2>8 DEF Booking
  <2> QED BY <2>3, <2>9
<1>7. ASSUME NEW t \in UnitsOf(d), NEW l \in w.ledger, l.worker = worker, Covers(l, t)
      PROVE  \E i \in I : Covers(i, t)
  <2>1. PICK e \in Nat : e * DayLength <= l.start /\ l.end <= (e + 1) * DayLength
    BY <1>6
  <2>2. /\ t \in Nat /\ d * DayLength <= t /\ t < (d + 1) * DayLength
        /\ l.start <= t /\ t < l.end /\ l.start \in Nat /\ l.end \in Nat
    BY <1>1, <1>7 DEF Covers, Booking
  <2>3. e * DayLength \in Nat /\ (e + 1) * DayLength \in Nat
    BY WorkingTimeAssumption
  <2>4. e * DayLength <= t /\ t < (e + 1) * DayLength
    BY <2>1, <2>2, <2>3
  <2>5. d = e
    BY <2>2, <2>4, OneDay
  <2>6. l.start >= k.start /\ l.end <= k.end
    BY <1>1, <2>1, <2>2, <2>5
  <2>7. Item(l) \in I
    BY <1>1, <1>3, <1>6, <1>7, <2>6 DEF BookedWork
  <2>8. Covers(Item(l), t)
    BY <1>2, <1>7 DEF Covers
  <2> QED BY <2>7, <2>8
<1>8. ASSUME NEW t \in UnitsOf(d), NEW i \in I, Covers(i, t)
      PROVE  \E l \in w.ledger : l.worker = worker /\ Covers(l, t)
  <2>1. PICK l \in w.ledger : i = Item(l) /\ l.worker = worker
    BY <1>1, <1>3, <1>8 DEF BookedWork
  <2> QED BY <1>2, <1>8, <2>1 DEF Covers
<1> QED BY <1>5, <1>7, <1>8 DEF k

(* What the checks leave of a comparison: both sides hold all the work of  *)
(* the day that the plan and the candidate give.                           *)
LEMMA ComparedWork ==
    ASSUME NEW w, NEW f, NEW b, f # "LEDGER_UNKNOWN", NEW n \in Positions,
           NEW W, W = WorkingTimeCut(w, f, b), WorkingTimeEvidenceCutOK(W),
           NEW k \in CapturedKeys(f, n),
           NEW m, m = ComparisonOf(w, f, b, n, k), m.complete, W.evidence[n].complete,
           ComparisonAgainstCandidateOK(W, n, m, PlanHead(w)),
           PeriodKey(m) = k, m.baseline \cup m.candidate \subseteq W.items
    PROVE  /\ m.baseline = ExpectedC0Common(CandidateSeq[n], k, PlanHead(w))
                           \cup BookedWork(w, f, k)
                           \cup ExpectedBaseline(CandidateSeq[n], k, PlanHead(w))
           /\ m.candidate = ExpectedC0Common(CandidateSeq[n], k, PlanHead(w))
                           \cup BookedWork(w, f, k)
                           \cup ExpectedCandidate(CandidateSeq[n], k)
<1> DEFINE c == CandidateSeq[n]
           P == PlannedWork(w, f, n, k)
           B == BookedWork(w, f, k)
           N == Unless(f, "NEW_WORK_LEFT_OUT", ExpectedCandidate(c, k))
<1>1. /\ m.baseline = P \cup B \cup ExpectedBaseline(c, k, PlanHead(w))
      /\ m.candidate = P \cup B \cup N
  BY DEF ComparisonOf, ItemsBefore, ItemsAfter
<1>2. /\ { i \in m.baseline : i.kind = "UNCHANGED_SCHEDULED" /\ i.source = PlanHead(w) }
            = ExpectedC0Common(c, k, PlanHead(w))
      /\ { i \in m.candidate : i.kind = "PROPOSED_CANDIDATE" } = ExpectedCandidate(c, k)
  BY DEF ComparisonAgainstCandidateOK, OfKind
<1>3. \A i \in ExpectedBaseline(c, k, PlanHead(w)) : i.kind # "UNCHANGED_SCHEDULED"
  <2>1. \A p : Clip(k.worker, "BASELINE_CHANGED", NONE, p, k, PlanHead(w)).kind
                 # "UNCHANGED_SCHEDULED"
    BY DEF Clip, WorkItem
  <2> QED BY <2>1 DEF ExpectedBaseline
<1>4. \A i \in B : i.source # PlanHead(w) /\ i.candidate = NONE
  BY DEF BookedWork, LedgerWork, WorkItem, PlanHead
<1>5. \A i \in m.candidate : i.kind = "PROPOSED_CANDIDATE" => i.candidate # NONE
  BY DEF WorkingTimeEvidenceCutOK, WorkItemOK
<1>6. \A i \in ExpectedC0Common(c, k, PlanHead(w)) : i.kind # "PROPOSED_CANDIDATE"
  <2>1. \A p : Clip(k.worker, "UNCHANGED_SCHEDULED", NONE, p, k, PlanHead(w)).kind
                 # "PROPOSED_CANDIDATE"
    BY DEF Clip, WorkItem
  <2> QED BY <2>1 DEF ExpectedC0Common
<1>7. P = ExpectedC0Common(c, k, PlanHead(w))
  <2>1. CASE f = "PLAN_WORK_LEFT_OUT"
    <3>1. P = {}
      BY <2>1 DEF PlannedWork, Unless
    <3> QED BY <1>1, <1>2, <1>3, <1>4, <3>1
  <2>2. CASE f # "PLAN_WORK_LEFT_OUT"
    BY <2>2 DEF PlannedWork, Unless
  <2> QED BY <2>1, <2>2
<1>8. N = ExpectedCandidate(c, k)
  <2>1. CASE f = "NEW_WORK_LEFT_OUT"
    <3>1. N = {}
      BY <2>1 DEF Unless
    <3> HIDE DEF N, P, B
    <3> QED BY <1>1, <1>2, <1>4, <1>5, <1>6, <1>7, <3>1
  <2>2. CASE f # "NEW_WORK_LEFT_OUT"
    BY <2>2 DEF Unless
  <2> QED BY <2>1, <2>2
<1> QED BY <1>1, <1>7, <1>8

LEMMA ExcessGrows ==
    ASSUME NEW x \in Nat, NEW y \in Nat, x <= y, NEW h \in Int
    PROVE  Max({0, x - h}) <= Max({0, y - h})
<1>1. Max({0, x - h}) = IF 0 >= x - h THEN 0 ELSE x - h
  BY MaxOfTwo
<1>2. Max({0, y - h}) = IF 0 >= y - h THEN 0 ELSE y - h
  BY MaxOfTwo
<1> QED BY <1>1, <1>2

(* On a day that the candidate gives a worker no time, that worker works   *)
(* no more than before.                                                    *)
LEMMA UntouchedGainsNothing ==
    ASSUME BoundariesKnown, NEW n \in Positions, NEW worker, NEW d \in Nat,
           d \notin TouchedDays(CandidateSeq[n], worker)
    PROVE  Excess({ t \in UnitsOf(d) : WorksAfter(CandidateSeq[n], worker, t) })
              <= Excess({ t \in UnitsOf(d) : WorksBefore(worker, t) })
<1> DEFINE c == CandidateSeq[n]
           A == { t \in UnitsOf(d) : WorksAfter(c, worker, t) }
           B == { t \in UnitsOf(d) : WorksBefore(worker, t) }
<1>1. IsFiniteSet(UnitsOf(d)) /\ \A t \in UnitsOf(d) : t \in Nat /\ t \div DayLength = d
  <2> DEFINE k == Day(worker, d)
  <2>1. /\ k.start = d * DayLength /\ k.end = (d + 1) * DayLength
        /\ k.start \in Nat /\ k.end \in Nat /\ UnitsOf(d) = k.start .. (k.end - 1)
    BY DayIs
  <2> HIDE DEF k
  <2>2. IsFiniteSet(k.start .. (k.end - 1))
    BY <2>1, FS_Interval
  <2>3. ASSUME NEW t \in UnitsOf(d) PROVE t \in Nat /\ t \div DayLength = d
    <3>1. t \in Nat /\ d * DayLength <= t /\ t < (d + 1) * DayLength
      BY <2>1
    <3>2. /\ t \div DayLength \in Nat /\ (t \div DayLength) * DayLength <= t
          /\ t < ((t \div DayLength) + 1) * DayLength
      BY <3>1, DayBounds
    <3> DEFINE e == t \div DayLength
    <3> HIDE DEF e
    <3>3. e \in Nat /\ e * DayLength <= t /\ t < (e + 1) * DayLength
      BY <3>2 DEF e
    <3>4. e = d
      BY <3>1, <3>3, OneDay
    <3> QED BY <3>1, <3>4 DEF e
  <2> QED BY <2>1, <2>2, <2>3
<1>2. A \subseteq B
  <2> SUFFICES ASSUME NEW t \in UnitsOf(d), WorksAfter(c, worker, t) PROVE WorksBefore(worker, t)
    OBVIOUS
  <2>1. ASSUME NEW p \in c.proposed, p.worker = worker, Covers(p, t) PROVE FALSE
    <3>1. p.start \in Nat /\ p.end \in Nat
      BY WorkingTimeAssumption DEF Positions
    <3>2. t \in p.start .. (p.end - 1)
      BY <1>1, <2>1, <3>1 DEF Covers
    <3>3. d \in DaysOf(p.start, p.end)
      BY <1>1, <3>2 DEF DaysOf
    <3>4. d \in TouchedDays(c, worker)
      BY <2>1, <3>3 DEF TouchedDays
    <3> QED BY <3>4
  <2> QED BY <2>1 DEF WorksAfter, WorksBefore
<1>3. IsFiniteSet(A) /\ IsFiniteSet(B)
  BY <1>1, FS_Subset
<1> HIDE DEF A, B
<1>4. Cardinality(A) \in Nat /\ Cardinality(B) \in Nat /\ Cardinality(A) <= Cardinality(B)
  BY <1>2, <1>3, FS_Subset, FS_CardinalityType
<1>5. world.threshold \in Int
  BY DEF BoundariesKnown, StoresOK
<1>6. Excess(A) <= Excess(B)
  BY <1>4, <1>5, ExcessGrows DEF Excess
<1> QED BY <1>6 DEF A, B

(* On a day it does, a current cut without overtime has the derived        *)
(* amounts of that very day, over all the booked, planned and new work.    *)
LEMMA TouchedGainsNothing ==
    ASSUME BoundariesKnown, Traced, stage = "decide", EvidenceBound(cut),
           AllCurrent(cut, Observed(world, cut)), NEW n \in Positions,
           OvertimeApplicability(cut.working.evidence[n]) = "DOES_NOT_CREATE_OVERTIME",
           NEW worker, NEW d \in TouchedDays(CandidateSeq[n], worker)
    PROVE  Excess({ t \in UnitsOf(d) : WorksAfter(CandidateSeq[n], worker, t) })
              <= Excess({ t \in UnitsOf(d) : WorksBefore(worker, t) })
<1> DEFINE c == CandidateSeq[n]
           W == cut.working
           ev == W.evidence[n]
           k == Day(worker, d)
<1>1. PICK w : \E f \in WorkingTimeFaults, b \in Bool : W = WorkingTimeCut(w, f, b)
  BY DEF Traced
<1>2. PICK f \in WorkingTimeFaults, b \in Bool : W = WorkingTimeCut(w, f, b)
  BY <1>1
<1> HIDE DEF W
<1>3. /\ W.evidence = EvidenceOf(w, f, b)
      /\ W.manifests["C0_PLAN_SCHEDULE"].head = w.plan
      /\ W.selections["WORKING_TIME_LEDGER"] = SelectionOf(w, f, "WORKING_TIME_LEDGER")
      /\ W.rules = { m.rule : m \in UNION { W.evidence[i].comparisons : i \in Positions } }
  <2>1. "C0_PLAN_SCHEDULE" \in SourceKinds /\ "WORKING_TIME_LEDGER" \in SourceKinds
    BY DEF SourceKinds
  <2>2. ManifestOf(w, f, "C0_PLAN_SCHEDULE").head = w.plan
    BY DEF ManifestOf
  <2> QED BY <1>2, <2>1, <2>2 DEF WorkingTimeCut
<1>4. /\ f # "LEDGER_UNKNOWN" /\ w.ledger = world.ledger
      /\ \A r \in W.rules : r.threshold = world.threshold
  <2>1. /\ W.selections["WORKING_TIME_LEDGER"].state # "UNKNOWN"
        /\ W.selections["WORKING_TIME_LEDGER"].head = world.ledger
        /\ { r.threshold : r \in W.rules } = {world.threshold}
    BY ObservedNow DEF W
  <2> QED BY <1>3, <2>1 DEF SelectionOf
<1>5. WorkingTimeEvidenceCutOK(W) /\ ValidAgainstCandidates(W, cut.plan)
  BY DEF EvidenceBound, W
<1>6. w.plan = cut.plan /\ PlanHead(w) = <<"C0_PLAN_SCHEDULE", cut.plan>>
  BY <1>3, <1>5 DEF ValidAgainstCandidates, PlanHead
<1>7. /\ ev.complete /\ \A m \in ev.comparisons : m.complete /\ ~CreatesOvertime(m)
  BY DEF OvertimeApplicability, W
<1>8. /\ WorkersWithoutRules(W, c) = {} /\ ComparisonKeys(ev) = ExpectedPeriods(W, c)
      /\ \A m \in ev.comparisons : ComparisonAgainstCandidateOK(W, n, m, PlanHead(w))
  BY <1>5, <1>6, <1>7 DEF ValidAgainstCandidates
<1>9. d \in Nat /\ k \in ComparisonKeys(ev)
  BY <1>8, TouchedIsExpected
<1>10. PICK m \in ev.comparisons : PeriodKey(m) = k
  BY <1>9 DEF ComparisonKeys
<1>11. PICK key \in CapturedKeys(f, n) : m = ComparisonOf(w, f, b, n, key)
  BY <1>3, <1>10 DEF EvidenceOf
<1>12. key = k
  <2>1. PICK x \in RegisteredWorkers : \E e \in Nat : key = Day(x, e)
    BY CapturedIsDay
  <2>2. PICK e \in Nat : key = Day(x, e)
    BY <2>1
  <2>3. PeriodKey(m) = [worker |-> key.worker, start |-> key.start, end |-> key.end]
    BY <1>11 DEF PeriodKey, ComparisonOf
  <2>4. key = [worker |-> key.worker, start |-> key.start, end |-> key.end]
    BY <2>2 DEF Day
  <2> QED BY <1>10, <2>3, <2>4
<1>13. /\ k.worker = worker /\ k.start \in Nat /\ k.end \in Nat
       /\ UnitsOf(d) = k.start .. (k.end - 1)
  BY <1>9, DayIs
<1> HIDE DEF k
<1>14. n \in DOMAIN W.evidence
  BY <1>3 DEF EvidenceOf
<1>15. /\ ComparisonInCutOK(W, n, m) /\ ComparisonOK(m) /\ LedgerContentOK(W)
  BY <1>5, <1>10, <1>14 DEF WorkingTimeEvidenceCutOK, CandidateWorkingTimeEvidenceOK
<1>16. /\ m.baseline \cup m.candidate \subseteq W.items
       /\ m.baselineOvertime = CalculateRuleOvertime(m.rule, m.baseline)
       /\ m.candidateOvertime = CalculateRuleOvertime(m.rule, m.candidate)
       /\ m.baselineOvertime \in Nat /\ m.candidateOvertime \in Nat
  BY <1>7, <1>10, <1>15 DEF ComparisonInCutOK, ComparisonOK
<1>17. m.candidateOvertime <= m.baselineOvertime
  BY <1>7, <1>10, <1>16 DEF CreatesOvertime
<1>18. m.rule.threshold = world.threshold
  BY <1>3, <1>4, <1>10
<1> DEFINE P == ExpectedC0Common(c, k, PlanHead(w))
           K == BookedWork(w, f, k)
           E == ExpectedBaseline(c, k, PlanHead(w))
           N == ExpectedCandidate(c, k)
           A == { t \in UnitsOf(d) : WorksAfter(c, worker, t) }
           B == { t \in UnitsOf(d) : WorksBefore(worker, t) }
<1>19. m.baseline = P \cup K \cup E /\ m.candidate = P \cup K \cup N
  <2>1. m.complete /\ W.evidence[n].complete
    BY <1>7, <1>10
  <2>2. ComparisonAgainstCandidateOK(W, n, m, PlanHead(w))
    BY <1>8, <1>10
  <2> HIDE DEF c
  <2> QED BY <1>2, <1>4, <1>5, <1>10, <1>11, <1>12, <1>16, <2>1, <2>2, ComparedWork DEF c
<1>20. /\ Inside(P, k)
       /\ \A t \in UnitsOf(d) : (\E i \in P : Covers(i, t)) <=>
             \E p \in Schedule : p.commitment \notin c.modified /\ worker \in p.workers /\ Covers(p, t)
  BY <1>13, PlannedCovers
<1>21. /\ Inside(E, k)
       /\ \A t \in UnitsOf(d) : (\E i \in E : Covers(i, t)) <=>
             \E p \in Schedule : p.commitment \in c.modified /\ worker \in p.workers /\ Covers(p, t)
  BY <1>13, ChangedCovers
<1>22. /\ Inside(N, k)
       /\ \A t \in UnitsOf(d) : (\E i \in N : Covers(i, t)) <=>
             \E p \in c.proposed : p.worker = worker /\ Covers(p, t)
  BY <1>13, ProposedCovers
<1>23. /\ Inside(K, k)
       /\ \A t \in UnitsOf(d) : (\E i \in K : Covers(i, t)) <=> BookedAt(worker, t)
  <2>1. \A l \in w.ledger : Booking(l)
    BY <1>4 DEF BoundariesKnown, StoresOK, InLedger
  <2> QED BY <1>2, <1>4, <1>9, <1>15, <2>1, BookedCovers DEF BookedAt, k
<1> HIDE DEF P, K, E, N
<1>24. Inside(m.baseline, k) /\ Inside(m.candidate, k)
  BY <1>19, <1>20, <1>21, <1>22, <1>23 DEF Inside
<1>25. \A t \in UnitsOf(d) : (\E i \in m.baseline : Covers(i, t)) <=> WorksBefore(worker, t)
  BY <1>19, <1>20, <1>21, <1>23 DEF WorksBefore
<1>26. \A t \in UnitsOf(d) : (\E i \in m.candidate : Covers(i, t)) <=> WorksAfter(c, worker, t)
  BY <1>19, <1>20, <1>22, <1>23 DEF WorksAfter
<1>27. CountableTime(m.baseline) = Cardinality(B)
  <2>1. B = { t \in k.start .. (k.end - 1) : \E i \in m.baseline : Covers(i, t) }
    BY <1>13, <1>25
  <2> QED BY <1>13, <1>24, <2>1, CountableIs
<1>28. CountableTime(m.candidate) = Cardinality(A)
  <2>1. A = { t \in k.start .. (k.end - 1) : \E i \in m.candidate : Covers(i, t) }
    BY <1>13, <1>26
  <2> QED BY <1>13, <1>24, <2>1, CountableIs
<1> HIDE DEF A, B
<1>29. Excess(A) = m.candidateOvertime /\ Excess(B) = m.baselineOvertime
  BY <1>16, <1>18, <1>27, <1>28 DEF Excess, CalculateRuleOvertime
<1>30. Excess(A) <= Excess(B)
  BY <1>17, <1>29
<1> QED BY <1>30 DEF A, B

(* The facts an ACT rests on.                                              *)
LEMMA ActRestsOn ==
    ASSUME NEW n \in Positions, NEW c, NEW v, c.hard \in HardBoundaries,
           AuthorityOutcome(n, c, v) = "ACT"
    PROVE  /\ CandidateSeq[n].verdict = "FEASIBLE" /\ CandidateSeq[n].residual = {}
           /\ ~LaterDay(CandidateSeq[n])
           /\ c.hard[n] = "NOT_APPLICABLE" /\ c.policy = "ISSUED_SUPPORTED"
           /\ AllCurrent(c, v)
           /\ CostOf(CandidateSeq[n], c).applicability # "UNKNOWN"
           /\ OvertimeApplicability(c.working.evidence[n]) = "DOES_NOT_CREATE_OVERTIME"
           /\ AssessApprovalTags(CandidateSeq[n], c.markers).applicability # "UNKNOWN"
           /\ MissingOwner(CandidateSeq[n], c) = {}
           /\ NonaffirmativeConsent(CandidateSeq[n], c) = {}
<1> DEFINE k == CandidateSeq[n]
<1>1. c.hard[n] \in {"APPLICABLE", "UNKNOWN", "NOT_APPLICABLE"}
  BY DEF HardBoundaries
<1>2. /\ c.hard[n] # "APPLICABLE" /\ OrdinaryFailures(k) = {} /\ WindowFailures(k) = {}
      /\ ~Undecidable(n, c, v) /\ ~NeedsHuman(n, c)
  BY DEF AuthorityOutcome
<1>3. /\ UnknownConstraints(k) = {} /\ c.hard[n] # "UNKNOWN" /\ AllCurrent(c, v)
      /\ Costed(k) => CostOf(k, c).applicability # "UNKNOWN"
      /\ OvertimeApplicability(c.working.evidence[n]) # "UNKNOWN"
      /\ AssessApprovalTags(k, c.markers).applicability # "UNKNOWN"
      /\ k.residual = {} /\ c.policy = "ISSUED_SUPPORTED" /\ NonaffirmativeConsent(k, c) = {}
  BY <1>2 DEF Undecidable
<1>4. /\ MissingOwner(k, c) = {} /\ ~LaterDay(k)
      /\ OvertimeApplicability(c.working.evidence[n]) # "CREATES_OVERTIME"
  BY <1>2 DEF NeedsHuman
<1>5. k.verdict = "FEASIBLE"
  <2>1. \A t \in k.trace : t.status # "FAIL" /\ t.status # "UNKNOWN"
    BY <1>2, <1>3 DEF OrdinaryFailures, WindowFailures, UnknownConstraints
  <2> QED BY <2>1, VerdictAssumption DEF Positions
<1>6. OvertimeApplicability(c.working.evidence[n]) = "DOES_NOT_CREATE_OVERTIME"
  BY <1>3, <1>4 DEF OvertimeApplicability
<1> QED BY <1>1, <1>2, <1>3, <1>4, <1>5, <1>6 DEF Costed

(* With no owner approval missing, the owner has approved every scope that *)
(* the owner is asked for.                                                 *)
LEMMA OwnerApproved ==
    ASSUME NEW n \in Positions, cut.owner = OwnerSelections(world, cut),
           MissingOwner(CandidateSeq[n], cut) = {},
           NEW r \in DeriveAuthorityRequirements(CandidateSeq[n], cut), r.principal = "OWNER"
    PROVE  r.scope \in world.approvals
<1>1. r \in OwnerRequirements(cut)
  BY DEF OwnerRequirements, Requirements
<1>2. cut.owner[r] # NONE
  BY DEF MissingOwner, CandidateRequirements
<1>3. cut.owner[r] = IF r.scope \in world.approvals THEN r.scope ELSE NONE
  BY <1>1 DEF OwnerSelections
<1> QED BY <1>2, <1>3

(* A cost above the threshold is approved for every slice it affects.      *)
LEMMA CostApproved ==
    ASSUME BoundariesKnown, NEW n \in Positions, cut.owner = OwnerSelections(world, cut),
           MissingOwner(CandidateSeq[n], cut) = {}, cut.cost.delta = world.delta,
           cut.policy = "ISSUED_SUPPORTED", CandidateSeq[n].verdict = "FEASIBLE",
           CostOf(CandidateSeq[n], cut).applicability # "UNKNOWN"
    PROVE  \/ world.delta[CandidateSeq[n].id] <= P_COST_THRESHOLD
           \/ \A s \in AffectedSlices(CandidateSeq[n]) :
                 \E a \in world.approvals :
                    a.job = s.job /\ a.day = s.day /\ a.worker = NONE
<1> DEFINE c == CandidateSeq[n]
           delta == world.delta[c.id]
<1>1. delta \in Int \cup {NONE}
  BY DEF BoundariesKnown, StoresOK, FeasibleCandidates
<1>2. delta # NONE
  BY DEF CostOf, AssessCost
<1>3. delta \in Int
  BY <1>1, <1>2
<1> SUFFICES ASSUME ~(delta <= P_COST_THRESHOLD), NEW s \in AffectedSlices(c)
             PROVE  \E a \in world.approvals : a.job = s.job /\ a.day = s.day /\ a.worker = NONE
  OBVIOUS
<1>4. delta > P_COST_THRESHOLD
  BY <1>3 DEF P_COST_THRESHOLD
<1> DEFINE subject == PCostSubject(c, s, cut.cost, cut.policy)
           r == Requirement("P_COST", c, PCostScope(subject), "OWNER")
<1>5. subject \in CostOf(c, cut).subjects
  BY <1>2, <1>4 DEF CostOf, AssessCost
<1> HIDE DEF subject
<1>6. r \in DeriveAuthorityRequirements(c, cut)
  BY <1>5 DEF DeriveAuthorityRequirements, Costed
<1>7. r.principal = "OWNER" /\ r.scope = PCostScope(subject)
  BY DEF Requirement
<1> HIDE DEF r
<1>8. PCostScope(subject) \in world.approvals
  BY <1>6, <1>7, OwnerApproved
<1>9. subject.slice = s
  BY DEF subject, PCostSubject
<1>10. /\ PCostScope(subject).job = s.job /\ PCostScope(subject).day = s.day
       /\ PCostScope(subject).worker = NONE
  BY <1>9 DEF PCostScope, Scope
<1> QED BY <1>8, <1>10

(* A marker of the stores is in the captured evidence, which has the       *)
(* stores' head and covers every subject of the candidate; so its approval *)
(* was asked for.                                                          *)
LEMMA MarkersApproved ==
    ASSUME Traced, stage = "decide", NEW n \in Positions,
           cut.owner = OwnerSelections(world, cut), MissingOwner(CandidateSeq[n], cut) = {},
           MarkerSupportCutOK(cut.markers),
           AssessApprovalTags(CandidateSeq[n], cut.markers).applicability # "UNKNOWN",
           UNION { { e.head : e \in cut.markers[s].evidence } : s \in DOMAIN cut.markers }
              = {world.markers},
           NEW s \in world.markers \cap DeriveMarkerSubjects(CandidateSeq[n])
    PROVE  Approved(MarkedScope(s))
<1> DEFINE c == CandidateSeq[n]
<1>1. PICK w, u : cut.markers = MarkerCut(w, u)
  BY DEF Traced
<1>2. s \in MarkerUniverse /\ s \in DOMAIN cut.markers
  BY DEF MarkerUniverse, MarkerSupportCutOK
<1>3. cut.markers[s].complete /\ CoverageStatus(cut.markers[s]) # "UNKNOWN"
  BY DEF AssessApprovalTags
<1>4. s \notin u
  BY <1>1, <1>2, <1>3 DEF MarkerCut
<1> DEFINE e == [subject |-> s, worker |-> NONE, marked |-> s \in w.markers,
                 complete |-> TRUE, head |-> w.markers]
<1>5. cut.markers[s].evidence = {e}
  BY <1>1, <1>2, <1>4 DEF MarkerCut
<1>6. w.markers = world.markers
  <2>1. e.head = w.markers
    OBVIOUS
  <2> HIDE DEF e
  <2>2. e \in cut.markers[s].evidence
    BY <1>5
  <2>3. e.head \in UNION { { i.head : i \in cut.markers[j].evidence } : j \in DOMAIN cut.markers }
    BY <1>2, <2>2
  <2> QED BY <2>1, <2>3
<1>7. e.marked /\ e.subject = s /\ e.worker = NONE
  BY <1>6
<1> HIDE DEF e
<1>8. MarkerScope(e) \in AssessApprovalTags(c, cut.markers).scopes
  BY <1>5, <1>7 DEF AssessApprovalTags
<1> DEFINE r == Requirement("P_TAG", c, MarkerScope(e), "OWNER")
<1>9. r \in DeriveAuthorityRequirements(c, cut)
  BY <1>8 DEF DeriveAuthorityRequirements
<1>10. r.principal = "OWNER" /\ r.scope = MarkerScope(e)
  BY DEF Requirement
<1> HIDE DEF r
<1>11. MarkerScope(e) \in world.approvals
  BY <1>9, <1>10, OwnerApproved
<1>12. MarkerScope(e) = MarkedScope(s)
  BY <1>7 DEF MarkerScope, MarkedScope
<1> QED BY <1>11, <1>12 DEF Approved

(* The selected consent is the head of the lineage, and it is affirmative. *)
LEMMA VehicleApproved ==
    ASSUME NEW n \in Positions, cut.owner = OwnerSelections(world, cut),
           MissingOwner(CandidateSeq[n], cut) = {},
           NonaffirmativeConsent(CandidateSeq[n], cut) = {},
           cut.consent = [r \in WorkerRequirements(cut) |-> ConsentHead(world, r.scope)],
           NEW p \in CandidateSeq[n].proposed, p.vehicle \in PrivateVehicles
    PROVE  /\ Approved(Scope("PRIVATE_VEHICLE_USE", <<"VEHICLE", p.vehicle>>, p.job, p.day,
                             p.worker))
           /\ world.consent # <<>> /\ Last(world.consent) = "FREELY_GIVEN"
<1> DEFINE c == CandidateSeq[n]
           scope == Scope("PRIVATE_VEHICLE_USE", <<"VEHICLE", p.vehicle>>, p.job, p.day, p.worker)
           asked(principal) == Requirement("P_VEHICLE", c, scope, principal)
<1>1. scope \in PrivateVehicleScopes(c)
  BY DEF PrivateVehicleScopes
<1> HIDE DEF scope
<1>2. \A q \in {"OWNER", "WORKER"} :
         /\ asked(q) \in DeriveAuthorityRequirements(c, cut)
         /\ asked(q).principal = q /\ asked(q).scope = scope
  BY <1>1 DEF DeriveAuthorityRequirements, Requirement
<1> HIDE DEF asked
<1>3. scope \in world.approvals
  BY <1>2, OwnerApproved
<1>4. asked("WORKER") \in WorkerRequirements(cut)
  BY <1>2 DEF WorkerRequirements, Requirements
<1>5. cut.consent[asked("WORKER")] = ConsentHead(world, scope)
  BY <1>2, <1>4
<1>6. AffirmativeCurrentConsent(ConsentHead(world, scope))
  BY <1>2, <1>5 DEF NonaffirmativeConsent, CandidateRequirements
<1>7. world.consent # <<>> /\ ConsentAt(world, scope, Len(world.consent)).status = "FREELY_GIVEN"
  BY <1>6 DEF AffirmativeCurrentConsent, ConsentHead
<1>8. world.consent[Len(world.consent)] = "FREELY_GIVEN"
  BY <1>7 DEF ConsentAt
<1> QED BY <1>3, <1>7, <1>8 DEF Approved, scope, Last

(* A candidate that is released gives no worker overtime on any day it     *)
(* touches.                                                                *)
LEMMA NoOvertimeGained ==
    ASSUME BoundariesKnown, Traced, stage = "decide", EvidenceBound(cut),
           AllCurrent(cut, Observed(world, cut)), NEW n \in Positions,
           OvertimeApplicability(cut.working.evidence[n]) = "DOES_NOT_CREATE_OVERTIME"
    PROVE  GainsNoOvertime(CandidateSeq[n])
<1> SUFFICES ASSUME NEW worker \in RegisteredWorkers,
                    NEW w \in RegisteredWorkers, NEW d \in TouchedDays(CandidateSeq[n], w)
             PROVE  Excess({ t \in UnitsOf(d) : WorksAfter(CandidateSeq[n], worker, t) })
                       <= Excess({ t \in UnitsOf(d) : WorksBefore(worker, t) })
  BY DEF GainsNoOvertime
<1>1. d \in Nat
  BY TouchedIsDay
<1>2. CASE d \in TouchedDays(CandidateSeq[n], worker)
  BY <1>2, TouchedGainsNothing
<1>3. CASE d \notin TouchedDays(CandidateSeq[n], worker)
  BY <1>1, <1>3, UntouchedGainsNothing
<1> QED BY <1>2, <1>3

(* What is released is authorised, judged from the stores at the moment of *)
(* the decision: whatever the capturing adaptor left out or got wrong and  *)
(* whatever moved meanwhile.                                               *)
THEOREM ActsAreAuthorised == AuthoritySpec => ActIsAuthorised
<1> DEFINE Known == BoundariesKnown /\ EvaluationNeverRaises /\ PartsCaptured /\ Traced
<1>1. AuthorityInit => Known
  BY BoundariesInit, PartsInit DEF AuthorityInit, Traced
<1>2. Known /\ [AuthorityNext]_decisionVars => Known'
  BY BoundariesStep, PartsStep, TracedStep
<1>3. ASSUME Known, AuthorityNext, DecidesHere, NEW n \in Positions, Outcome(n) = "ACT"
      PROVE  LET c == CandidateSeq[n]
                 new == { p \in c.proposed : p.commitment \in c.modified }
             IN  /\ cut.input = InputOf(world) /\ cut.support = SupportOf(world)
                 /\ cut.days = world.days /\ cut.root = RootOf(world)
                 /\ c.verdict = "FEASIBLE" /\ c.residual = {}
                 /\ \A p \in new : p.day = IncidentDay
                 /\ world.hard[n] = "NOT_APPLICABLE"
                 /\ world.policy = "ISSUED_SUPPORTED"
                 /\ GainsNoOvertime(c)
                 /\ \/ world.delta[c.id] <= P_COST_THRESHOLD
                    \/ \A s \in AffectedSlices(c) :
                          \E a \in world.approvals :
                             a.job = s.job /\ a.day = s.day /\ a.worker = NONE
                 /\ \A s \in world.markers \cap DeriveMarkerSubjects(c) :
                       Approved(MarkedScope(s))
                 /\ \A p \in { q \in new : q.vehicle \in PrivateVehicles } :
                       /\ Approved(Scope("PRIVATE_VEHICLE_USE", <<"VEHICLE", p.vehicle>>, p.job,
                                         p.day, p.worker))
                       /\ world.consent # <<>> /\ Last(world.consent) = "FREELY_GIVEN"
  <2> DEFINE c == CandidateSeq[n]
             v == Observed(world, cut)
  <2>1. /\ stage = "decide" /\ EvidenceBound(cut) /\ cut.hard \in HardBoundaries
        /\ AuthorityOutcome(n, cut, v) = "ACT"
    <3>1. Outcome(n) = AuthorityOutcome(n, cut, v)
      BY <1>3, DecidesWithTheCut DEF Outcome, CandidateAssessment
    <3>2. stage = "decide" /\ Decide /\ stage' = "decided"
      BY <1>3, DecidesWithTheCut DEF DecidesHere
    <3>3. EvidenceBound(cut)
      BY <3>2 DEF Decide, DecidedStage
    <3>4. cut.hard \in HardBoundaries
      BY <1>3, <3>2 DEF BoundariesKnown
    <3> QED BY <1>3, <3>1, <3>2, <3>3, <3>4
  <2>2. /\ c.verdict = "FEASIBLE" /\ c.residual = {} /\ ~LaterDay(c)
        /\ cut.hard[n] = "NOT_APPLICABLE" /\ cut.policy = "ISSUED_SUPPORTED"
        /\ AllCurrent(cut, v) /\ CostOf(c, cut).applicability # "UNKNOWN"
        /\ OvertimeApplicability(cut.working.evidence[n]) = "DOES_NOT_CREATE_OVERTIME"
        /\ AssessApprovalTags(c, cut.markers).applicability # "UNKNOWN"
        /\ MissingOwner(c, cut) = {} /\ NonaffirmativeConsent(c, cut) = {}
    BY <2>1, ActRestsOn
  <2>3. /\ cut.input = InputOf(world) /\ cut.support = SupportOf(world)
        /\ cut.days = world.days /\ cut.root = RootOf(world) /\ cut.policy = world.policy
        /\ cut.hard = world.hard /\ cut.cost.delta = world.delta
        /\ cut.owner = OwnerSelections(world, cut)
        /\ cut.consent = [r \in WorkerRequirements(cut) |-> ConsentHead(world, r.scope)]
        /\ UNION { { e.head : e \in cut.markers[s].evidence } : s \in DOMAIN cut.markers }
             = {world.markers}
    BY <2>2, ObservedNow
  <2>4. \A p \in c.proposed : p.day = IncidentDay
    BY <2>2 DEF LaterDay
  <2>5. GainsNoOvertime(c)
    <3>1. BoundariesKnown /\ Traced /\ stage = "decide" /\ EvidenceBound(cut)
      BY <1>3, <2>1
    <3>2. /\ AllCurrent(cut, Observed(world, cut))
          /\ OvertimeApplicability(cut.working.evidence[n]) = "DOES_NOT_CREATE_OVERTIME"
      BY <2>2
    <3> QED BY <3>1, <3>2, NoOvertimeGained
  <2>6. \/ world.delta[c.id] <= P_COST_THRESHOLD
        \/ \A s \in AffectedSlices(c) :
              \E a \in world.approvals : a.job = s.job /\ a.day = s.day /\ a.worker = NONE
    BY <1>3, <2>2, <2>3, CostApproved
  <2>7. \A s \in world.markers \cap DeriveMarkerSubjects(c) : Approved(MarkedScope(s))
    <3>1. MarkerSupportCutOK(cut.markers)
      BY <2>1 DEF EvidenceBound
    <3> QED BY <1>3, <2>1, <2>2, <2>3, <3>1, MarkersApproved
  <2>8. \A p \in c.proposed : p.vehicle \in PrivateVehicles =>
           /\ Approved(Scope("PRIVATE_VEHICLE_USE", <<"VEHICLE", p.vehicle>>, p.job, p.day,
                             p.worker))
           /\ world.consent # <<>> /\ Last(world.consent) = "FREELY_GIVEN"
    BY <2>2, <2>3, VehicleApproved
  <2> HIDE DEF c
  <2>9. /\ world.hard[n] = "NOT_APPLICABLE" /\ world.policy = "ISSUED_SUPPORTED"
    BY <2>2, <2>3
  <2> QED BY <2>2, <2>3, <2>4, <2>5, <2>6, <2>7, <2>8, <2>9 DEF c
<1>4. Known /\ [AuthorityNext]_decisionVars =>
        [DecidesHere =>
           \A n \in Positions :
              LET c == CandidateSeq[n]
                  new == { p \in c.proposed : p.commitment \in c.modified }
              IN  Outcome(n) = "ACT" =>
                    /\ cut.input = InputOf(world) /\ cut.support = SupportOf(world)
                    /\ cut.days = world.days /\ cut.root = RootOf(world)
                    /\ c.verdict = "FEASIBLE" /\ c.residual = {}
                    /\ \A p \in new : p.day = IncidentDay
                    /\ world.hard[n] = "NOT_APPLICABLE"
                    /\ world.policy = "ISSUED_SUPPORTED"
                    /\ GainsNoOvertime(c)
                    /\ \/ world.delta[c.id] <= P_COST_THRESHOLD
                       \/ \A s \in AffectedSlices(c) :
                             \E a \in world.approvals :
                                a.job = s.job /\ a.day = s.day /\ a.worker = NONE
                    /\ \A s \in world.markers \cap DeriveMarkerSubjects(c) :
                          Approved(MarkedScope(s))
                    /\ \A p \in { q \in new : q.vehicle \in PrivateVehicles } :
                          /\ Approved(Scope("PRIVATE_VEHICLE_USE", <<"VEHICLE", p.vehicle>>, p.job,
                                            p.day, p.worker))
                          /\ world.consent # <<>> /\ Last(world.consent) = "FREELY_GIVEN"
        ]_decisionVars
  BY <1>3
<1>5. AuthoritySpec => []Known
  BY <1>1, <1>2, PTL DEF AuthoritySpec
<1> QED BY <1>4, <1>5, PTL DEF AuthoritySpec, ActIsAuthorised

(***************************************************************************)
(* What a correct adaptor captures, and why it passes: its periods are the *)
(* expected ones, its items lie in them and come from their own source,    *)
(* its amounts are derived, and nothing in it is unused.                   *)
(***************************************************************************)
Honest(w) == WorkingTimeCut(w, "NO_FAULT", TRUE)
Compared(w, n, k) == ComparisonOf(w, "NO_FAULT", TRUE, n, k)
KeysOf(n) == CapturedPeriods(CandidateSeq[n])

Planned(w, n, k) == ExpectedC0Common(CandidateSeq[n], k, PlanHead(w))
Changed(w, n, k) == ExpectedBaseline(CandidateSeq[n], k, PlanHead(w))
Proposed(n, k) == ExpectedCandidate(CandidateSeq[n], k)

Before(w, n, k) == Planned(w, n, k) \cup LedgerWork(w.ledger, k) \cup Changed(w, n, k)
After(w, n, k) == Planned(w, n, k) \cup LedgerWork(w.ledger, k) \cup Proposed(n, k)

(* Work of a period: its worker's, inside it, and it takes time.           *)
WorkIn(i, k) == i.worker = k.worker /\ i.start >= k.start /\ i.end <= k.end /\ i.end > i.start

LEMMA KeyIsDay ==
    ASSUME NEW n \in Positions, NEW k \in KeysOf(n)
    PROVE  /\ k = [worker |-> k.worker, start |-> k.start, end |-> k.end]
           /\ k.worker \in RegisteredWorkers /\ k.start \in Nat /\ k.end \in Nat /\ k.start < k.end
           /\ PeriodKey(k) = k
<1>1. PICK x \in RegisteredWorkers : \E e \in TouchedDays(CandidateSeq[n], x) : k = Day(x, e)
  BY DEF KeysOf, CapturedPeriods, Day
<1>2. PICK e \in TouchedDays(CandidateSeq[n], x) : k = Day(x, e)
  BY <1>1
<1>3. e \in Nat
  BY TouchedIsDay
<1>4. k.worker = x /\ k.start = e * DayLength /\ k.end = (e + 1) * DayLength
      /\ k.start \in Nat /\ k.end \in Nat
  BY <1>2, <1>3, DayIs
<1>5. e * DayLength < (e + 1) * DayLength
  BY <1>3, WorkingTimeAssumption, SMT
<1>6. k = [worker |-> k.worker, start |-> k.start, end |-> k.end]
  BY <1>2 DEF Day
<1> QED BY <1>4, <1>5, <1>6 DEF PeriodKey

LEMMA PlannedWorkIs ==
    ASSUME NEW w, NEW n \in Positions, NEW k, k.start \in Nat, k.end \in Nat,
           NEW i \in Planned(w, n, k)
    PROVE  /\ WorkIn(i, k) /\ i.kind = "UNCHANGED_SCHEDULED" /\ i.candidate = NONE
           /\ i.source = <<"C0_PLAN_SCHEDULE", w.plan>>
<1>1. Inside(Planned(w, n, k), k)
  BY PlannedCovers DEF Planned
<1>2. PICK p \in Schedule : i = Clip(k.worker, "UNCHANGED_SCHEDULED", NONE, p, k, PlanHead(w))
  BY DEF Planned, ExpectedC0Common
<1>3. /\ i.worker = k.worker /\ i.kind = "UNCHANGED_SCHEDULED" /\ i.candidate = NONE
      /\ i.source = PlanHead(w)
  BY <1>2 DEF Clip, WorkItem
<1>4. i.start >= k.start /\ i.end <= k.end /\ i.end > i.start
  BY <1>1 DEF Inside, Booking
<1> QED BY <1>3, <1>4 DEF WorkIn, PlanHead

LEMMA ChangedWorkIs ==
    ASSUME NEW w, NEW n \in Positions, NEW k, k.start \in Nat, k.end \in Nat,
           NEW i \in Changed(w, n, k)
    PROVE  /\ WorkIn(i, k) /\ i.kind = "BASELINE_CHANGED" /\ i.candidate = NONE
           /\ i.commitment # NONE
<1>1. Inside(Changed(w, n, k), k)
  BY ChangedCovers DEF Changed
<1>2. PICK p \in Schedule : i = Clip(k.worker, "BASELINE_CHANGED", NONE, p, k, PlanHead(w))
  BY DEF Changed, ExpectedBaseline
<1>3. /\ i.worker = k.worker /\ i.kind = "BASELINE_CHANGED" /\ i.candidate = NONE
      /\ i.commitment = p.commitment
  BY <1>2 DEF Clip, WorkItem
<1>4. i.start >= k.start /\ i.end <= k.end /\ i.end > i.start
  BY <1>1 DEF Inside, Booking
<1>5. p.commitment # NONE
  BY WorkingTimeAssumption
<1> QED BY <1>3, <1>4, <1>5 DEF WorkIn

LEMMA ProposedWorkIs ==
    ASSUME NEW n \in Positions, NEW k, k.start \in Nat, k.end \in Nat, NEW i \in Proposed(n, k)
    PROVE  /\ WorkIn(i, k) /\ i.kind = "PROPOSED_CANDIDATE" /\ i.candidate = CandidateSeq[n].id
           /\ i.candidate # NONE /\ i.commitment # NONE
<1> DEFINE c == CandidateSeq[n]
<1>1. Inside(Proposed(n, k), k)
  BY ProposedCovers DEF Proposed
<1>2. PICK p \in c.proposed :
        i = Clip(k.worker, "PROPOSED_CANDIDATE", c.id, p, k, <<"CANDIDATE", c.id>>)
  BY DEF Proposed, ExpectedCandidate
<1>3. /\ i.worker = k.worker /\ i.kind = "PROPOSED_CANDIDATE" /\ i.candidate = c.id
      /\ i.commitment = p.commitment
  BY <1>2 DEF Clip, WorkItem
<1>4. i.start >= k.start /\ i.end <= k.end /\ i.end > i.start
  BY <1>1 DEF Inside, Booking
<1>5. p.commitment \in { q.commitment : q \in Schedule } /\ c.id # NONE
  BY WorkingTimeAssumption DEF Positions
<1>6. p.commitment # NONE
  BY <1>5, WorkingTimeAssumption
<1> QED BY <1>3, <1>4, <1>5, <1>6 DEF WorkIn

LEMMA BookedWorkIs ==
    ASSUME NEW w, \A l \in w.ledger : InLedger(l), NEW k, NEW i \in LedgerWork(w.ledger, k)
    PROVE  /\ WorkIn(i, k) /\ i.kind \in CommonKinds /\ i.candidate = NONE
           /\ i.source = <<"WORKING_TIME_LEDGER", w.ledger>>
           /\ LedgerSourceItem(i) \in w.ledger
<1>1. PICK l \in w.ledger :
         /\ l.worker = k.worker /\ l.start >= k.start /\ l.end <= k.end
         /\ i = WorkItem(l.worker, l.kind, l.commitment, NONE, l.start, l.end,
                         <<"WORKING_TIME_LEDGER", w.ledger>>)
  BY DEF LedgerWork
<1>2. /\ i.worker = l.worker /\ i.kind = l.kind /\ i.commitment = l.commitment
      /\ i.candidate = NONE /\ i.start = l.start /\ i.end = l.end
      /\ i.source = <<"WORKING_TIME_LEDGER", w.ledger>>
  BY <1>1 DEF WorkItem
<1>3. /\ l.start < l.end /\ l.start \in Nat /\ l.end \in Nat /\ l.kind \in CommonKinds
      /\ l = [worker |-> l.worker, kind |-> l.kind, commitment |-> l.commitment,
              start |-> l.start, end |-> l.end]
  BY DEF InLedger, Booking
<1>4. LedgerSourceItem(i) = l
  BY <1>2, <1>3 DEF LedgerSourceItem
<1>5. WorkIn(i, k)
  BY <1>1, <1>2, <1>3 DEF WorkIn
<1> QED BY <1>1, <1>2, <1>3, <1>4, <1>5

LEMMA HonestParts ==
    ASSUME NEW w
    PROVE  /\ \A n \in Positions : \A k \in KeysOf(n) :
                 /\ Compared(w, n, k).baseline = Before(w, n, k)
                 /\ Compared(w, n, k).candidate = After(w, n, k)
                 /\ PeriodKey(Compared(w, n, k)) = k
                 /\ Compared(w, n, k).rule = RuleFor(w, k)
                 /\ Compared(w, n, k).worker = k.worker
                 /\ Compared(w, n, k).complete
                 /\ Compared(w, n, k).baselineOvertime
                      = CalculateRuleOvertime(RuleFor(w, k), Before(w, n, k))
                 /\ Compared(w, n, k).candidateOvertime
                      = CalculateRuleOvertime(RuleFor(w, k), After(w, n, k))
           /\ DOMAIN Honest(w).evidence = Positions
           /\ \A n \in Positions :
                 /\ Honest(w).evidence[n].keys = KeysOf(n)
                 /\ Honest(w).evidence[n].complete
                 /\ Honest(w).evidence[n].comparisons = { Compared(w, n, k) : k \in KeysOf(n) }
<1>1. \A n \in Positions : CapturedKeys("NO_FAULT", n) = KeysOf(n)
  BY DEF CapturedKeys, KeysOf
<1>2. \A n \in Positions : \A k \in KeysOf(n) :
         /\ ItemsBefore(w, "NO_FAULT", n, k) = Before(w, n, k)
         /\ ItemsAfter(w, "NO_FAULT", n, k) = After(w, n, k)
  BY DEF ItemsBefore, ItemsAfter, Before, After, PlannedWork, BookedWork, Unless, Planned,
         Changed, Proposed
<1>3. \A k, S : AmountOf(w, "NO_FAULT", TRUE, k, S) = CalculateRuleOvertime(RuleFor(w, k), S)
  BY DEF AmountOf
<1>4. ASSUME NEW n \in Positions, NEW k \in KeysOf(n)
      PROVE  /\ Compared(w, n, k).baseline = Before(w, n, k)
             /\ Compared(w, n, k).candidate = After(w, n, k)
             /\ PeriodKey(Compared(w, n, k)) = k
             /\ Compared(w, n, k).rule = RuleFor(w, k)
             /\ Compared(w, n, k).worker = k.worker
             /\ Compared(w, n, k).complete
             /\ Compared(w, n, k).baselineOvertime
                  = CalculateRuleOvertime(RuleFor(w, k), Before(w, n, k))
             /\ Compared(w, n, k).candidateOvertime
                  = CalculateRuleOvertime(RuleFor(w, k), After(w, n, k))
  <2>1. k = [worker |-> k.worker, start |-> k.start, end |-> k.end]
    BY KeyIsDay
  <2>2. /\ Compared(w, n, k).worker = k.worker /\ Compared(w, n, k).start = k.start
        /\ Compared(w, n, k).end = k.end /\ Compared(w, n, k).rule = RuleFor(w, k)
        /\ Compared(w, n, k).baseline = ItemsBefore(w, "NO_FAULT", n, k)
        /\ Compared(w, n, k).candidate = ItemsAfter(w, "NO_FAULT", n, k)
        /\ Compared(w, n, k).complete
        /\ Compared(w, n, k).baselineOvertime
             = AmountOf(w, "NO_FAULT", TRUE, k, ItemsBefore(w, "NO_FAULT", n, k))
        /\ Compared(w, n, k).candidateOvertime
             = AmountOf(w, "NO_FAULT", TRUE, k, ItemsAfter(w, "NO_FAULT", n, k))
    BY DEF Compared, ComparisonOf
  <2>3. PeriodKey(Compared(w, n, k)) = k
    BY <2>1, <2>2 DEF PeriodKey
  <2>4. /\ ItemsBefore(w, "NO_FAULT", n, k) = Before(w, n, k)
        /\ ItemsAfter(w, "NO_FAULT", n, k) = After(w, n, k)
    BY <1>2
  <2>5. /\ AmountOf(w, "NO_FAULT", TRUE, k, Before(w, n, k))
             = CalculateRuleOvertime(RuleFor(w, k), Before(w, n, k))
        /\ AmountOf(w, "NO_FAULT", TRUE, k, After(w, n, k))
             = CalculateRuleOvertime(RuleFor(w, k), After(w, n, k))
    BY <1>3
  <2> QED BY <2>2, <2>3, <2>4, <2>5
<1>5. Honest(w).evidence = EvidenceOf(w, "NO_FAULT", TRUE)
  BY DEF Honest, WorkingTimeCut
<1>6. /\ DOMAIN EvidenceOf(w, "NO_FAULT", TRUE) = Positions
      /\ \A n \in Positions :
            /\ EvidenceOf(w, "NO_FAULT", TRUE)[n].keys = KeysOf(n)
            /\ EvidenceOf(w, "NO_FAULT", TRUE)[n].complete
            /\ EvidenceOf(w, "NO_FAULT", TRUE)[n].comparisons
                 = { Compared(w, n, k) : k \in KeysOf(n) }
  BY <1>1 DEF EvidenceOf, Compared
<1> QED BY <1>4, <1>5, <1>6

(* What a source class lists for a period.                                 *)
Listed(w, kind, n, k) ==
    IF kind = "C0_PLAN_SCHEDULE" THEN Planned(w, n, k) ELSE LedgerWork(w.ledger, k)

Entry(w, kind, n, k) == EntryOf(w, "NO_FAULT", kind, n, k)

LEMMA EntryIs ==
    ASSUME NEW w, NEW kind \in SourceKinds, NEW n \in Positions, NEW k \in KeysOf(n)
    PROVE  LET e == Entry(w, kind, n, k)
           IN  /\ e.position = n /\ PeriodKey(e) = k
               /\ e.worker = k.worker /\ e.start = k.start /\ e.end = k.end
               /\ e.complete /\ e.items = Listed(w, kind, n, k)
<1> DEFINE e == Entry(w, kind, n, k)
<1>1. /\ e.position = n /\ e.worker = k.worker /\ e.start = k.start /\ e.end = k.end
      /\ e.complete
      /\ e.items = IF kind = "C0_PLAN_SCHEDULE" THEN PlannedWork(w, "NO_FAULT", n, k)
                   ELSE BookedWork(w, "NO_FAULT", k)
  BY DEF Entry, EntryOf
<1>2. e.items = Listed(w, kind, n, k)
  BY <1>1 DEF Listed, PlannedWork, BookedWork, Unless, Planned
<1>3. PeriodKey(e) = k
  BY <1>1, KeyIsDay DEF PeriodKey
<1> QED BY <1>1, <1>2, <1>3

LEMMA HonestSources ==
    ASSUME NEW w
    PROVE  LET W == Honest(w)
           IN  /\ DOMAIN W.selections = SourceKinds /\ DOMAIN W.manifests = SourceKinds
               /\ W.selections["C0_PLAN_SCHEDULE"].state = "PRESENT"
               /\ W.selections["C0_PLAN_SCHEDULE"].head = w.plan
               /\ W.selections["WORKING_TIME_LEDGER"].state =
                     IF w.ledger = {} THEN "AUTHORITATIVELY_EMPTY" ELSE "PRESENT"
               /\ W.selections["WORKING_TIME_LEDGER"].head = w.ledger
               /\ W.manifests["C0_PLAN_SCHEDULE"].head = w.plan
               /\ W.manifests["WORKING_TIME_LEDGER"].head = w.ledger
               /\ \A kind \in SourceKinds :
                     /\ W.manifests[kind].complete
                     /\ \A e : e \in W.manifests[kind].entries <=>
                          \E n \in Positions : \E k \in KeysOf(n) : e = Entry(w, kind, n, k)
                     /\ \A i : i \in EntryItems(W.manifests[kind]) <=>
                          \E n \in Positions : \E k \in KeysOf(n) : i \in Listed(w, kind, n, k)
<1> DEFINE W == Honest(w)
<1>1. /\ W.selections = [kind \in SourceKinds |-> SelectionOf(w, "NO_FAULT", kind)]
      /\ W.manifests = [kind \in SourceKinds |-> ManifestOf(w, "NO_FAULT", kind)]
  BY DEF Honest, WorkingTimeCut
<1>2. /\ DOMAIN W.selections = SourceKinds /\ DOMAIN W.manifests = SourceKinds
      /\ \A kind \in SourceKinds : /\ W.selections[kind] = SelectionOf(w, "NO_FAULT", kind)
                                   /\ W.manifests[kind] = ManifestOf(w, "NO_FAULT", kind)
  BY <1>1
<1>3. "C0_PLAN_SCHEDULE" \in SourceKinds /\ "WORKING_TIME_LEDGER" \in SourceKinds
  BY DEF SourceKinds
<1> HIDE DEF W
<1>4. /\ W.selections["C0_PLAN_SCHEDULE"].state = "PRESENT"
      /\ W.selections["C0_PLAN_SCHEDULE"].head = w.plan
      /\ W.selections["WORKING_TIME_LEDGER"].state =
            IF w.ledger = {} THEN "AUTHORITATIVELY_EMPTY" ELSE "PRESENT"
      /\ W.selections["WORKING_TIME_LEDGER"].head = w.ledger
  <2>1. SelectionOf(w, "NO_FAULT", "C0_PLAN_SCHEDULE") = [state |-> "PRESENT", head |-> w.plan]
    BY DEF SelectionOf
  <2>2. SelectionOf(w, "NO_FAULT", "WORKING_TIME_LEDGER")
          = [state |-> IF w.ledger = {} THEN "AUTHORITATIVELY_EMPTY" ELSE "PRESENT",
             head |-> w.ledger]
    BY DEF SelectionOf
  <2>3. /\ W.selections["C0_PLAN_SCHEDULE"] = SelectionOf(w, "NO_FAULT", "C0_PLAN_SCHEDULE")
        /\ W.selections["WORKING_TIME_LEDGER"] = SelectionOf(w, "NO_FAULT", "WORKING_TIME_LEDGER")
    BY <1>2, <1>3
  <2> QED BY <2>1, <2>2, <2>3
<1>5. ASSUME NEW kind
      PROVE  /\ ManifestOf(w, "NO_FAULT", kind).head
                  = IF kind = "C0_PLAN_SCHEDULE" THEN w.plan ELSE w.ledger
             /\ ManifestOf(w, "NO_FAULT", kind).complete
             /\ ManifestOf(w, "NO_FAULT", kind).entries
                  = UNION { { EntryOf(w, "NO_FAULT", kind, n, k) :
                                k \in CapturedKeys("NO_FAULT", n) } : n \in Positions }
  BY DEF ManifestOf
<1>6. /\ W.manifests["C0_PLAN_SCHEDULE"].head = w.plan
      /\ W.manifests["WORKING_TIME_LEDGER"].head = w.ledger
  BY <1>2, <1>3, <1>5
<1>7. \A n \in Positions : CapturedKeys("NO_FAULT", n) = KeysOf(n)
  BY DEF CapturedKeys, KeysOf
<1>8. ASSUME NEW kind \in SourceKinds
      PROVE  /\ W.manifests[kind].complete
             /\ \A e : e \in W.manifests[kind].entries <=>
                  \E n \in Positions : \E k \in KeysOf(n) : e = Entry(w, kind, n, k)
             /\ \A i : i \in EntryItems(W.manifests[kind]) <=>
                  \E n \in Positions : \E k \in KeysOf(n) : i \in Listed(w, kind, n, k)
  <2>1. W.manifests[kind].complete /\ W.manifests[kind].entries
          = UNION { { EntryOf(w, "NO_FAULT", kind, n, k) :
                        k \in CapturedKeys("NO_FAULT", n) } : n \in Positions }
    BY <1>2, <1>5
  <2>2. \A e : e \in W.manifests[kind].entries <=>
           \E n \in Positions : \E k \in KeysOf(n) : e = Entry(w, kind, n, k)
    BY <1>7, <2>1 DEF Entry
  <2>3. \A n \in Positions : \A k \in KeysOf(n) : Entry(w, kind, n, k).items = Listed(w, kind, n, k)
    BY EntryIs
  <2>4. \A i : i \in EntryItems(W.manifests[kind]) <=>
           \E e \in W.manifests[kind].entries : i \in e.items
    BY DEF EntryItems
  <2>5. \A i : i \in EntryItems(W.manifests[kind]) <=>
           \E n \in Positions : \E k \in KeysOf(n) : i \in Listed(w, kind, n, k)
    BY <2>2, <2>3, <2>4
  <2> QED BY <2>1, <2>2, <2>5
<1> QED BY <1>2, <1>4, <1>6, <1>8 DEF W

LEMMA HonestContent ==
    ASSUME NEW w
    PROVE  /\ \A r : r \in Honest(w).rules <=>
                \E n \in Positions : \E k \in KeysOf(n) : r = RuleFor(w, k)
           /\ \A i : i \in Honest(w).items <=>
                \E n \in Positions : \E k \in KeysOf(n) : i \in Before(w, n, k) \cup After(w, n, k)
           /\ \A m : m \in Comparisons(Honest(w)) <=>
                \E n \in Positions : \E k \in KeysOf(n) : m = Compared(w, n, k)
<1> DEFINE all == UNION { Honest(w).evidence[n].comparisons : n \in Positions }
<1>1. Honest(w).evidence = EvidenceOf(w, "NO_FAULT", TRUE)
  BY DEF Honest, WorkingTimeCut
<1>2. /\ Honest(w).rules = { m.rule : m \in all }
      /\ Honest(w).items = UNION { m.baseline \cup m.candidate : m \in all }
  BY <1>1 DEF Honest, WorkingTimeCut
<1>3. \A m : m \in all <=> \E n \in Positions : \E k \in KeysOf(n) : m = Compared(w, n, k)
  BY HonestParts
<1>4. Comparisons(Honest(w)) = all
  BY HonestParts DEF Comparisons
<1> HIDE DEF all
<1>5. \A r : r \in Honest(w).rules <=> \E m \in all : r = m.rule
  BY <1>2
<1>6. \A i : i \in Honest(w).items <=> \E m \in all : i \in m.baseline \cup m.candidate
  BY <1>2
<1>7. \A n \in Positions : \A k \in KeysOf(n) :
         /\ Compared(w, n, k).rule = RuleFor(w, k)
         /\ Compared(w, n, k).baseline = Before(w, n, k)
         /\ Compared(w, n, k).candidate = After(w, n, k)
  BY HonestParts
<1> QED BY <1>3, <1>4, <1>5, <1>6, <1>7

LEMMA RuleIs ==
    ASSUME NEW w, w.threshold \in Nat, NEW n \in Positions, NEW k \in KeysOf(n)
    PROVE  /\ RuleOK(RuleFor(w, k)) /\ RuleFor(w, k) # NONE
           /\ PeriodKey(RuleFor(w, k)) = k /\ RuleFor(w, k).worker = k.worker
           /\ RuleFor(w, k).start = k.start /\ RuleFor(w, k).end = k.end
           /\ RuleFor(w, k).threshold = w.threshold
           /\ RuleFor(w, k).from = 0 /\ RuleFor(w, k).until = NONE
<1> DEFINE r == RuleFor(w, k)
<1>1. /\ r.worker = k.worker /\ r.start = k.start /\ r.end = k.end
      /\ r.threshold = w.threshold /\ r.from = 0 /\ r.until = NONE
  BY DEF RuleFor
<1>2. /\ k = [worker |-> k.worker, start |-> k.start, end |-> k.end]
      /\ k.worker \in RegisteredWorkers /\ k.start \in Nat /\ k.end \in Nat /\ k.start < k.end
  BY KeyIsDay
<1>3. r \in [worker : RegisteredWorkers, start : Nat, end : Nat, threshold : Nat,
             from : {0}, until : {NONE}]
  BY <1>2 DEF RuleFor
<1>4. r # NONE
  BY <1>3, AuthorityDecisionAssumption
<1> HIDE DEF r
<1>5. PeriodKey(r) = k
  BY <1>1, <1>2 DEF PeriodKey
<1>6. RuleOK(r)
  BY <1>1, <1>2 DEF RuleOK
<1> QED BY <1>1, <1>4, <1>5, <1>6 DEF r

LEMMA WorkIs ==
    ASSUME NEW w, \A l \in w.ledger : InLedger(l), NEW n \in Positions, NEW k \in KeysOf(n)
    PROVE  /\ \A i \in Before(w, n, k) \cup After(w, n, k) : WorkIn(i, k) /\ WorkItemOK(i)
           /\ \A i \in Before(w, n, k) : i.kind # "PROPOSED_CANDIDATE"
           /\ \A i \in After(w, n, k) :
                 /\ i.kind # "BASELINE_CHANGED"
                 /\ i.kind = "PROPOSED_CANDIDATE" => i.candidate = CandidateSeq[n].id
           /\ CommonWork(Before(w, n, k)) = Planned(w, n, k) \cup LedgerWork(w.ledger, k)
           /\ CommonWork(After(w, n, k)) = Planned(w, n, k) \cup LedgerWork(w.ledger, k)
<1>1. k.start \in Nat /\ k.end \in Nat
  BY KeyIsDay
<1>2. \A i \in Planned(w, n, k) :
         WorkIn(i, k) /\ i.kind = "UNCHANGED_SCHEDULED" /\ i.candidate = NONE
  BY <1>1, PlannedWorkIs
<1>3. \A i \in Changed(w, n, k) :
         WorkIn(i, k) /\ i.kind = "BASELINE_CHANGED" /\ i.candidate = NONE /\ i.commitment # NONE
  BY <1>1, ChangedWorkIs
<1>4. \A i \in Proposed(n, k) :
         /\ WorkIn(i, k) /\ i.kind = "PROPOSED_CANDIDATE" /\ i.candidate = CandidateSeq[n].id
         /\ i.candidate # NONE /\ i.commitment # NONE
  BY <1>1, ProposedWorkIs
<1>5. \A i \in LedgerWork(w.ledger, k) : WorkIn(i, k) /\ i.kind \in CommonKinds /\ i.candidate = NONE
  BY BookedWorkIs
<1>6. CommonKinds = {"COMPLETED_COUNTABLE", "UNCHANGED_SCHEDULED"}
  BY DEF CommonKinds
<1>7. \A i \in Planned(w, n, k) : WorkItemOK(i)
  BY <1>2, <1>6 DEF WorkItemOK, WorkKinds, WorkIn
<1>8. \A i \in Changed(w, n, k) : WorkItemOK(i)
  BY <1>3, <1>6 DEF WorkItemOK, WorkKinds, WorkIn
<1>9. \A i \in Proposed(n, k) : WorkItemOK(i)
  BY <1>4, <1>6 DEF WorkItemOK, WorkKinds, WorkIn
<1>10. \A i \in LedgerWork(w.ledger, k) : WorkItemOK(i)
  BY <1>5, <1>6 DEF WorkItemOK, WorkKinds, WorkIn
<1>11. \A i \in Before(w, n, k) \cup After(w, n, k) : WorkIn(i, k) /\ WorkItemOK(i)
  BY <1>2, <1>3, <1>4, <1>5, <1>7, <1>8, <1>9, <1>10 DEF Before, After
<1>12. \A i \in Before(w, n, k) : i.kind # "PROPOSED_CANDIDATE"
  BY <1>2, <1>3, <1>5, <1>6 DEF Before
<1>13. \A i \in After(w, n, k) :
          /\ i.kind # "BASELINE_CHANGED"
          /\ i.kind = "PROPOSED_CANDIDATE" => i.candidate = CandidateSeq[n].id
  BY <1>2, <1>4, <1>5, <1>6 DEF After
<1>14. CommonWork(Before(w, n, k)) = Planned(w, n, k) \cup LedgerWork(w.ledger, k)
  BY <1>2, <1>3, <1>5, <1>6 DEF Before, CommonWork
<1>15. CommonWork(After(w, n, k)) = Planned(w, n, k) \cup LedgerWork(w.ledger, k)
  BY <1>2, <1>4, <1>5, <1>6 DEF After, CommonWork
<1> QED BY <1>11, <1>12, <1>13, <1>14, <1>15

LEMMA AmountsAre ==
    ASSUME NEW w, \A l \in w.ledger : InLedger(l), w.threshold \in Nat,
           NEW n \in Positions, NEW k \in KeysOf(n)
    PROVE  /\ CalculateRuleOvertime(RuleFor(w, k), Before(w, n, k)) \in Nat
           /\ CalculateRuleOvertime(RuleFor(w, k), After(w, n, k)) \in Nat
<1>1. k.start \in Nat /\ k.end \in Nat
  BY KeyIsDay
<1>2. Inside(LedgerWork(w.ledger, k), k)
  <2> SUFFICES ASSUME NEW i \in LedgerWork(w.ledger, k)
               PROVE  Booking(i) /\ k.start <= i.start /\ i.end <= k.end
    BY DEF Inside
  <2>1. WorkIn(i, k) /\ LedgerSourceItem(i) \in w.ledger
    BY BookedWorkIs
  <2>2. Booking(LedgerSourceItem(i))
    BY <2>1 DEF InLedger
  <2>3. LedgerSourceItem(i).start = i.start /\ LedgerSourceItem(i).end = i.end
    BY DEF LedgerSourceItem
  <2>4. i.start \in Nat /\ i.end \in Nat /\ i.start < i.end
    BY <2>2, <2>3 DEF Booking
  <2> QED BY <1>1, <2>1, <2>4 DEF Booking, WorkIn
<1>3. Inside(Planned(w, n, k), k) /\ Inside(Changed(w, n, k), k) /\ Inside(Proposed(n, k), k)
  BY <1>1, PlannedCovers, ChangedCovers, ProposedCovers DEF Planned, Changed, Proposed
<1>4. Inside(Before(w, n, k), k) /\ Inside(After(w, n, k), k)
  BY <1>2, <1>3 DEF Inside, Before, After
<1>5. CountableTime(Before(w, n, k)) \in Nat /\ CountableTime(After(w, n, k)) \in Nat
  BY <1>1, <1>4, CountableIs
<1>6. RuleFor(w, k).threshold = w.threshold
  BY RuleIs
<1>7. ASSUME NEW x \in Nat PROVE Max({0, x - w.threshold}) \in Nat
  <2>1. 0 \in Int /\ x - w.threshold \in Int
    OBVIOUS
  <2>2. Max({0, x - w.threshold}) = IF 0 >= x - w.threshold THEN 0 ELSE x - w.threshold
    BY <2>1, MaxOfTwo
  <2> QED BY <2>2
<1> QED BY <1>5, <1>6, <1>7 DEF CalculateRuleOvertime

(* A day between the first and the last of an interval is a day of it.     *)
LEMMA DayHit ==
    ASSUME NEW s \in Nat, NEW e \in Nat, s < e,
           NEW d \in (s \div DayLength) .. ((e - 1) \div DayLength)
    PROVE  d \in DaysOf(s, e)
<1> DEFINE first == s \div DayLength
           last == (e - 1) \div DayLength
<1>1. /\ e - 1 \in Nat /\ s <= e - 1
      /\ first \in Nat /\ first * DayLength <= s /\ s < (first + 1) * DayLength
      /\ last \in Nat /\ last * DayLength <= e - 1 /\ e - 1 < (last + 1) * DayLength
  BY DayBounds
<1>2. d \in Nat /\ first <= d /\ d <= last
  BY <1>1
<1>3. DayLength \in Nat /\ d * DayLength \in Nat /\ (d + 1) * DayLength \in Nat
      /\ d * DayLength < (d + 1) * DayLength
  BY <1>2, WorkingTimeAssumption, SMT
<1> HIDE DEF first, last
<1>4. s < (d + 1) * DayLength
  <2>1. CASE first = d
    BY <1>1, <2>1
  <2>2. CASE first < d
    <3>1. (first + 1) * DayLength <= d * DayLength
      BY <1>1, <1>2, <2>2, DaysApart
    <3>2. (first + 1) * DayLength \in Nat
      BY <1>1, <1>3
    <3> QED BY <1>1, <1>3, <3>1, <3>2
  <2> QED BY <1>1, <1>2, <2>1, <2>2
<1>5. d * DayLength <= e - 1
  <2>1. CASE d = last
    BY <1>1, <2>1
  <2>2. CASE d < last
    <3>1. (d + 1) * DayLength <= last * DayLength
      BY <1>1, <1>2, <2>2, DaysApart
    <3>2. last * DayLength \in Nat
      BY <1>1, <1>3
    <3> QED BY <1>1, <1>3, <3>1, <3>2
  <2> QED BY <1>1, <1>2, <2>1, <2>2
<1>6. PICK t \in Nat : s <= t /\ t <= e - 1 /\ d * DayLength <= t /\ t < (d + 1) * DayLength
  <2>1. CASE d * DayLength >= s
    BY <1>1, <1>3, <1>5, <2>1
  <2>2. CASE d * DayLength < s
    BY <1>1, <1>3, <1>4, <2>2
  <2> QED BY <1>3, <2>1, <2>2
<1>7. /\ t \div DayLength \in Nat /\ (t \div DayLength) * DayLength <= t
      /\ t < ((t \div DayLength) + 1) * DayLength
  BY <1>6, DayBounds
<1>8. t \div DayLength = d
  BY <1>2, <1>6, <1>7, OneDay
<1>9. t \in s .. (e - 1)
  BY <1>1, <1>6
<1> QED BY <1>8, <1>9 DEF DaysOf

(* A changed interval of a worker touches exactly its days.                *)
LEMMA ChangedTouches ==
    ASSUME NEW n \in Positions, NEW worker, NEW i \in ChangedIntervals(CandidateSeq[n], worker)
    PROVE  /\ i.start \in Nat /\ i.end \in Nat /\ i.start < i.end
           /\ worker \in RegisteredWorkers
           /\ DaysOf(i.start, i.end) \subseteq TouchedDays(CandidateSeq[n], worker)
<1> DEFINE c == CandidateSeq[n]
<1>1. c.modified \subseteq { p.commitment : p \in Schedule }
      /\ c.modified = { p.commitment : p \in c.proposed }
  BY WorkingTimeAssumption DEF Positions
<1>2. CASE \E k \in c.modified : /\ worker \in BaselineOf(k).workers
                                 /\ i.start = BaselineOf(k).start /\ i.end = BaselineOf(k).end
  <2>1. PICK k \in c.modified : /\ worker \in BaselineOf(k).workers
                                /\ i.start = BaselineOf(k).start /\ i.end = BaselineOf(k).end
    BY <1>2
  <2>2. BaselineOf(k) \in Schedule /\ BaselineOf(k).commitment = k
    BY <1>1 DEF BaselineOf
  <2>3. i.start \in Nat /\ i.end \in Nat /\ i.start < i.end
    BY <2>1, <2>2, WorkingTimeAssumption
  <2>4. worker \in RegisteredWorkers
    BY <2>1, <2>2, AuthorityDecisionAssumption
  <2>5. DaysOf(i.start, i.end) \subseteq TouchedDays(c, worker)
    BY <2>1, <2>2 DEF TouchedDays
  <2> QED BY <2>3, <2>4, <2>5
<1>3. CASE \E k \in c.modified : /\ worker = ProposedOf(c, k).worker
                                 /\ i.start = ProposedOf(c, k).start /\ i.end = ProposedOf(c, k).end
  <2>1. PICK k \in c.modified : /\ worker = ProposedOf(c, k).worker
                                /\ i.start = ProposedOf(c, k).start /\ i.end = ProposedOf(c, k).end
    BY <1>3
  <2>2. ProposedOf(c, k) \in c.proposed
    BY <1>1 DEF ProposedOf
  <2>3. i.start \in Nat /\ i.end \in Nat /\ i.start < i.end
    BY <2>1, <2>2, WorkingTimeAssumption DEF Positions
  <2>4. worker \in RegisteredWorkers
    BY <2>1, <2>2, AuthorityDecisionAssumption
  <2>5. DaysOf(i.start, i.end) \subseteq TouchedDays(c, worker)
    BY <2>1, <2>2 DEF TouchedDays
  <2> QED BY <2>3, <2>4, <2>5
<1>4. \/ \E k \in c.modified : /\ worker \in BaselineOf(k).workers
                               /\ i.start = BaselineOf(k).start /\ i.end = BaselineOf(k).end
      \/ \E k \in c.modified : /\ worker = ProposedOf(c, k).worker
                               /\ i.start = ProposedOf(c, k).start /\ i.end = ProposedOf(c, k).end
  BY DEF ChangedIntervals
<1> QED BY <1>2, <1>3, <1>4

(* A changed worker has a changed interval, and a day in it to compare.    *)
LEMMA ChangedHasKey ==
    ASSUME NEW n \in Positions, NEW worker \in ChangedWorkers(CandidateSeq[n])
    PROVE  \E k \in KeysOf(n) : k.worker = worker
<1> DEFINE c == CandidateSeq[n]
<1>1. PICK j \in c.modified : worker \in BaselineOf(j).workers \cup {ProposedOf(c, j).worker}
  BY DEF ChangedWorkers
<1>2. \E i : i \in ChangedIntervals(c, worker)
  BY <1>1 DEF ChangedIntervals
<1>3. PICK i : i \in ChangedIntervals(c, worker)
  BY <1>2
<1>4. /\ i.start \in Nat /\ i.end \in Nat /\ i.start < i.end /\ worker \in RegisteredWorkers
      /\ DaysOf(i.start, i.end) \subseteq TouchedDays(c, worker)
  BY <1>3, ChangedTouches
<1>5. i.start \div DayLength \in DaysOf(i.start, i.end)
  <2>1. i.start \in i.start .. (i.end - 1)
    BY <1>4
  <2> QED BY <2>1 DEF DaysOf
<1> DEFINE d == i.start \div DayLength
           k == Day(worker, d)
<1>6. d \in TouchedDays(c, worker)
  BY <1>4, <1>5
<1> HIDE DEF d
<1>7. k \in KeysOf(n)
  BY <1>4, <1>6 DEF KeysOf, CapturedPeriods, Day
<1>8. k.worker = worker
  BY DEF Day
<1> QED BY <1>7, <1>8

LEMMA SomethingChanged ==
    ASSUME NEW n \in Positions
    PROVE  KeysOf(n) # {}
<1>1. PICK j : j \in CandidateSeq[n].modified
  BY WorkingTimeAssumption DEF Positions
<1>2. ProposedOf(CandidateSeq[n], j).worker \in ChangedWorkers(CandidateSeq[n])
  BY <1>1 DEF ChangedWorkers
<1> QED BY <1>2, ChangedHasKey

(* The periods the code expects are the ones a correct adaptor captures.   *)
LEMMA KeysExpected ==
    ASSUME NEW n \in Positions, NEW W, WorkersWithoutRules(W, CandidateSeq[n]) = {}
    PROVE  KeysOf(n) = ExpectedPeriods(W, CandidateSeq[n])
<1> DEFINE c == CandidateSeq[n]
<1>1. ASSUME NEW k \in KeysOf(n) PROVE k \in ExpectedPeriods(W, c)
  <2>1. PICK x \in RegisteredWorkers : \E e \in TouchedDays(c, x) : k = Day(x, e)
    BY DEF KeysOf, CapturedPeriods, Day
  <2>2. PICK e \in TouchedDays(c, x) : k = Day(x, e)
    BY <2>1
  <2> QED BY <2>2, TouchedIsExpected
<1>2. ASSUME NEW k \in ExpectedPeriods(W, c) PROVE k \in KeysOf(n)
  <2>1. PICK x \in ChangedWorkers(c) : \E p \in LocalCalendarPeriods(ChangedIntervals(c, x)) :
            k = [worker |-> x, start |-> p.start, end |-> p.end]
    BY DEF ExpectedPeriods
  <2>2. PICK p \in LocalCalendarPeriods(ChangedIntervals(c, x)) :
            k = [worker |-> x, start |-> p.start, end |-> p.end]
    BY <2>1
  <2>3. PICK d \in UNION { (i.start \div DayLength) .. ((i.end - 1) \div DayLength) :
                             i \in ChangedIntervals(c, x) } :
            p = [start |-> d * DayLength, end |-> (d + 1) * DayLength]
    BY <2>2 DEF LocalCalendarPeriods
  <2>4. PICK i \in ChangedIntervals(c, x) :
            d \in (i.start \div DayLength) .. ((i.end - 1) \div DayLength)
    BY <2>3
  <2>5. /\ i.start \in Nat /\ i.end \in Nat /\ i.start < i.end /\ x \in RegisteredWorkers
        /\ DaysOf(i.start, i.end) \subseteq TouchedDays(c, x)
    BY <2>4, ChangedTouches
  <2>6. d \in TouchedDays(c, x)
    BY <2>4, <2>5, DayHit
  <2>7. k = Day(x, d)
    BY <2>2, <2>3 DEF Day
  <2> QED BY <2>5, <2>6, <2>7 DEF KeysOf, CapturedPeriods, Day
<1> QED BY <1>1, <1>2

LEMMA KeyOfChanged ==
    ASSUME NEW n \in Positions, NEW k \in KeysOf(n)
    PROVE  k.worker \in ChangedWorkers(CandidateSeq[n])
<1> DEFINE W == [rules |-> { [worker |-> x] : x \in ChangedWorkers(CandidateSeq[n]) }]
<1>1. \A x \in ChangedWorkers(CandidateSeq[n]) : \E r \in W.rules : r.worker = x
  <2> SUFFICES ASSUME NEW x \in ChangedWorkers(CandidateSeq[n])
               PROVE  \E r \in W.rules : r.worker = x
    OBVIOUS
  <2>1. [worker |-> x] \in W.rules /\ [worker |-> x].worker = x
    OBVIOUS
  <2> QED BY <2>1
<1> HIDE DEF W
<1>2. WorkersWithoutRules(W, CandidateSeq[n]) = {}
  BY <1>1 DEF WorkersWithoutRules
<1>3. k \in ExpectedPeriods(W, CandidateSeq[n])
  BY <1>2, KeysExpected
<1>4. \E x \in ChangedWorkers(CandidateSeq[n]) :
        \E p : k = [worker |-> x, start |-> p.start, end |-> p.end]
  BY <1>3 DEF ExpectedPeriods
<1> QED BY <1>4

LEMMA HonestEvidenceOK ==
    ASSUME NEW w, StoresOK(w), NEW n \in Positions
    PROVE  CandidateWorkingTimeEvidenceOK(Honest(w).evidence[n])
<1> DEFINE E == Honest(w).evidence[n]
<1>1. E.keys = KeysOf(n) /\ E.comparisons = { Compared(w, n, k) : k \in KeysOf(n) }
  BY HonestParts
<1>2. \A k \in KeysOf(n) : PeriodKey(Compared(w, n, k)) = k
  BY HonestParts
<1> HIDE DEF E
<1>3. ASSUME NEW k \in KeysOf(n) PROVE ComparisonOK(Compared(w, n, k))
  <2>1. RuleFor(w, k) # NONE
    BY RuleIs DEF StoresOK
  <2>2. /\ CalculateRuleOvertime(RuleFor(w, k), Before(w, n, k)) \in Nat
        /\ CalculateRuleOvertime(RuleFor(w, k), After(w, n, k)) \in Nat
    BY AmountsAre DEF StoresOK
  <2>3. Before(w, n, k) \cup After(w, n, k) # {}
    <3>1. k.worker \in RegisteredWorkers /\ k.start \in Nat /\ k.end \in Nat
      BY KeyIsDay
    <3>2. PICK x \in RegisteredWorkers : \E e \in TouchedDays(CandidateSeq[n], x) : k = Day(x, e)
      BY DEF KeysOf, CapturedPeriods, Day
    <3>3. PICK d \in TouchedDays(CandidateSeq[n], x) : k = Day(x, d)
      BY <3>2
    <3>4. d \in Nat
      BY TouchedIsDay
    <3>5. k.worker = x /\ UnitsOf(d) = k.start .. (k.end - 1)
      BY <3>3, <3>4, DayIs
    <3>6. PICK s, e : /\ s \in Nat /\ e \in Nat /\ d \in DaysOf(s, e)
                      /\ \/ \E p \in Schedule : /\ p.commitment \in CandidateSeq[n].modified
                                                /\ x \in p.workers /\ p.start = s /\ p.end = e
                         \/ \E p \in CandidateSeq[n].proposed :
                               p.worker = x /\ p.start = s /\ p.end = e
      BY WorkingTimeAssumption DEF TouchedDays, Positions
    <3>7. PICK t \in s .. (e - 1) : d = t \div DayLength
      BY <3>6 DEF DaysOf
    <3>8. t \in Nat /\ s <= t /\ t < e
      BY <3>6, <3>7
    <3>9. t \in k.start .. (k.end - 1)
      <4>1. d * DayLength <= t /\ t < (d + 1) * DayLength
        BY <3>7, <3>8, DayBounds
      <4>2. k.start = d * DayLength /\ k.end = (d + 1) * DayLength
        BY <3>3, <3>4, DayIs
      <4> QED BY <3>1, <3>8, <4>1, <4>2
    <3>10. CASE \E p \in Schedule : /\ p.commitment \in CandidateSeq[n].modified
                                    /\ x \in p.workers /\ p.start = s /\ p.end = e
      <4>1. \E p \in Schedule : /\ p.commitment \in CandidateSeq[n].modified
                                /\ k.worker \in p.workers /\ Covers(p, t)
        BY <3>5, <3>8, <3>10 DEF Covers
      <4>2. \E i \in Changed(w, n, k) : Covers(i, t)
        BY <3>1, <3>9, <4>1, ChangedCovers DEF Changed
      <4> QED BY <4>2 DEF Before
    <3>11. CASE \E p \in CandidateSeq[n].proposed : p.worker = x /\ p.start = s /\ p.end = e
      <4>1. \E p \in CandidateSeq[n].proposed : p.worker = k.worker /\ Covers(p, t)
        BY <3>5, <3>8, <3>11 DEF Covers
      <4>2. \E i \in Proposed(n, k) : Covers(i, t)
        BY <3>1, <3>9, <4>1, ProposedCovers DEF Proposed
      <4> QED BY <4>2 DEF After
    <3> QED BY <3>6, <3>10, <3>11
  <2>4. /\ Compared(w, n, k).complete /\ Compared(w, n, k).rule = RuleFor(w, k)
        /\ Compared(w, n, k).baseline = Before(w, n, k)
        /\ Compared(w, n, k).candidate = After(w, n, k)
        /\ Compared(w, n, k).baselineOvertime
             = CalculateRuleOvertime(RuleFor(w, k), Before(w, n, k))
        /\ Compared(w, n, k).candidateOvertime
             = CalculateRuleOvertime(RuleFor(w, k), After(w, n, k))
    BY HonestParts
  <2> QED BY <2>1, <2>2, <2>3, <2>4 DEF ComparisonOK
<1>4. KeysOf(n) = ComparisonKeys(E)
  BY <1>1, <1>2 DEF ComparisonKeys
<1>5. \A m \in E.comparisons : ComparisonOK(m)
  BY <1>1, <1>3
<1>6. \A m, l \in E.comparisons : PeriodKey(m) = PeriodKey(l) => m = l
  BY <1>1, <1>2
<1> QED BY <1>1, <1>4, <1>5, <1>6, SomethingChanged DEF CandidateWorkingTimeEvidenceOK, E

LEMMA HonestSelectionsOK ==
    ASSUME NEW w
    PROVE  SourceSelectionsOK(Honest(w))
<1>1. SourceKinds = {"C0_PLAN_SCHEDULE", "WORKING_TIME_LEDGER"}
  BY DEF SourceKinds
<1>2. \A kind \in SourceKinds : Honest(w).selections[kind].state # "UNKNOWN"
  BY <1>1, HonestSources
<1>3. \A kind \in SourceKinds : /\ Honest(w).manifests[kind].complete
                                /\ Honest(w).selections[kind].head = Honest(w).manifests[kind].head
  BY <1>1, HonestSources
<1>4. DOMAIN Honest(w).manifests = { kind \in SourceKinds : Honest(w).selections[kind].state # "UNKNOWN" }
  BY <1>2, HonestSources
<1> QED BY <1>2, <1>3, <1>4, HonestSources DEF SourceSelectionsOK

LEMMA HonestManifestsOK ==
    ASSUME NEW w, NEW kind \in SourceKinds
    PROVE  ManifestOK(Honest(w).manifests[kind])
<1> DEFINE M == Honest(w).manifests[kind]
<1>1. \A e : e \in M.entries <=>
        \E n \in Positions : \E k \in KeysOf(n) : e = Entry(w, kind, n, k)
  BY HonestSources
<1>2. \A n \in Positions : \A k \in KeysOf(n) :
         LET e == Entry(w, kind, n, k)
         IN  e.position = n /\ PeriodKey(e) = k /\ e.complete
  BY EntryIs
<1> HIDE DEF M
<1>3. ASSUME NEW e \in M.entries, NEW f \in M.entries,
             e.position = f.position, PeriodKey(e) = PeriodKey(f)
      PROVE  e = f
  <2>1. PICK n \in Positions : \E k \in KeysOf(n) : e = Entry(w, kind, n, k)
    BY <1>1
  <2>2. PICK k \in KeysOf(n) : e = Entry(w, kind, n, k)
    BY <2>1
  <2>3. PICK m \in Positions : \E j \in KeysOf(m) : f = Entry(w, kind, m, j)
    BY <1>1
  <2>4. PICK j \in KeysOf(m) : f = Entry(w, kind, m, j)
    BY <2>3
  <2>5. n = m /\ k = j
    BY <1>2, <1>3, <2>2, <2>4
  <2> QED BY <2>2, <2>4, <2>5
<1>4. \A e \in M.entries : e.complete
  BY <1>1, <1>2
<1> QED BY <1>3, <1>4 DEF ManifestOK, M

(* A listed item comes from its own source, and is work of its period.     *)
LEMMA ListedIs ==
    ASSUME NEW w, StoresOK(w), NEW kind \in SourceKinds, NEW n \in Positions, NEW k \in KeysOf(n),
           NEW i \in Listed(w, kind, n, k)
    PROVE  /\ i \in Honest(w).items /\ i.kind \in CommonKinds /\ WorkIn(i, k)
           /\ i.source = <<kind, Honest(w).manifests[kind].head>>
           /\ i \in CommonWork(Before(w, n, k))
<1>1. k.start \in Nat /\ k.end \in Nat
  BY KeyIsDay
<1>2. \A l \in w.ledger : InLedger(l)
  BY DEF StoresOK
<1>3. CASE kind = "C0_PLAN_SCHEDULE"
  <2>1. i \in Planned(w, n, k)
    BY <1>3 DEF Listed
  <2>2. WorkIn(i, k) /\ i.kind = "UNCHANGED_SCHEDULED" /\ i.source = <<"C0_PLAN_SCHEDULE", w.plan>>
    BY <1>1, <2>1, PlannedWorkIs
  <2>3. i \in Before(w, n, k) /\ i.kind \in CommonKinds
    BY <2>1, <2>2 DEF Before, CommonKinds
  <2>4. Honest(w).manifests[kind].head = w.plan
    BY <1>3, HonestSources
  <2>5. i \in Honest(w).items
    BY <2>3, HonestContent
  <2> QED BY <1>3, <2>2, <2>3, <2>4, <2>5 DEF CommonWork
<1>4. CASE kind = "WORKING_TIME_LEDGER"
  <2>1. i \in LedgerWork(w.ledger, k)
    BY <1>4 DEF Listed
  <2>2. WorkIn(i, k) /\ i.kind \in CommonKinds /\ i.source = <<"WORKING_TIME_LEDGER", w.ledger>>
    BY <1>2, <2>1, BookedWorkIs
  <2>3. i \in Before(w, n, k)
    BY <2>1 DEF Before
  <2>4. Honest(w).manifests[kind].head = w.ledger
    BY <1>4, HonestSources
  <2>5. i \in Honest(w).items
    BY <2>3, HonestContent
  <2> QED BY <1>4, <2>2, <2>3, <2>4, <2>5 DEF CommonWork
<1> QED BY <1>3, <1>4 DEF SourceKinds

LEMMA HonestEntriesOK ==
    ASSUME NEW w, StoresOK(w)
    PROVE  ManifestEntriesOK(Honest(w))
<1> DEFINE W == Honest(w)
<1>1. DOMAIN W.manifests = SourceKinds /\ DOMAIN W.evidence = Positions
  BY HonestSources, HonestParts
<1>2. ASSUME NEW kind \in SourceKinds, NEW e \in W.manifests[kind].entries
      PROVE  /\ e.position \in DOMAIN W.evidence
             /\ PeriodKey(e) \in ComparisonKeys(W.evidence[e.position])
             /\ \A i \in e.items :
                   /\ i \in W.items
                   /\ i.kind \in CommonKinds
                   /\ i.worker = e.worker
                   /\ i.start >= e.start
                   /\ i.end <= e.end
                   /\ i.source = <<kind, W.manifests[kind].head>>
  <2>1. PICK n \in Positions : \E k \in KeysOf(n) : e = Entry(w, kind, n, k)
    BY HonestSources
  <2>2. PICK k \in KeysOf(n) : e = Entry(w, kind, n, k)
    BY <2>1
  <2>3. /\ e.position = n /\ PeriodKey(e) = k
        /\ e.worker = k.worker /\ e.start = k.start /\ e.end = k.end
        /\ e.items = Listed(w, kind, n, k)
    BY <2>2, EntryIs
  <2>4. k \in ComparisonKeys(W.evidence[n])
    <3>1. Compared(w, n, k) \in W.evidence[n].comparisons /\ PeriodKey(Compared(w, n, k)) = k
      BY HonestParts
    <3> HIDE DEF W
    <3> QED BY <3>1 DEF ComparisonKeys
  <2>5. \A i \in Listed(w, kind, n, k) :
           /\ i \in W.items /\ i.kind \in CommonKinds /\ WorkIn(i, k)
           /\ i.source = <<kind, W.manifests[kind].head>>
    BY ListedIs
  <2> HIDE DEF W
  <2> QED BY <1>1, <2>3, <2>4, <2>5 DEF WorkIn
<1>3. ASSUME NEW kind \in SourceKinds, NEW other \in SourceKinds, kind # other,
             NEW i \in EntryItems(W.manifests[kind]), i \in EntryItems(W.manifests[other])
      PROVE  FALSE
  <2>1. \E n \in Positions : \E k \in KeysOf(n) : i \in Listed(w, kind, n, k)
    BY HonestSources
  <2>2. \E n \in Positions : \E k \in KeysOf(n) : i \in Listed(w, other, n, k)
    BY <1>3, HonestSources
  <2>3. i.source = <<kind, W.manifests[kind].head>>
    BY <2>1, ListedIs
  <2>4. i.source = <<other, W.manifests[other].head>>
    BY <2>2, ListedIs
  <2> HIDE DEF W
  <2> QED BY <1>3, <2>3, <2>4
<1> HIDE DEF W
<1>4. \A k, l \in DOMAIN W.manifests :
         k # l => EntryItems(W.manifests[k]) \cap EntryItems(W.manifests[l]) = {}
  BY <1>1, <1>3
<1>5. \A k \in DOMAIN W.manifests :
          \A e \in W.manifests[k].entries :
             /\ e.position \in DOMAIN W.evidence
             /\ PeriodKey(e) \in ComparisonKeys(W.evidence[e.position])
             /\ \A i \in e.items :
                   /\ i \in W.items
                   /\ i.kind \in CommonKinds
                   /\ i.worker = e.worker
                   /\ i.start >= e.start
                   /\ i.end <= e.end
                   /\ i.source = <<k, W.manifests[k].head>>
  BY <1>1, <1>2
<1> QED BY <1>4, <1>5 DEF ManifestEntriesOK, W

LEMMA HonestLedgerOK ==
    ASSUME NEW w, StoresOK(w)
    PROVE  LedgerContentOK(Honest(w))
<1> DEFINE L == "WORKING_TIME_LEDGER"
           M == Honest(w).manifests[L]
<1>1. /\ M.head = w.ledger
      /\ \A i : i \in EntryItems(M) <=>
            \E n \in Positions : \E k \in KeysOf(n) : i \in LedgerWork(w.ledger, k)
      /\ Honest(w).selections[L].state = IF w.ledger = {} THEN "AUTHORITATIVELY_EMPTY" ELSE "PRESENT"
  BY HonestSources DEF SourceKinds, Listed
<1> HIDE DEF M
<1>2. \A l \in w.ledger : InLedger(l)
  BY DEF StoresOK
<1>3. ASSUME NEW i \in EntryItems(M) PROVE LedgerSourceItem(i) \in w.ledger
  BY <1>1, <1>2, BookedWorkIs
<1>4. ASSUME NEW l \in w.ledger PROVE \E i \in EntryItems(M) : LedgerSourceItem(i) = l
  <2>1. PICK n \in Positions : \E k \in CapturedPeriods(CandidateSeq[n]) :
           l.worker = k.worker /\ k.start <= l.start /\ l.end <= k.end
    BY <1>2 DEF InLedger
  <2>2. PICK k \in KeysOf(n) : l.worker = k.worker /\ k.start <= l.start /\ l.end <= k.end
    BY <2>1 DEF KeysOf
  <2>3. k.start \in Nat /\ k.end \in Nat /\ l.start \in Nat /\ l.end \in Nat
    BY <1>2, KeyIsDay DEF InLedger, Booking
  <2> DEFINE i == WorkItem(l.worker, l.kind, l.commitment, NONE, l.start, l.end,
                           <<"WORKING_TIME_LEDGER", w.ledger>>)
  <2>4. i \in LedgerWork(w.ledger, k)
    BY <2>2, <2>3 DEF LedgerWork
  <2>5. /\ i.worker = l.worker /\ i.kind = l.kind /\ i.commitment = l.commitment
        /\ i.start = l.start /\ i.end = l.end
    BY DEF WorkItem
  <2> HIDE DEF i
  <2>6. LedgerSourceItem(i) = l
    BY <1>2, <2>5 DEF LedgerSourceItem, InLedger
  <2> QED BY <1>1, <2>4, <2>6
<1>5. w.ledger = { LedgerSourceItem(i) : i \in EntryItems(M) }
  BY <1>3, <1>4
<1>6. (EntryItems(M) = {}) <=> (w.ledger = {})
  BY <1>3, <1>4
<1> QED BY <1>1, <1>5, <1>6 DEF LedgerContentOK, M

LEMMA CommonIs ==
    ASSUME NEW w, NEW n \in Positions, NEW k \in KeysOf(n)
    PROVE  ManifestCommon(Honest(w), n, k) = Planned(w, n, k) \cup LedgerWork(w.ledger, k)
<1> DEFINE W == Honest(w)
           all == UNION { W.manifests[kind].entries : kind \in DOMAIN W.manifests }
<1>1. DOMAIN W.manifests = SourceKinds
  BY HonestSources
<1>2. \A e : e \in all <=> \E kind \in SourceKinds : e \in W.manifests[kind].entries
  BY <1>1
<1>3. \A e : e \in all <=> \E kind \in SourceKinds : \E m \in Positions : \E j \in KeysOf(m) :
                             e = Entry(w, kind, m, j)
  <2>1. \A kind \in SourceKinds : \A e : e \in W.manifests[kind].entries <=>
           \E m \in Positions : \E j \in KeysOf(m) : e = Entry(w, kind, m, j)
    BY HonestSources
  <2> HIDE DEF W, all
  <2> QED BY <1>2, <2>1
<1>4. \A i : i \in ManifestCommon(W, n, k) <=>
         \E f \in all : f.position = n /\ PeriodKey(f) = k /\ i \in f.items
  <2> HIDE DEF W
  <2> QED BY Zenon DEF ManifestCommon
<1>5. \A kind \in SourceKinds : \A m \in Positions : \A j \in KeysOf(m) :
         LET e == Entry(w, kind, m, j)
         IN  e.position = m /\ PeriodKey(e) = j /\ e.items = Listed(w, kind, m, j)
  BY EntryIs
<1> HIDE DEF W, all
<1>6. \A i : i \in ManifestCommon(W, n, k) => \E kind \in SourceKinds : i \in Listed(w, kind, n, k)
  BY <1>3, <1>4, <1>5
<1>7. ASSUME NEW kind \in SourceKinds, NEW i \in Listed(w, kind, n, k)
      PROVE  i \in ManifestCommon(W, n, k)
  <2>1. Entry(w, kind, n, k) \in all
    BY <1>3
  <2> QED BY <1>4, <1>5, <1>7, <2>1
<1>8. SourceKinds = {"C0_PLAN_SCHEDULE", "WORKING_TIME_LEDGER"}
  BY DEF SourceKinds
<1>9. \A i : i \in ManifestCommon(W, n, k) <=>
          i \in Listed(w, "C0_PLAN_SCHEDULE", n, k) \cup Listed(w, "WORKING_TIME_LEDGER", n, k)
  BY <1>6, <1>7, <1>8
<1>10. /\ Listed(w, "C0_PLAN_SCHEDULE", n, k) = Planned(w, n, k)
       /\ Listed(w, "WORKING_TIME_LEDGER", n, k) = LedgerWork(w.ledger, k)
  BY DEF Listed
<1>11. ManifestCommon(W, n, k) = Planned(w, n, k) \cup LedgerWork(w.ledger, k)
  BY <1>9, <1>10
<1> QED BY <1>11 DEF W

LEMMA HonestComparisonOK ==
    ASSUME NEW w, StoresOK(w), NEW n \in Positions, NEW k \in KeysOf(n)
    PROVE  ComparisonInCutOK(Honest(w), n, Compared(w, n, k))
<1> DEFINE W == Honest(w)
           m == Compared(w, n, k)
<1>1. /\ m.baseline = Before(w, n, k) /\ m.candidate = After(w, n, k) /\ PeriodKey(m) = k
      /\ m.rule = RuleFor(w, k) /\ m.worker = k.worker /\ m.complete
      /\ m.baselineOvertime = CalculateRuleOvertime(RuleFor(w, k), Before(w, n, k))
      /\ m.candidateOvertime = CalculateRuleOvertime(RuleFor(w, k), After(w, n, k))
  BY HonestParts
<1> HIDE DEF m, W
<1>2. /\ \A l \in w.ledger : InLedger(l)
      /\ w.threshold \in Nat
  BY DEF StoresOK
<1>3. m.rule \in W.rules /\ PeriodKey(m.rule) = PeriodKey(m)
  <2>1. RuleFor(w, k) \in W.rules
    BY HonestContent DEF W
  <2>2. PeriodKey(RuleFor(w, k)) = k
    BY <1>2, RuleIs
  <2> QED BY <1>1, <2>1, <2>2
<1>4. m.baseline \cup m.candidate \subseteq W.items
  BY <1>1, HonestContent DEF W
<1>5. \A i \in m.baseline \cup m.candidate : WorkIn(i, k)
  BY <1>1, <1>2, WorkIs
<1>6. \A i \in m.baseline \cup m.candidate : i.worker = m.worker
  BY <1>1, <1>5 DEF WorkIn
<1>7. \A i \in m.baseline : i.kind # "PROPOSED_CANDIDATE"
  BY <1>1, <1>2, WorkIs
<1>8. \A i \in m.candidate : /\ i.kind # "BASELINE_CHANGED"
                             /\ i.kind = "PROPOSED_CANDIDATE" => i.candidate = CandidateSeq[n].id
  BY <1>1, <1>2, WorkIs
<1>9. /\ CommonWork(m.baseline) = ManifestCommon(W, n, PeriodKey(m))
      /\ CommonWork(m.candidate) = ManifestCommon(W, n, PeriodKey(m))
  <2>1. ManifestCommon(W, n, k) = Planned(w, n, k) \cup LedgerWork(w.ledger, k)
    BY CommonIs DEF W
  <2>2. /\ CommonWork(Before(w, n, k)) = Planned(w, n, k) \cup LedgerWork(w.ledger, k)
        /\ CommonWork(After(w, n, k)) = Planned(w, n, k) \cup LedgerWork(w.ledger, k)
    BY <1>2, WorkIs
  <2> QED BY <1>1, <2>1, <2>2
<1>10. DOMAIN W.manifests = SourceKinds /\ SourceKinds # {}
  BY HonestSources DEF W, SourceKinds
<1>11. ASSUME NEW kind \in SourceKinds
       PROVE  /\ W.manifests[kind].complete
              /\ \E e \in W.manifests[kind].entries :
                    e.position = n /\ PeriodKey(e) = PeriodKey(m) /\ e.complete
  <2>1. Entry(w, kind, n, k) \in W.manifests[kind].entries /\ W.manifests[kind].complete
    BY HonestSources DEF W
  <2>2. LET e == Entry(w, kind, n, k) IN e.position = n /\ PeriodKey(e) = k /\ e.complete
    BY EntryIs
  <2> QED BY <1>1, <2>1, <2>2
<1>12. RuleWorkItemsOK(m.rule, m.baseline) /\ RuleWorkItemsOK(m.rule, m.candidate)
  <2>1. m.rule.worker = k.worker /\ m.rule.start = k.start /\ m.rule.end = k.end
    BY <1>1, <1>2, RuleIs
  <2> QED BY <1>5, <2>1 DEF RuleWorkItemsOK, WorkIn
<1>13. /\ m.baselineOvertime = CalculateRuleOvertime(m.rule, m.baseline)
       /\ m.candidateOvertime = CalculateRuleOvertime(m.rule, m.candidate)
  BY <1>1
<1>14. CommonWork(m.baseline) \cup CommonWork(m.candidate) \subseteq ManifestCommon(W, n, PeriodKey(m))
  BY <1>9
<1>15. ComparisonInCutOK(W, n, m)
  BY <1>3, <1>4, <1>6, <1>7, <1>8, <1>9, <1>10, <1>11, <1>12, <1>13, <1>14 DEF ComparisonInCutOK
<1> QED BY <1>15 DEF W, m

LEMMA HonestUniverseOK ==
    ASSUME NEW w, StoresOK(w)
    PROVE  WorkUniverseOK(Honest(w))
<1> DEFINE W == Honest(w)
<1>1. /\ \A r : r \in W.rules <=> \E n \in Positions : \E k \in KeysOf(n) : r = RuleFor(w, k)
      /\ \A i : i \in W.items <=>
            \E n \in Positions : \E k \in KeysOf(n) : i \in Before(w, n, k) \cup After(w, n, k)
      /\ \A m : m \in Comparisons(W) <=>
            \E n \in Positions : \E k \in KeysOf(n) : m = Compared(w, n, k)
  BY HonestContent
<1>2. DOMAIN W.manifests = SourceKinds
  BY HonestSources
<1>3. \A kind \in SourceKinds : \A i : i \in EntryItems(W.manifests[kind]) <=>
         \E n \in Positions : \E k \in KeysOf(n) : i \in Listed(w, kind, n, k)
  BY HonestSources
<1> HIDE DEF W
<1>4. \A n \in Positions : \A k \in KeysOf(n) :
         /\ Compared(w, n, k).rule = RuleFor(w, k) /\ RuleFor(w, k) # NONE
         /\ Compared(w, n, k).baseline = Before(w, n, k)
         /\ Compared(w, n, k).candidate = After(w, n, k)
  <2>1. \A n \in Positions : \A k \in KeysOf(n) : RuleFor(w, k) # NONE
    BY RuleIs DEF StoresOK
  <2> QED BY <2>1, HonestParts
<1>5. W.items = UNION { m.baseline \cup m.candidate : m \in Comparisons(W) }
  <2>1. \A i : i \in UNION { m.baseline \cup m.candidate : m \in Comparisons(W) } <=>
           \E m \in Comparisons(W) : i \in m.baseline \cup m.candidate
    OBVIOUS
  <2>2. \A i : i \in W.items <=> \E m \in Comparisons(W) : i \in m.baseline \cup m.candidate
    BY <1>1, <1>4
  <2> QED BY <2>1, <2>2
<1>6. W.rules = { m.rule : m \in Comparisons(W) } \ {NONE}
  <2>1. \A r : r \in { m.rule : m \in Comparisons(W) } \ {NONE} <=>
           r # NONE /\ \E m \in Comparisons(W) : r = m.rule
    OBVIOUS
  <2>2. \A r : r \in W.rules <=> r # NONE /\ \E m \in Comparisons(W) : r = m.rule
    BY <1>1, <1>4
  <2> QED BY <2>1, <2>2
<1>7. CommonWork(W.items) = UNION { EntryItems(W.manifests[kind]) : kind \in DOMAIN W.manifests }
  <2>1. \A i : i \in UNION { EntryItems(W.manifests[kind]) : kind \in DOMAIN W.manifests } <=>
           \E kind \in SourceKinds : i \in EntryItems(W.manifests[kind])
    BY <1>2
  <2>2. \A n \in Positions : \A k \in KeysOf(n) : \A i :
           (i \in Before(w, n, k) \cup After(w, n, k) /\ i.kind \in CommonKinds)
           => i \in Listed(w, "C0_PLAN_SCHEDULE", n, k) \/ i \in Listed(w, "WORKING_TIME_LEDGER", n, k)
    <3> SUFFICES ASSUME NEW n \in Positions, NEW k \in KeysOf(n),
                        NEW i \in Before(w, n, k) \cup After(w, n, k), i.kind \in CommonKinds
                 PROVE  \/ i \in Listed(w, "C0_PLAN_SCHEDULE", n, k)
                        \/ i \in Listed(w, "WORKING_TIME_LEDGER", n, k)
      OBVIOUS
    <3>1. i \in CommonWork(Before(w, n, k)) \/ i \in CommonWork(After(w, n, k))
      BY DEF CommonWork
    <3>2. i \in Planned(w, n, k) \cup LedgerWork(w.ledger, k)
      BY <3>1, WorkIs DEF StoresOK
    <3> QED BY <3>2 DEF Listed
  <2>3. \A kind \in SourceKinds : \A n \in Positions : \A k \in KeysOf(n) :
           \A i \in Listed(w, kind, n, k) :
              i \in Before(w, n, k) \cup After(w, n, k) /\ i.kind \in CommonKinds
    BY ListedIs DEF CommonWork
  <2>4. "C0_PLAN_SCHEDULE" \in SourceKinds /\ "WORKING_TIME_LEDGER" \in SourceKinds
    BY DEF SourceKinds
  <2>5. \A i : i \in CommonWork(W.items) <=> i \in W.items /\ i.kind \in CommonKinds
    BY DEF CommonWork
  <2>6. ASSUME NEW i \in CommonWork(W.items)
        PROVE  \E kind \in SourceKinds : i \in EntryItems(W.manifests[kind])
    <3>1. PICK n \in Positions : \E k \in KeysOf(n) : i \in Before(w, n, k) \cup After(w, n, k)
      BY <1>1, <2>5
    <3>2. PICK k \in KeysOf(n) : i \in Before(w, n, k) \cup After(w, n, k)
      BY <3>1
    <3> QED BY <1>3, <2>2, <2>4, <2>5, <3>2
  <2>7. ASSUME NEW kind \in SourceKinds, NEW i \in EntryItems(W.manifests[kind])
        PROVE  i \in CommonWork(W.items)
    BY <1>1, <1>3, <2>3, <2>5
  <2>8. \A i : i \in CommonWork(W.items) <=> \E kind \in SourceKinds : i \in EntryItems(W.manifests[kind])
    BY <2>6, <2>7
  <2> QED BY <2>1, <2>8
<1> QED BY <1>5, <1>6, <1>7 DEF WorkUniverseOK, W

(* What a correct adaptor captures passes every check of the dataclasses.  *)
LEMMA HonestCutOK ==
    ASSUME NEW w, StoresOK(w)
    PROVE  WorkingTimeEvidenceCutOK(Honest(w))
<1> DEFINE W == Honest(w)
<1>1. /\ \A l \in w.ledger : InLedger(l)
      /\ w.threshold \in Nat
  BY DEF StoresOK
<1>2. /\ DOMAIN W.evidence = Positions
      /\ \A n \in Positions : W.evidence[n].comparisons = { Compared(w, n, k) : k \in KeysOf(n) }
  BY HonestParts
<1>3. DOMAIN W.manifests = SourceKinds /\ SourceSelectionsOK(W)
      /\ \A kind \in SourceKinds : W.selections[kind].state # "UNKNOWN"
  BY HonestSources, HonestSelectionsOK DEF SourceKinds
<1>4. \A r \in W.rules : RuleOK(r)
  BY <1>1, HonestContent, RuleIs
<1>5. \A i \in W.items : WorkItemOK(i)
  BY <1>1, HonestContent, WorkIs
<1>6. \A n \in Positions : CandidateWorkingTimeEvidenceOK(W.evidence[n])
  BY HonestEvidenceOK
<1>7. \A kind \in SourceKinds : ManifestOK(W.manifests[kind])
  BY HonestManifestsOK
<1>8. ManifestEntriesOK(W) /\ LedgerContentOK(W) /\ WorkUniverseOK(W)
  BY HonestEntriesOK, HonestLedgerOK, HonestUniverseOK
<1>9. \A n \in Positions : \A m \in W.evidence[n].comparisons : ComparisonInCutOK(W, n, m)
  BY <1>2, HonestComparisonOK
<1> HIDE DEF W
<1>10. WorkingTimeEvidenceCutOK(W)
  BY <1>2, <1>3, <1>4, <1>5, <1>6, <1>7, <1>8, <1>9 DEF WorkingTimeEvidenceCutOK
<1> QED BY <1>10 DEF W

LEMMA RulesForChanged ==
    ASSUME NEW w, NEW n \in Positions
    PROVE  WorkersWithoutRules(Honest(w), CandidateSeq[n]) = {}
<1> SUFFICES ASSUME NEW x \in ChangedWorkers(CandidateSeq[n])
             PROVE  \E r \in Honest(w).rules : r.worker = x
  BY DEF WorkersWithoutRules
<1>1. PICK k \in KeysOf(n) : k.worker = x
  BY ChangedHasKey
<1>2. RuleFor(w, k) \in Honest(w).rules
  BY HonestContent
<1>3. RuleFor(w, k).worker = x
  BY <1>1 DEF RuleFor
<1> QED BY <1>2, <1>3

LEMMA HonestAgainstCandidate ==
    ASSUME NEW w, StoresOK(w), NEW n \in Positions, NEW k \in KeysOf(n)
    PROVE  ComparisonAgainstCandidateOK(Honest(w), n, Compared(w, n, k),
                                        <<"C0_PLAN_SCHEDULE", w.plan>>)
<1> DEFINE m == Compared(w, n, k)
           schedule == <<"C0_PLAN_SCHEDULE", w.plan>>
<1>1. /\ m.baseline = Before(w, n, k) /\ m.candidate = After(w, n, k) /\ PeriodKey(m) = k
      /\ m.rule = RuleFor(w, k)
  BY HonestParts
<1> HIDE DEF m
<1>2. k.start \in Nat /\ k.end \in Nat
  BY KeyIsDay
<1>3. \A i \in Planned(w, n, k) : i.kind = "UNCHANGED_SCHEDULED" /\ i.source = schedule
  BY <1>2, PlannedWorkIs
<1>4. \A i \in Changed(w, n, k) : i.kind = "BASELINE_CHANGED"
  BY <1>2, ChangedWorkIs
<1>5. \A i \in Proposed(n, k) : i.kind = "PROPOSED_CANDIDATE"
  BY <1>2, ProposedWorkIs
<1>6. \A i \in LedgerWork(w.ledger, k) :
         i.kind \in CommonKinds /\ i.source = <<"WORKING_TIME_LEDGER", w.ledger>>
  BY BookedWorkIs DEF StoresOK
<1>7. <<"WORKING_TIME_LEDGER", w.ledger>> # schedule
  OBVIOUS
<1>8. CommonKinds = {"COMPLETED_COUNTABLE", "UNCHANGED_SCHEDULED"}
  BY DEF CommonKinds
<1> HIDE DEF schedule
<1>9. OfKind(m.baseline, "BASELINE_CHANGED") = Changed(w, n, k)
  BY <1>1, <1>3, <1>4, <1>6, <1>8 DEF OfKind, Before
<1>10. OfKind(m.candidate, "PROPOSED_CANDIDATE") = Proposed(n, k)
  BY <1>1, <1>3, <1>5, <1>6, <1>8 DEF OfKind, After
<1>11. { i \in OfKind(m.baseline, "UNCHANGED_SCHEDULED") : i.source = schedule } = Planned(w, n, k)
  BY <1>1, <1>3, <1>4, <1>6, <1>7 DEF OfKind, Before
<1>12. schedule = PlanHead(w)
  BY DEF PlanHead, schedule
<1>13. RuleFor(w, k) \in Honest(w).rules /\ PeriodKey(RuleFor(w, k)) = k
  BY HonestContent, RuleIs DEF StoresOK
<1>14. ComparisonAgainstCandidateOK(Honest(w), n, m, schedule)
  BY <1>1, <1>9, <1>10, <1>11, <1>12, <1>13
     DEF ComparisonAgainstCandidateOK, Changed, Proposed, Planned
<1> QED BY <1>14 DEF m, schedule

(* ... and it is valid against the candidates.                             *)
LEMMA HonestValid ==
    ASSUME NEW w, StoresOK(w)
    PROVE  ValidAgainstCandidates(Honest(w), w.plan)
<1> DEFINE W == Honest(w)
<1>1. \A r \in W.rules : \E n \in Positions : \E k \in KeysOf(n) :
         /\ r = RuleFor(w, k) /\ PeriodKey(r) = k /\ r.threshold = w.threshold
         /\ r.from = 0 /\ r.until = NONE
  BY HonestContent, RuleIs DEF StoresOK
<1>2. W.manifests["C0_PLAN_SCHEDULE"].head = w.plan
      /\ W.manifests["C0_PLAN_SCHEDULE"].complete
  BY HonestSources DEF SourceKinds
<1>3. ASSUME NEW n \in Positions
      PROVE  /\ WorkersWithoutRules(W, CandidateSeq[n]) = {}
             /\ W.evidence[n].keys = ExpectedPeriods(W, CandidateSeq[n])
             /\ ComparisonKeys(W.evidence[n]) = ExpectedPeriods(W, CandidateSeq[n])
  <2>1. WorkersWithoutRules(W, CandidateSeq[n]) = {}
    BY RulesForChanged
  <2>2. KeysOf(n) = ExpectedPeriods(W, CandidateSeq[n])
    BY <2>1, KeysExpected
  <2>3. W.evidence[n].keys = KeysOf(n)
    BY HonestParts
  <2>4. ComparisonKeys(W.evidence[n]) = KeysOf(n)
    <3>1. W.evidence[n].comparisons = { Compared(w, n, k) : k \in KeysOf(n) }
      BY HonestParts
    <3>2. \A k \in KeysOf(n) : PeriodKey(Compared(w, n, k)) = k
      BY HonestParts
    <3> HIDE DEF W
    <3> QED BY <3>1, <3>2 DEF ComparisonKeys
  <2> QED BY <2>1, <2>2, <2>3, <2>4
<1>4. \A n \in Positions : \A m \in W.evidence[n].comparisons :
         ComparisonAgainstCandidateOK(W, n, m, <<"C0_PLAN_SCHEDULE", w.plan>>)
  BY HonestParts, HonestAgainstCandidate
<1> HIDE DEF W
<1>5. \A r, s \in W.rules : PeriodKey(r) = PeriodKey(s) => r = s
  BY <1>1
<1>6. \A r, s \in W.rules :
         <<r.threshold, r.from, r.until>> = <<s.threshold, s.from, s.until>>
  BY <1>1
<1>7. ValidAgainstCandidates(W, w.plan)
  BY <1>2, <1>3, <1>4, <1>5, <1>6 DEF ValidAgainstCandidates
<1> QED BY <1>7 DEF W

(***************************************************************************)
(* The capture, stage by stage.                                            *)
(***************************************************************************)
Begun == {"support", "cost", "working", "markers", "selections", "decide"}

(* While nothing moves, what is captured is what the stores hold: stage by *)
(* stage, and the fallible parts as long as every report was honest.       *)
BasisAsIs ==
    ~moved /\ stage \in Begun =>
       /\ cut.plan = world.plan /\ cut.input = InputOf(world)
       /\ cut.days = world.days /\ cut.root = RootOf(world)

ChainAsIs ==
    /\ ~moved /\ stage \in Begun \ {"support"} =>
          /\ cut.support = SupportOf(world)
          /\ cut.m3 = [input |-> InputOf(world), support |-> SupportOf(world)]
    /\ ~moved /\ stage \in Begun \ {"support", "cost"} =>
          /\ cut.cost.plan = world.plan
          /\ cut.cost.m3 = cut.m3

ReportsAsIs ==
    /\ ~moved /\ honest /\ stage \in {"markers", "selections", "decide"} =>
          cut.working = Honest(world)
    /\ ~moved /\ honest /\ stage \in {"selections", "decide"} =>
          cut.markers = MarkerCut(world, {})

SelectionsAsIs ==
    ~moved /\ honest /\ stage = "decide" =>
       /\ cut.owner = OwnerSelections(world, cut)
       /\ cut.consent = [r \in WorkerRequirements(cut) |-> ConsentHead(world, r.scope)]

AsTheStoresAre ==
    /\ moved \in BOOLEAN /\ honest \in BOOLEAN
    /\ BasisAsIs /\ ChainAsIs /\ ReportsAsIs /\ SelectionsAsIs

(* What is required does not depend on what was selected for it.           *)
LEMMA RequiredBefore ==
    ASSUME NEW c, NEW d, d.cost = c.cost, d.policy = c.policy, d.markers = c.markers
    PROVE  /\ WorkerRequirements(d) = WorkerRequirements(c)
           /\ OwnerRequirements(d) = OwnerRequirements(c)
           /\ \A w : OwnerSelections(w, d) = OwnerSelections(w, c)
<1>1. \A k : CostOf(k, d) = CostOf(k, c)
  BY DEF CostOf
<1>2. \A k : DeriveAuthorityRequirements(k, d) = DeriveAuthorityRequirements(k, c)
  BY <1>1 DEF DeriveAuthorityRequirements
<1>3. Requirements(d) = Requirements(c)
  BY <1>2 DEF Requirements
<1>4. /\ WorkerRequirements(d) = WorkerRequirements(c)
      /\ OwnerRequirements(d) = OwnerRequirements(c)
  BY <1>3 DEF WorkerRequirements, OwnerRequirements
<1>5. \A w : OwnerSelections(w, d) = OwnerSelections(w, c)
  BY <1>4 DEF OwnerSelections
<1> QED BY <1>4, <1>5

LEMMA AsTheStoresAreStep ==
    PartsCaptured /\ AsTheStoresAre /\ [AuthorityNext]_decisionVars => AsTheStoresAre'
<1> SUFFICES ASSUME PartsCaptured, AsTheStoresAre, [AuthorityNext]_decisionVars
             PROVE  AsTheStoresAre'
  OBVIOUS
<1>1. CASE Begin
  <2>1. /\ stage' = "support" /\ world' = world /\ moved' = FALSE /\ honest' = TRUE
        /\ cut'.plan = world.plan /\ cut'.input = InputOf(world)
        /\ cut'.days = world.days /\ cut'.root = RootOf(world)
    BY <1>1 DEF Begin
  <2> QED BY <2>1 DEF AsTheStoresAre, BasisAsIs, ChainAsIs, ReportsAsIs, SelectionsAsIs, Begun
<1>2. CASE CaptureSupport
  <2>1. /\ stage = "support" /\ stage' = "cost"
        /\ world' = world /\ moved' = moved /\ honest' = honest
    BY <1>2 DEF CaptureSupport
  <2>2. DOMAIN cut = FirstParts
    BY <2>1 DEF PartsCaptured
  <2>3. /\ cut'.plan = cut.plan /\ cut'.input = cut.input
        /\ cut'.days = cut.days /\ cut'.root = cut.root
    BY <1>2, <2>2, JoinedKeeps DEF CaptureSupport, FirstParts
  <2>4. /\ cut'.support = SupportOf(world)
        /\ cut'.m3 = [input |-> cut.input, support |-> SupportOf(world)]
    BY <1>2, <2>2, JoinedAdds DEF CaptureSupport, FirstParts
  <2> QED
    BY <2>1, <2>3, <2>4 DEF AsTheStoresAre, BasisAsIs, ChainAsIs, ReportsAsIs, SelectionsAsIs, Begun
<1>3. CASE CaptureCost
  <2>1. /\ stage = "cost" /\ stage' = "working"
        /\ world' = world /\ moved' = moved /\ honest' = honest
    BY <1>3 DEF CaptureCost
  <2>2. DOMAIN cut = FirstParts \cup {"support", "m3"}
    BY <2>1 DEF PartsCaptured
  <2>3. /\ cut'.plan = cut.plan /\ cut'.input = cut.input
        /\ cut'.days = cut.days /\ cut'.root = cut.root
        /\ cut'.support = cut.support /\ cut'.m3 = cut.m3
    BY <1>3, <2>2, JoinedKeeps DEF CaptureCost, FirstParts
  <2>4. cut'.cost = CostSupportOf(world, cut.m3)
    BY <1>3, <2>2, JoinedAdds DEF CaptureCost, FirstParts
  <2>5. cut'.cost.plan = world.plan /\ cut'.cost.m3 = cut.m3
    BY <2>4 DEF CostSupportOf
  <2> QED
    BY <2>1, <2>3, <2>5 DEF AsTheStoresAre, BasisAsIs, ChainAsIs, ReportsAsIs, SelectionsAsIs, Begun
<1>4. ASSUME NEW f \in WorkingTimeFaults, NEW b \in Bool, CaptureWorkingTime(f, b)
      PROVE  AsTheStoresAre'
  <2>1. /\ stage = "working" /\ stage' = "markers" /\ world' = world /\ moved' = moved
        /\ honest' \in BOOLEAN
        /\ honest' => f = "NO_FAULT" /\ b = TRUE
    BY <1>4 DEF CaptureWorkingTime, Bool
  <2>2. DOMAIN cut = FirstParts \cup {"support", "m3"} \cup {"cost"}
    BY <2>1 DEF PartsCaptured
  <2>3. /\ cut'.plan = cut.plan /\ cut'.input = cut.input
        /\ cut'.days = cut.days /\ cut'.root = cut.root
        /\ cut'.support = cut.support /\ cut'.m3 = cut.m3 /\ cut'.cost = cut.cost
    BY <1>4, <2>2, JoinedKeeps DEF CaptureWorkingTime, FirstParts
  <2>4. cut'.working = WorkingTimeCut(world, f, b)
    BY <1>4, <2>2, JoinedAdds DEF CaptureWorkingTime, FirstParts
  <2>5. honest' => cut'.working = Honest(world)
    BY <2>1, <2>4 DEF Honest
  <2>6. BasisAsIs'
    BY <2>1, <2>3 DEF AsTheStoresAre, BasisAsIs, Begun
  <2>7. ChainAsIs'
    BY <2>1, <2>3 DEF AsTheStoresAre, ChainAsIs, Begun
  <2>8. ReportsAsIs'
    BY <2>1, <2>5 DEF AsTheStoresAre, ReportsAsIs
  <2>9. SelectionsAsIs'
    BY <2>1 DEF AsTheStoresAre, SelectionsAsIs
  <2>10. moved' \in BOOLEAN /\ honest' \in BOOLEAN
    BY <2>1 DEF AsTheStoresAre
  <2> QED BY <2>6, <2>7, <2>8, <2>9, <2>10 DEF AsTheStoresAre
<1>5. ASSUME NEW u, CaptureMarkers(u) PROVE AsTheStoresAre'
  <2>1. /\ stage = "markers" /\ stage' = "selections" /\ world' = world /\ moved' = moved
        /\ honest' \in BOOLEAN
        /\ honest' => honest /\ u = {}
    BY <1>5 DEF CaptureMarkers
  <2>2. DOMAIN cut = FirstParts \cup {"support", "m3"} \cup {"cost"} \cup {"working"}
    BY <2>1 DEF PartsCaptured
  <2>3. /\ cut'.plan = cut.plan /\ cut'.input = cut.input
        /\ cut'.days = cut.days /\ cut'.root = cut.root
        /\ cut'.support = cut.support /\ cut'.m3 = cut.m3 /\ cut'.cost = cut.cost
        /\ cut'.working = cut.working
    BY <1>5, <2>2, JoinedKeeps DEF CaptureMarkers, FirstParts
  <2>4. cut'.markers = MarkerCut(world, u)
    BY <1>5, <2>2, JoinedAdds DEF CaptureMarkers, FirstParts
  <2>5. BasisAsIs'
    BY <2>1, <2>3 DEF AsTheStoresAre, BasisAsIs, Begun
  <2>6. ChainAsIs'
    BY <2>1, <2>3 DEF AsTheStoresAre, ChainAsIs, Begun
  <2>7. ReportsAsIs'
    BY <2>1, <2>3, <2>4 DEF AsTheStoresAre, ReportsAsIs
  <2>8. SelectionsAsIs'
    BY <2>1 DEF AsTheStoresAre, SelectionsAsIs
  <2>9. moved' \in BOOLEAN /\ honest' \in BOOLEAN
    BY <2>1 DEF AsTheStoresAre
  <2> QED BY <2>5, <2>6, <2>7, <2>8, <2>9 DEF AsTheStoresAre
<1>6. ASSUME NEW p \in 0..1, SelectEvidence(p) PROVE AsTheStoresAre'
  <2>1. /\ stage = "selections" /\ stage' = "decide" /\ world' = world /\ moved' = moved
        /\ honest' \in BOOLEAN
        /\ honest' => honest /\ p = 0
    BY <1>6 DEF SelectEvidence
  <2>2. DOMAIN cut = FirstParts \cup {"support", "m3"} \cup {"cost"} \cup {"working"}
                     \cup {"markers"}
    BY <2>1 DEF PartsCaptured
  <2>3. /\ cut'.plan = cut.plan /\ cut'.input = cut.input /\ cut'.policy = cut.policy
        /\ cut'.days = cut.days /\ cut'.root = cut.root
        /\ cut'.support = cut.support /\ cut'.m3 = cut.m3 /\ cut'.cost = cut.cost
        /\ cut'.working = cut.working /\ cut'.markers = cut.markers
    BY <1>6, <2>2, JoinedKeeps DEF SelectEvidence, FirstParts
  <2>4. /\ cut'.owner = OwnerSelections(world, cut)
        /\ p = 0 => cut'.consent = [r \in WorkerRequirements(cut) |-> ConsentHead(world, r.scope)]
    BY <1>6, <2>2, JoinedAdds DEF SelectEvidence, FirstParts
  <2>5. /\ WorkerRequirements(cut') = WorkerRequirements(cut)
        /\ OwnerSelections(world, cut') = OwnerSelections(world, cut)
    BY <2>3, RequiredBefore
  <2>6. BasisAsIs'
    BY <2>1, <2>3 DEF AsTheStoresAre, BasisAsIs, Begun
  <2>7. ChainAsIs'
    BY <2>1, <2>3 DEF AsTheStoresAre, ChainAsIs, Begun
  <2>8. ReportsAsIs'
    BY <2>1, <2>3 DEF AsTheStoresAre, ReportsAsIs
  <2>9. SelectionsAsIs'
    BY <2>1, <2>3, <2>4, <2>5 DEF AsTheStoresAre, SelectionsAsIs
  <2>10. moved' \in BOOLEAN /\ honest' \in BOOLEAN
    BY <2>1 DEF AsTheStoresAre
  <2> QED BY <2>6, <2>7, <2>8, <2>9, <2>10 DEF AsTheStoresAre
<1>7. CASE Decide
  BY <1>7 DEF Decide, DecidedStage, AsTheStoresAre, BasisAsIs, ChainAsIs, ReportsAsIs,
         SelectionsAsIs, Begun
<1>8. CASE Restart
  BY <1>8 DEF Restart, AsTheStoresAre, BasisAsIs, ChainAsIs, ReportsAsIs,
         SelectionsAsIs, Begun
<1>9. CASE WorldMoves
  BY <1>9 DEF WorldMoves, AsTheStoresAre, BasisAsIs, ChainAsIs, ReportsAsIs,
         SelectionsAsIs, Begun
<1>10. CASE UNCHANGED decisionVars
  BY <1>10 DEF decisionVars, AsTheStoresAre, BasisAsIs, ChainAsIs, ReportsAsIs,
         SelectionsAsIs, Begun
<1> QED
  BY <1>1, <1>2, <1>3, <1>4, <1>5, <1>6, <1>7, <1>8, <1>9, <1>10 DEF AuthorityNext

LEMMA HonestWorkers ==
    ASSUME NEW w, StoresOK(w)
    PROVE  /\ \A r \in Honest(w).rules : r.worker \in RegisteredWorkers
           /\ \A i \in Honest(w).items : i.worker \in RegisteredWorkers
<1>1. \A n \in Positions : \A k \in KeysOf(n) : k.worker \in RegisteredWorkers
  BY KeyIsDay
<1>2. \A n \in Positions : \A k \in KeysOf(n) : RuleFor(w, k).worker = k.worker
  BY DEF RuleFor
<1>3. \A n \in Positions : \A k \in KeysOf(n) : \A i \in Before(w, n, k) \cup After(w, n, k) :
         i.worker = k.worker
  BY WorkIs DEF StoresOK, WorkIn
<1>4. \A r \in Honest(w).rules : r.worker \in RegisteredWorkers
  BY <1>1, <1>2, HonestContent
<1>5. \A i \in Honest(w).items : i.worker \in RegisteredWorkers
  BY <1>1, <1>3, HonestContent
<1> QED BY <1>4, <1>5

LEMMA HonestComparesAll ==
    ASSUME NEW w, NEW n \in Positions
    PROVE  { m.worker : m \in Honest(w).evidence[n].comparisons } =
             (UNION { BaselineOf(k).workers : k \in CandidateSeq[n].modified })
             \cup { p.worker : p \in CandidateSeq[n].proposed }
<1> DEFINE c == CandidateSeq[n]
           compared == { m.worker : m \in Honest(w).evidence[n].comparisons }
           taken == UNION { BaselineOf(k).workers : k \in c.modified }
           given == { p.worker : p \in c.proposed }
<1>1. compared = ChangedWorkers(c)
  <2>1. Honest(w).evidence[n].comparisons = { Compared(w, n, k) : k \in KeysOf(n) }
    BY HonestParts
  <2>2. \A k \in KeysOf(n) : Compared(w, n, k).worker = k.worker
    BY HonestParts
  <2>3. \A x : x \in compared <=> \E m \in Honest(w).evidence[n].comparisons : x = m.worker
    OBVIOUS
  <2> HIDE DEF compared
  <2>4. \A x : x \in compared <=> \E k \in KeysOf(n) : x = k.worker
    BY <2>1, <2>2, <2>3
  <2>5. \A x : x \in compared <=> x \in ChangedWorkers(c)
    BY <2>4, KeyOfChanged, ChangedHasKey
  <2> QED BY <2>5
<1>2. \A x : x \in ChangedWorkers(c) <=>
         (\E k \in c.modified : x \in BaselineOf(k).workers) \/ (\E k \in c.modified : x = ProposedOf(c, k).worker)
  BY DEF ChangedWorkers
<1>3. \A x : (\E k \in c.modified : x = ProposedOf(c, k).worker) <=> x \in given
  <2>1. c.modified = { p.commitment : p \in c.proposed }
    BY WorkingTimeAssumption DEF Positions
  <2>2. \A p \in c.proposed : ProposedOf(c, p.commitment) = p
    BY WorkingTimeAssumption DEF ProposedOf, Positions
  <2>3. \A k \in c.modified : ProposedOf(c, k) \in c.proposed
    BY <2>1, <2>2
  <2> HIDE DEF c
  <2>4. \A x : x \in given <=> \E p \in c.proposed : x = p.worker
    OBVIOUS
  <2> HIDE DEF given
  <2> QED BY <2>1, <2>2, <2>3, <2>4
<1>4. \A x : (\E k \in c.modified : x \in BaselineOf(k).workers) <=> x \in taken
  OBVIOUS
<1> HIDE DEF compared, taken, given
<1>5. compared = taken \cup given
  BY <1>1, <1>2, <1>3, <1>4
<1> QED BY <1>5 DEF compared, taken, given

LEMMA HonestMarkersOK ==
    ASSUME NEW w
    PROVE  /\ MarkerSupportCutOK(MarkerCut(w, {}))
           /\ \A s \in DOMAIN MarkerCut(w, {}) : \A e \in MarkerCut(w, {})[s].evidence : e.worker = NONE
<1> DEFINE M == MarkerCut(w, {})
<1>1. DOMAIN M = MarkerUniverse
  BY DEF MarkerCut
<1>2. ASSUME NEW s \in MarkerUniverse
      PROVE  /\ CoverageOK(s, M[s])
             /\ \A e \in M[s].evidence : e.worker = NONE
  <2> DEFINE mark == [subject |-> s, worker |-> NONE, marked |-> s \in w.markers,
                      complete |-> TRUE, head |-> w.markers]
  <2>1. M[s] = [complete |-> TRUE, evidence |-> {mark}]
    BY DEF MarkerCut
  <2>2. mark.subject = s /\ mark.worker = NONE /\ mark.complete /\ mark.head = w.markers
    OBVIOUS
  <2> HIDE DEF mark, M
  <2>3. M[s].evidence = {mark}
    BY <2>1
  <2>4. { e.head : e \in M[s].evidence } = {w.markers}
    BY <2>2, <2>3
  <2>5. Cardinality({w.markers}) = 1
    BY FS_Singleton
  <2> QED BY <2>2, <2>3, <2>4, <2>5 DEF CoverageOK
<1> QED BY <1>1, <1>2 DEF MarkerSupportCutOK

(* A private vehicle's consent is asked of its driver.                     *)
LEMMA ConsentIsDrivers ==
    ASSUME NEW c, NEW r \in WorkerRequirements(c)
    PROVE  r.scope.worker \in Drivers
<1>1. PICK n \in Positions : r \in DeriveAuthorityRequirements(CandidateSeq[n], c)
  BY DEF WorkerRequirements, Requirements
<1>2. r.principal = "WORKER"
  BY DEF WorkerRequirements
<1>3. \E s \in PrivateVehicleScopes(CandidateSeq[n]) : r.scope = s
  BY <1>1, <1>2 DEF DeriveAuthorityRequirements, Requirement
<1>4. PICK p \in CandidateSeq[n].proposed : p.vehicle \in PrivateVehicles /\ r.scope.worker = p.worker
  BY <1>3 DEF PrivateVehicleScopes, Scope
<1> QED BY <1>4 DEF Drivers

(* The vector that is read from the stores observes what a cut requires.   *)
LEMMA VectorComplete ==
    ASSUME NEW c, NEW w
    PROVE  CurrentnessVectorOK(c, Observed(w, c))
<1>1. DOMAIN RequiredObservations(c) = DOMAIN PlanObservations(c)
                 \cup DOMAIN SupportObservations(c)
                 \cup DOMAIN SelectionObservations(c) \cup DOMAIN HeadObservations(c)
                 \cup DOMAIN DerivedObservations(c)
  BY DEF RequiredObservations, Joined
<1>2. /\ DOMAIN PlanObservations(c) =
            {"COMPANY_PLAN_REVISION_HEAD", "CURRENT_PLANNING_SCOPE", "M1_HANDOFF_PRECONDITIONS",
             "M2_JOB_TASK_PRECONDITIONS", "M2_ASSIGNMENT_PRECONDITIONS",
             "PLAN_DAY_PRECONDITIONS", "EVALUATION_INPUT_BINDING"}
      /\ DOMAIN SupportObservations(c) =
            {"C0_SUPPORT_SELECTED_SOURCES", "M3_C_RECOMPUTATION", "M5_M3_D_CHAIN",
             "AUTH_0_BINDING", "POLICY_BINDING"}
      /\ DOMAIN SelectionObservations(c) = {"OWNER_APPROVAL_SELECTIONS", "WORKER_CONSENT_HEADS"}
      /\ DOMAIN HeadObservations(c) =
            {"WORKING_TIME_RULE_HEAD", "WORKING_TIME_C0_HEAD", "WORKING_TIME_LEDGER_HEAD",
             "AUTHORITY_MARKER_HEADS"}
      /\ DOMAIN DerivedObservations(c) = {"HARD_BOUNDARIES", "AUTHORITY_REQUIREMENTS"}
  BY DEF PlanObservations, SupportObservations, SelectionObservations, HeadObservations,
         DerivedObservations
<1>3. DOMAIN Observed(w, c) =
         {"COMPANY_PLAN_REVISION_HEAD", "CURRENT_PLANNING_SCOPE", "M1_HANDOFF_PRECONDITIONS",
          "M2_JOB_TASK_PRECONDITIONS", "M2_ASSIGNMENT_PRECONDITIONS",
          "PLAN_DAY_PRECONDITIONS", "EVALUATION_INPUT_BINDING",
          "C0_SUPPORT_SELECTED_SOURCES", "M3_C_RECOMPUTATION", "M5_M3_D_CHAIN",
          "AUTH_0_BINDING", "POLICY_BINDING",
          "OWNER_APPROVAL_SELECTIONS", "WORKER_CONSENT_HEADS",
          "WORKING_TIME_RULE_HEAD", "WORKING_TIME_C0_HEAD", "WORKING_TIME_LEDGER_HEAD",
          "AUTHORITY_MARKER_HEADS", "HARD_BOUNDARIES", "AUTHORITY_REQUIREMENTS"}
  BY DEF Observed
<1> QED BY <1>1, <1>2, <1>3, Zenon DEF CurrentnessVectorOK

LEMMA HonestBinds ==
    ASSUME StoresOK(world), AsTheStoresAre, stage = "decide", ~moved, honest,
           world.registry = RootRegistry
    PROVE  EvidenceBound(cut)
<1>1. /\ cut.plan = world.plan /\ cut.input = InputOf(world)
      /\ cut.days = world.days /\ cut.root = RootOf(world)
  BY DEF AsTheStoresAre, BasisAsIs, Begun
<1>2. /\ cut.support = SupportOf(world)
      /\ cut.m3 = [input |-> InputOf(world), support |-> SupportOf(world)]
      /\ cut.cost.plan = world.plan /\ cut.cost.m3 = cut.m3
  BY DEF AsTheStoresAre, ChainAsIs, Begun
<1>3. cut.working = Honest(world) /\ cut.markers = MarkerCut(world, {})
  BY DEF AsTheStoresAre, ReportsAsIs
<1>4. /\ cut.owner = OwnerSelections(world, cut)
      /\ cut.consent = [r \in WorkerRequirements(cut) |-> ConsentHead(world, r.scope)]
  BY DEF AsTheStoresAre, SelectionsAsIs
<1>5. PlanDayHeadsBound(cut)
  BY <1>1 DEF PlanDayHeadsBound, InputOf
<1>6. ChainBound(cut)
  BY <1>1, <1>2 DEF ChainBound, InputOf, SupportOf, RootOf
<1>7. WorkingTimeEvidenceCutOK(cut.working) /\ ValidAgainstCandidates(cut.working, cut.plan)
  BY <1>1, <1>3, HonestCutOK, HonestValid
<1>8. WorkersInRegistry(cut)
  <2>1. cut.root.workers = RegisteredWorkers /\ cut.root.principals = world.principals
    BY <1>1 DEF RootOf
  <2>2. /\ \A r \in cut.working.rules : r.worker \in RegisteredWorkers
        /\ \A i \in cut.working.items : i.worker \in RegisteredWorkers
    BY <1>3, HonestWorkers
  <2>3. \A s \in DOMAIN cut.markers : \A e \in cut.markers[s].evidence : e.worker = NONE
    BY <1>3, HonestMarkersOK
  <2>4. world.principals \subseteq RegisteredWorkers
    BY DEF StoresOK
  <2> QED BY <2>1, <2>2, <2>3, <2>4 DEF WorkersInRegistry
<1>9. OvertimeWorkersComplete(cut)
  BY <1>3, HonestComparesAll DEF OvertimeWorkersComplete
<1>10. MarkerSupportCutOK(cut.markers)
  BY <1>3, HonestMarkersOK
<1>11. OwnerSelectionsOK(cut)
  BY <1>4 DEF OwnerSelectionsOK, OwnerSelections
<1>12. ConsentSelectionsOK(cut)
  <2>1. DOMAIN cut.consent = WorkerRequirements(cut)
    BY <1>4
  <2>2. ASSUME NEW r \in WorkerRequirements(cut), cut.consent[r] # NONE
        PROVE  /\ cut.consent[r].scope = r.scope
               /\ cut.consent[r].sequence > 0
               /\ r.scope.worker \in cut.root.principals
    <3>1. cut.consent[r] = ConsentHead(world, r.scope)
      BY <1>4
    <3>2. world.consent # <<>>
      BY <2>2, <3>1 DEF ConsentHead
    <3>3. Len(world.consent) > 0
      BY <3>2 DEF StoresOK
    <3>4. cut.consent[r].scope = r.scope /\ cut.consent[r].sequence = Len(world.consent)
      BY <3>1, <3>2 DEF ConsentHead, ConsentAt
    <3>5. r.scope.worker \in world.principals
      BY <3>2, ConsentIsDrivers DEF StoresOK
    <3> QED BY <1>1, <3>3, <3>4, <3>5 DEF RootOf
  <2> QED BY <2>1, <2>2 DEF ConsentSelectionsOK
<1> QED
  BY <1>5, <1>6, <1>7, <1>8, <1>9, <1>10, <1>11, <1>12 DEF EvidenceBound

LEMMA AcceptedStep ==
    /\ BoundariesKnown /\ AsTheStoresAre /\ HonestEvidenceAccepted
    /\ [AuthorityNext]_decisionVars
    => HonestEvidenceAccepted'
<1> SUFFICES ASSUME BoundariesKnown, AsTheStoresAre, HonestEvidenceAccepted,
                    [AuthorityNext]_decisionVars
             PROVE  HonestEvidenceAccepted'
  OBVIOUS
<1> USE DEF HonestEvidenceAccepted
<1>1. CASE Begin
  BY <1>1 DEF Begin
<1>2. CASE CaptureSupport
  BY <1>2 DEF CaptureSupport
<1>3. CASE CaptureCost
  BY <1>3 DEF CaptureCost
<1>4. ASSUME NEW f \in WorkingTimeFaults, NEW b \in Bool, CaptureWorkingTime(f, b)
      PROVE  HonestEvidenceAccepted'
  BY <1>4 DEF CaptureWorkingTime
<1>5. ASSUME NEW u, CaptureMarkers(u) PROVE HonestEvidenceAccepted'
  BY <1>5 DEF CaptureMarkers
<1>6. ASSUME NEW p \in 0..1, SelectEvidence(p) PROVE HonestEvidenceAccepted'
  BY <1>6 DEF SelectEvidence
<1>7. CASE Decide
  <2> SUFFICES ASSUME stage' = "refused", ~moved, honest, world.registry = RootRegistry
               PROVE  FALSE
    BY <1>7 DEF Decide
  <2>1. EvidenceBound(cut)
    BY <1>7, HonestBinds DEF Decide, BoundariesKnown
  <2>2. CurrentnessVectorOK(cut, Observed(world, cut))
    BY VectorComplete
  <2> QED BY <1>7, <2>1, <2>2 DEF Decide, DecidedStage
<1>8. CASE Restart
  BY <1>8 DEF Restart
<1>9. CASE WorldMoves
  BY <1>9 DEF WorldMoves
<1>10. CASE UNCHANGED decisionVars
  BY <1>10 DEF decisionVars
<1> QED
  BY <1>1, <1>2, <1>3, <1>4, <1>5, <1>6, <1>7, <1>8, <1>9, <1>10 DEF AuthorityNext

(* Evidence that was captured completely, in a world that did not move, is *)
(* never refused, but for a registry revised after the root was set up.    *)
THEOREM HonestEvidenceAlwaysAccepted == AuthoritySpec => []HonestEvidenceAccepted
<1>1. AuthorityInit => AsTheStoresAre /\ HonestEvidenceAccepted
  BY DEF AuthorityInit, AsTheStoresAre, BasisAsIs, ChainAsIs, ReportsAsIs, SelectionsAsIs,
         Begun, HonestEvidenceAccepted
<1>2. AuthoritySpec => [](BoundariesKnown /\ EvaluationNeverRaises)
  BY BoundariesInit, BoundariesStep, PTL DEF AuthoritySpec
<1>3. AuthoritySpec => []PartsCaptured
  BY PartsInit, PartsStep, PTL DEF AuthoritySpec
<1>4. AuthoritySpec => []AsTheStoresAre
  BY <1>1, <1>3, AsTheStoresAreStep, PTL DEF AuthoritySpec
<1> QED BY <1>1, <1>2, <1>4, AcceptedStep, PTL DEF AuthoritySpec
=============================================================================
