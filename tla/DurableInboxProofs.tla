-------------------------- MODULE DurableInboxProofs --------------------------
(***************************************************************************)
(* Theorems about the durable inbox, for every number of clients and of    *)
(* crashes and every set of inputs.  The inductive invariant is Inv: what  *)
(* a row may hold in each of its two states, who claims a server id, and   *)
(* that effects, evidence usages and answers belong to completed rows.     *)
(* Registered adds what the root tables hold: guarded tasks, free stages,  *)
(* and evidence that the identity table knows.  UsesRecorded says that the *)
(* usage table knows what accepted reports brought.                        *)
(*                                                                         *)
(* The last sections prove the refinement.  A reduction of the hydrated    *)
(* part of what is stored and one of the whole read the same, write the    *)
(* same, and differ only by what hydration left out: Carries says so of a  *)
(* handler's result, Stores of what is committed.                          *)
(***************************************************************************)
EXTENDS DurableInbox, M2ReducerProofs

(* The receipt of an event and the result of its row agree. *)
Records(q, i, result) ==
    q.event = i.event /\ q.sid = i.sid /\ ResultOf(q) = result

RowOK(row) ==
    /\ DOMAIN row = {"input", "ctx", "owner", "status", "result", "receipts", "readable"}
    /\ row.status = "RECEIVED" => row.receipts = {} /\ row.result = None
    /\ row.status = "COMPLETED" =>
          /\ ResultType(row.result)
          /\ IF IsEvent(row.input) /\ row.owner = None
             THEN \E q : row.receipts = {q} /\ Records(q, row.input, row.result)
             ELSE row.receipts = {}

Done(k) == k \in KnownKeys /\ inbox[k].status = "COMPLETED"

Claims ==
    \A k, l \in KnownKeys :
        Claimed(inbox[k]) # None /\ Claimed(inbox[k]) = Claimed(inbox[l]) => k = l

OwnerOK(k) ==
    LET owner == inbox[k].owner IN
    owner # None => /\ owner \in KnownKeys
                    /\ Presented(inbox[owner].input) = Presented(inbox[k].input)
                    /\ inbox[owner].owner = None

Stored ==
    /\ \A k \in KnownKeys : RowOK(inbox[k]) /\ OwnerOK(k)
    /\ Claims
    /\ \A f \in outbox : Done(f.source)
    /\ \A u \in usages : Done(<<"FIELD_EVENT", u[1]>>)
    /\ \A a \in answers : Done(a.key) /\ inbox[a.key].result = a.result

Inv == TypeOK /\ Stored

-----------------------------------------------------------------------------
(* Reductions of an input that the ledger does not know. *)

(* An event that is new to the ledger gets one receipt, and it agrees with the result. *)
LEMMA FreshReceipt ==
    ASSUME NEW s, NEW i \in FieldInputs, NEW c,
           \A q \in s.receipts : q.event.id # i.event.id /\ q.sid # i.sid
    PROVE  LET r == NormalizeReduction(i, Reduce(s, i, c)) IN
           \E q : r.receipts = {q} /\ Records(q, i, ResultOf(r))
  <1> DEFINE w == RawReduction(s, i, c)
             d == Reduce(s, i, c)
             Good(r) == \E q : r.receipts = {q} /\ Records(q, i, ResultOf(r))
  <1>1. ASSUME NEW v
        PROVE  Good(FinishEvent(v, i))
    <2> DEFINE q == [event |-> i.event, sid |-> i.sid, outcome |-> v.outcome,
                     response |-> v.effects, missing |-> v.missing,
                     reasons |-> v.reasons]
    <2>1. FinishEvent(v, i).receipts = {q}
      BY DEF FinishEvent, Reduction
    <2>2. Records(q, i, ResultOf(FinishEvent(v, i)))
      BY DEF FinishEvent, Reduction, Records, ResultOf
    <2> QED
      BY <2>1, <2>2
  <1>2. i.kind = "FIELD_EVENT"
    BY InputAssumption DEF InputAssumption
  <1>3. CASE c.ruleSupported
    <2>1. Good(w)
      <3>1. {r \in s.receipts : r.event.id = i.event.id} = {}
        OBVIOUS
      <3>2. ~\E r \in s.receipts : r.sid = i.sid
        OBVIOUS
      <3>3. ReduceFieldEvent(s, i, c) =
              IF ReferenceErrors(s, i.event) # {}
              THEN RejectEvent(s, i, ReferenceErrors(s, i.event))
              ELSE FinishEvent(HandleEvent(s, i.event, c), i)
        BY <3>1, <3>2 DEF ReduceFieldEvent
      <3> QED
        BY <1>1, <1>2, <1>3, <3>3 DEF RawReduction, RejectEvent
    <2>2. /\ d.receipts = w.receipts /\ d.outcome = w.outcome
          /\ d.response = w.response /\ d.missing = w.missing /\ d.reasons = w.reasons
      <3>1. {"scope", "receipts", "outcome", "response", "missing", "reasons"}
               \subseteq DOMAIN w
        BY DEF RawReduction, ReduceFieldEvent, Replay, RejectEvent, FinishEvent, Reduction
      <3> HIDE DEF w
      <3> QED
        BY <3>1 DEF Reduce, w
    <2> HIDE DEF w, d
    <2>3. Good(d) /\ d.receipts # {}
      BY <2>1, <2>2 DEF ResultOf
    <2> QED
      BY <2>3 DEF NormalizeReduction, d
  <1>4. CASE ~c.ruleSupported
    <2>1. w = Reduction(Refuse(s, "UNSUPPORTED_RULE_VERSION"), {}, FALSE)
      BY <1>4 DEF RawReduction
    <2>2. d.receipts = {} /\ d.reasons = {"UNSUPPORTED_RULE_VERSION"}
      BY <2>1 DEF Reduce, Reduction, Refuse, Result
    <2> HIDE DEF d
    <2>3. NormalizeReduction(i, d) =
            FinishEvent(Refuse(d.scope, "UNSUPPORTED_RULE_VERSION"), i)
      BY <1>2, <2>2 DEF NormalizeReduction
    <2> QED
      BY <1>1, <2>3 DEF d
  <1> QED
    BY <1>3, <1>4

(* A signal gets no receipt. *)
LEMMA SignalReceipt ==
    ASSUME NEW s, NEW g \in Signals, NEW c
    PROVE  /\ Reduce(s, g, c).receipts = {}
           /\ NormalizeReduction(g, Reduce(s, g, c)) = Reduce(s, g, c)
  <1>1. g.kind # "FIELD_EVENT"
    BY InputAssumption DEF InputAssumption
  <1> DEFINE w == RawReduction(s, g, c)
  <1>2. w.receipts = {} /\ "scope" \in DOMAIN w /\ "receipts" \in DOMAIN w
    BY <1>1 DEF RawReduction, Reduction
  <1> HIDE DEF w
  <1>3. Reduce(s, g, c).receipts = {}
    BY <1>2 DEF Reduce, w
  <1> QED
    BY <1>1, <1>3 DEF NormalizeReduction

(* _hydrate returns a well-typed part of what is stored. *)
LEMMA HydrateGood ==
    ASSUME TypeOK, NEW i \in Inputs
    PROVE  /\ Hydrate(i) \in Scopes(HydratedReceipts(i))
           /\ HydratedReceipts(i) \subseteq Ledger
           /\ \A q \in HydratedReceipts(i) : ReceiptType(q)
  <1>1. roots \in Scopes({}) /\ roots.days \subseteq PlanDays /\ roots.jobs \subseteq Jobs
        /\ roots.dirs \subseteq Directives
    BY ScopeParts DEF TypeOK
  <1>2. DirectiveRefs(i) \subseteq roots.dirs
    BY DEF DirectiveRefs, StopsFor
  <1>3. HydratedJobs(i) \subseteq roots.jobs
    BY DEF HydratedJobs
  <1> DEFINE days == ({Payload(i).day} \cup {DirDef[x].day : x \in DirectiveRefs(i)})
                       \cap roots.days
  <1>4. days \subseteq PlanDays
    BY <1>1
  <1>5. Hydrate(i) = [roots EXCEPT !.jobs = HydratedJobs(i), !.days = days,
                                   !.dirs = DirectiveRefs(i),
                                   !.receipts = HydratedReceipts(i)]
    BY DEF Hydrate
  <1> HIDE DEF days
  <1>6. Hydrate(i) \in Scopes(HydratedReceipts(i))
    BY <1>1, <1>2, <1>3, <1>4, <1>5 DEF Scopes
  <1>7. HydratedReceipts(i) \subseteq Ledger
    BY DEF HydratedReceipts
  <1>8. \A q \in Ledger : ReceiptType(q)
    BY DEF TypeOK, Ledger, Rows
  <1> QED
    BY <1>6, <1>7, <1>8

(* Whose receipts the ledger holds. *)
LEMMA LedgerRows ==
    ASSUME Inv, NEW q \in Ledger
    PROVE  \E k \in KnownKeys :
              /\ inbox[k].status = "COMPLETED" /\ inbox[k].owner = None
              /\ IsEvent(inbox[k].input) /\ inbox[k].receipts = {q}
              /\ q.event = inbox[k].input.event /\ q.sid = inbox[k].input.sid
  <1>1. PICK k \in KnownKeys : q \in inbox[k].receipts
    BY DEF Ledger, Rows
  <1>2. RowOK(inbox[k]) /\ inbox[k].status \in {"RECEIVED", "COMPLETED"}
    BY DEF Inv, Stored, TypeOK
  <1> QED
    BY <1>1, <1>2 DEF RowOK, Records

(* Field events with the same event id have the same key. *)
LEMMA EventKeys ==
    ASSUME NEW i \in Inputs, NEW j \in Inputs, IsEvent(i), IsEvent(j)
    PROVE  /\ i \in FieldInputs /\ i.sid # None
           /\ Key(i) = <<"FIELD_EVENT", i.event.id>>
           /\ i.event.id = j.event.id => Key(i) = Key(j)
  BY InputAssumption DEF InputAssumption, Inputs, IsEvent, Key, ServerIds

(* A pending event that owns its server id is new to the ledger. *)
LEMMA PendingIsFresh ==
    ASSUME Inv, NEW k \in KnownKeys, inbox[k].status = "RECEIVED",
           inbox[k].owner = None, IsEvent(inbox[k].input), NEW q \in Ledger
    PROVE  q.event.id # inbox[k].input.event.id /\ q.sid # inbox[k].input.sid
  <1>1. PICK l \in KnownKeys :
              /\ inbox[l].status = "COMPLETED" /\ inbox[l].owner = None
              /\ IsEvent(inbox[l].input) /\ inbox[l].receipts = {q}
              /\ q.event = inbox[l].input.event /\ q.sid = inbox[l].input.sid
    BY LedgerRows
  <1>2. k # l
    BY <1>1
  <1>3. /\ inbox[k].input \in Inputs /\ Key(inbox[k].input) = k
        /\ inbox[l].input \in Inputs /\ Key(inbox[l].input) = l
    BY DEF Inv, TypeOK
  <1>4. q.event.id # inbox[k].input.event.id
    BY <1>1, <1>2, <1>3, EventKeys
  <1>5. inbox[k].input.sid # None
    BY <1>3, EventKeys
  <1>6. q.sid # inbox[k].input.sid
    BY <1>1, <1>2, <1>5 DEF Inv, Stored, Claims, Claimed, Presented
  <1> QED
    BY <1>4, <1>6

(* What process_input is about to store for a pending row. *)
LEMMA DurableReductionGood ==
    ASSUME Inv, NEW k \in KnownKeys, inbox[k].status = "RECEIVED", inbox[k].owner = None
    PROVE  LET i == inbox[k].input
               r == DurableReduction(inbox[k])
           IN  /\ r.scope \in Scopes(HydratedReceipts(i) \cup r.receipts)
               /\ ResultType(ResultOf(r))
               /\ \A q \in r.receipts : ReceiptType(q)
               /\ IF IsEvent(i) THEN \E q : r.receipts = {q} /\ Records(q, i, ResultOf(r))
                  ELSE r.receipts = {}
  <1> DEFINE i == inbox[k].input
             s == Hydrate(i)
             R == HydratedReceipts(i)
             d == Reduce(s, i, inbox[k].ctx)
             r == NormalizeReduction(i, d)
  <1>1. i \in Inputs
    BY DEF Inv, TypeOK
  <1>2. /\ s \in Scopes(R) /\ R \subseteq Ledger /\ s.receipts = R
        /\ \A q \in R : ReceiptType(q)
    BY <1>1, HydrateGood, ScopeParts DEF Inv
  <1>3. r = DurableReduction(inbox[k])
    BY DEF DurableReduction
  <1>4. GoodReduction(R, s, d)
    BY <1>1, <1>2, ReduceGood DEF Inputs
  <1>5. CASE IsEvent(i)
    <2>1. i \in FieldInputs
      BY <1>1, <1>5, EventKeys
    <2>2. GoodReduction(R, s, r)
      BY <1>2, <1>4, <2>1, NormalizeGood
    <2>3. \A q \in s.receipts : q.event.id # i.event.id /\ q.sid # i.sid
      BY <1>2, <1>5, PendingIsFresh
    <2>4. \E q : r.receipts = {q} /\ Records(q, i, ResultOf(r))
      BY <2>1, <2>3, FreshReceipt
    <2> HIDE DEF r, s, R, i
    <2> QED
      BY <1>3, <1>5, <2>2, <2>4 DEF GoodReduction, ResultType, ResultOf, i, R
  <1>6. CASE ~IsEvent(i)
    <2>1. i \in Signals
      BY <1>1, <1>6, InputAssumption DEF InputAssumption, Inputs, IsEvent
    <2>2. r.receipts = {} /\ r = d
      BY <2>1, SignalReceipt
    <2> HIDE DEF r, s, R, i, d
    <2> QED
      BY <1>3, <1>4, <1>6, <2>2 DEF GoodReduction, ResultType, ResultOf, i, R
  <1> QED
    BY <1>5, <1>6

-----------------------------------------------------------------------------
(* Steps. *)

(* FirstAcceptanceStands, for one step. *)
Kept ==
    \A k \in KnownKeys :
        /\ k \in DOMAIN inbox'
        /\ inbox'[k].input = inbox[k].input /\ inbox'[k].ctx = inbox[k].ctx
        /\ inbox'[k].owner = inbox[k].owner
        /\ inbox[k].status = "COMPLETED" => inbox'[k] = inbox[k]

(* A row is completed with its receipt, effects, usages and answer. *)
LEMMA CompleteStep ==
    ASSUME Inv, NEW c \in Clients, Pending(c),
           NEW r, NEW receipts, NEW readable \in BOOLEAN,
           CompleteInbox(c, r, receipts, readable),
           ResultType(ResultOf(r)), \A q \in receipts : ReceiptType(q),
           IF IsEvent(inbox[session[c]].input) /\ inbox[session[c]].owner = None
           THEN \E q : receipts = {q} /\ Records(q, inbox[session[c]].input, ResultOf(r))
           ELSE receipts = {},
           (roots \in Scopes({}))', crashes' = crashes,
           \A f \in outbox' : f \in outbox \/ f.source = session[c],
           \A u \in usages' : u \in usages \/ <<"FIELD_EVENT", u[1]>> = session[c]
    PROVE  Inv' /\ Kept
  <1>0. PICK k : k = session[c]
    OBVIOUS
  <1> DEFINE row == [inbox[k] EXCEPT !.status = "COMPLETED", !.result = ResultOf(r),
                                     !.receipts = receipts, !.readable = readable]
  <1>1. k \in KnownKeys /\ k # None /\ inbox[k].status = "RECEIVED"
    BY <1>0 DEF Pending, Inv, TypeOK
  <1>2. inbox' = [inbox EXCEPT ![k] = row]
    BY <1>0 DEF CompleteInbox
  <1>3. KnownKeys' = KnownKeys
    BY <1>2 DEF KnownKeys
  <1>4. \A l \in KnownKeys : l # k => inbox'[l] = inbox[l]
    BY <1>2 DEF KnownKeys
  <1>5. inbox'[k] = row
    BY <1>1, <1>2 DEF KnownKeys
  <1>6. /\ DOMAIN row = {"input", "ctx", "owner", "status", "result", "receipts",
                         "readable"}
        /\ row.input = inbox[k].input /\ row.ctx = inbox[k].ctx
        /\ row.owner = inbox[k].owner
        /\ row.status = "COMPLETED" /\ row.result = ResultOf(r)
        /\ row.receipts = receipts /\ row.readable = readable
    <2>1. DOMAIN inbox[k] = {"input", "ctx", "owner", "status", "result", "receipts",
                             "readable"}
      BY <1>1 DEF Inv, Stored, RowOK
    <2> QED
      BY <2>1
  <1> HIDE DEF row
  <1>7. Kept
    BY <1>1, <1>3, <1>4, <1>5, <1>6 DEF Kept, KnownKeys
  <1>8. /\ answers' = answers \cup {[key |-> k, result |-> ResultOf(r)]}
        /\ session' = [session EXCEPT ![c] = None]
    BY <1>0 DEF CompleteInbox
  <1>9. TypeOK'
    <2>1. \A l \in KnownKeys :
            /\ inbox'[l].input \in Inputs /\ Key(inbox'[l].input) = l
            /\ inbox'[l].ctx \in Contexts
            /\ inbox'[l].owner \in KnownKeys \cup {None}
            /\ inbox'[l].status \in {"RECEIVED", "COMPLETED"}
            /\ inbox'[l].result = None \/ ResultType(inbox'[l].result)
            /\ \A q \in inbox'[l].receipts : ReceiptType(q)
            /\ inbox'[l].readable \in BOOLEAN
      BY <1>1, <1>4, <1>5, <1>6 DEF Inv, TypeOK
    <2>2. session' \in [Clients -> KnownKeys \cup {None}]
      BY <1>8 DEF Inv, TypeOK
    <2>3. \A a \in answers' : a.key \in KnownKeys /\ ResultType(a.result)
      BY <1>1, <1>8 DEF Inv, TypeOK
    <2> QED
      BY <1>3, <2>1, <2>2, <2>3 DEF Inv, TypeOK
  <1>10. \A l : Done(l) => Done(l)' /\ inbox'[l] = inbox[l]
    BY <1>1, <1>3, <1>4 DEF Done
  <1>11. Done(k)'
    BY <1>1, <1>3, <1>5, <1>6 DEF Done
  <1>12. \A l \in KnownKeys : RowOK(inbox'[l])
    <2>1. RowOK(inbox'[k])
      BY <1>0, <1>5, <1>6 DEF RowOK
    <2> QED
      BY <1>4, <2>1 DEF Inv, Stored
  <1>13. \A l \in KnownKeys : /\ inbox'[l].owner = inbox[l].owner
                              /\ inbox'[l].input = inbox[l].input
    BY <1>4, <1>5, <1>6
  <1>14. \A l \in KnownKeys : OwnerOK(l)'
    BY <1>3, <1>13 DEF Inv, Stored, OwnerOK
  <1>15. Claims'
    BY <1>3, <1>13 DEF Inv, Stored, Claims, Claimed
  <1>16. /\ \A f \in outbox' : Done(f.source)'
         /\ \A u \in usages' : Done(<<"FIELD_EVENT", u[1]>>)'
    BY <1>0, <1>10, <1>11 DEF Inv, Stored
  <1>17. \A a \in answers' : Done(a.key)' /\ inbox'[a.key].result = a.result
    BY <1>5, <1>6, <1>8, <1>10, <1>11 DEF Inv, Stored
  <1> QED
    BY <1>3, <1>7, <1>9, <1>12, <1>14, <1>15, <1>16, <1>17 DEF Inv, Stored

(* A new row finds its server id free, or names the row that claims it. *)
LEMMA ClaimOwnerGood ==
    ASSUME Inv, NEW i \in Inputs
    PROVE  /\ ClaimOwner(i) \in KnownKeys \cup {None}
           /\ ClaimOwner(i) # None =>
                 /\ Presented(inbox[ClaimOwner(i)].input) = Presented(i)
                 /\ inbox[ClaimOwner(i)].owner = None
           /\ ClaimOwner(i) = None /\ Presented(i) # None =>
                 \A k \in KnownKeys : Claimed(inbox[k]) # Presented(i)
  <1> DEFINE claims(k) == Claimed(inbox[k]) = Presented(i)
  <1>1. None \notin KnownKeys
    BY KeyAssumption DEF KeyAssumption, Inv, TypeOK
  <1>2. CASE Presented(i) # None /\ \E k \in KnownKeys : claims(k)
    <2>1. ClaimOwner(i) = CHOOSE k \in KnownKeys : claims(k)
      BY <1>2 DEF ClaimOwner
    <2>2. ClaimOwner(i) \in KnownKeys /\ claims(ClaimOwner(i))
      BY <1>2, <2>1
    <2> QED
      BY <1>1, <1>2, <2>2 DEF Claimed
  <1>3. CASE ~(Presented(i) # None /\ \E k \in KnownKeys : claims(k))
    <2>1. ClaimOwner(i) = None
      BY <1>3 DEF ClaimOwner
    <2> QED
      BY <1>3, <2>1
  <1> QED
    BY <1>2, <1>3

(* accept_input of a new input. *)
LEMMA AcceptNewStep ==
    ASSUME Inv, NEW c \in Clients, NEW i \in Inputs, NEW x \in Contexts,
           AcceptNew(c, i, x)
    PROVE  Inv' /\ Kept
  <1>0. PICK n : n = Key(i)
    OBVIOUS
  <1>1. PICK owner : owner = ClaimOwner(i)
    OBVIOUS
  <1> DEFINE row == [input |-> i, ctx |-> x, owner |-> owner, status |-> "RECEIVED",
                     result |-> None, receipts |-> {}, readable |-> TRUE]
  <1>2. n \notin KnownKeys /\ n \in Keys
    BY <1>0 DEF AcceptNew, Keys
  <1>3. /\ inbox' = [k \in KnownKeys \cup {n} |-> IF k = n THEN row ELSE inbox[k]]
        /\ session' = [session EXCEPT ![c] = n]
        /\ UNCHANGED <<roots, usages, outbox, answers, crashes>>
    BY <1>0, <1>1 DEF AcceptNew
  <1>4. KnownKeys' = KnownKeys \cup {n}
    BY <1>3 DEF KnownKeys
  <1>5. /\ \A k \in KnownKeys : inbox'[k] = inbox[k]
        /\ inbox'[n] = row
    BY <1>2, <1>3
  <1>6. /\ owner \in KnownKeys \cup {None}
        /\ owner # None => /\ Presented(inbox[owner].input) = Presented(i)
                           /\ inbox[owner].owner = None
        /\ owner = None /\ Presented(i) # None =>
              \A k \in KnownKeys : Claimed(inbox[k]) # Presented(i)
    BY <1>1, ClaimOwnerGood
  <1>7. /\ row.input = i /\ row.ctx = x /\ row.owner = owner /\ row.status = "RECEIVED"
        /\ row.result = None /\ row.receipts = {} /\ row.readable = TRUE
        /\ RowOK(row)
    BY DEF RowOK
  <1> HIDE DEF row
  <1>8. Kept
    BY <1>4, <1>5 DEF Kept, KnownKeys
  <1>9. TypeOK'
    <2>1. session' \in [Clients -> KnownKeys' \cup {None}]
      BY <1>3, <1>4 DEF Inv, TypeOK
    <2> DEFINE typed(w, k) ==
                 /\ w.input \in Inputs /\ Key(w.input) = k
                 /\ w.ctx \in Contexts
                 /\ w.owner \in KnownKeys \cup {n} \cup {None}
                 /\ w.status \in {"RECEIVED", "COMPLETED"}
                 /\ w.result = None \/ ResultType(w.result)
                 /\ \A q \in w.receipts : ReceiptType(q)
                 /\ w.readable \in BOOLEAN
    <2>2. \A k \in KnownKeys' : typed(inbox'[k], k)
      <3>1. typed(row, n)
        BY <1>0, <1>6, <1>7
      <3>2. \A k \in KnownKeys : typed(inbox[k], k)
        BY DEF Inv, TypeOK
      <3> HIDE DEF typed
      <3> QED
        BY <1>4, <1>5, <3>1, <3>2
    <2>3. KnownKeys' \subseteq Keys
      BY <1>2, <1>4 DEF Inv, TypeOK
    <2> QED
      BY <1>3, <1>4, <2>1, <2>2, <2>3 DEF Inv, TypeOK
  <1>10. \A k : Done(k) => Done(k)' /\ inbox'[k] = inbox[k]
    BY <1>4, <1>5 DEF Done
  <1>11. \A k \in KnownKeys' : RowOK(inbox'[k])
    BY <1>4, <1>5, <1>7 DEF Inv, Stored
  <1>12. \A k \in KnownKeys' : OwnerOK(k)'
    <2>1. OwnerOK(n)'
      BY <1>4, <1>5, <1>6, <1>7 DEF OwnerOK
    <2>2. \A k \in KnownKeys : OwnerOK(k)'
      BY <1>4, <1>5 DEF OwnerOK, Inv, Stored
    <2> QED
      BY <1>4, <2>1, <2>2
  <1>13. Claims'
    <2>1. Claimed(row) # None => \A k \in KnownKeys : Claimed(inbox[k]) # Claimed(row)
      BY <1>6, <1>7 DEF Claimed
    <2> QED
      BY <1>4, <1>5, <2>1 DEF Inv, Stored, Claims
  <1> QED
    BY <1>3, <1>8, <1>9, <1>10, <1>11, <1>12, <1>13 DEF Inv, Stored

(* Steps that leave the inbox, the effects and the usages alone, and give  *)
(* out stored results only.                                                *)
LEMMA QuietStep ==
    ASSUME Inv, (roots \in Scopes({}))', inbox' = inbox, outbox' = outbox,
           usages' = usages, (session \in [Clients -> KnownKeys \cup {None}])',
           (crashes \in 0..MaxCrashes)',
           \A a \in answers' : \/ a \in answers
                               \/ /\ Done(a.key) /\ a.result = inbox[a.key].result
                                  /\ ResultType(a.result)
    PROVE  Inv' /\ Kept
  <1>1. KnownKeys' = KnownKeys
    BY DEF KnownKeys
  <1>2. \A k : Done(k)' <=> Done(k)
    BY <1>1 DEF Done
  <1>3. Kept
    BY DEF Kept, KnownKeys
  <1>4. \A a \in answers' : a.key \in KnownKeys /\ ResultType(a.result)
    BY DEF Done, Inv, TypeOK
  <1>5. TypeOK'
    BY <1>1, <1>4 DEF Inv, TypeOK
  <1>6. \A a \in answers' : Done(a.key)' /\ inbox'[a.key].result = a.result
    BY <1>2 DEF Inv, Stored
  <1>7. (\A k \in KnownKeys : OwnerOK(k))' /\ Claims'
    BY <1>1 DEF Inv, Stored, OwnerOK, Claims
  <1> QED
    BY <1>1, <1>2, <1>3, <1>5, <1>6, <1>7 DEF Inv, Stored

(* process_input of an input whose server id belongs to another. *)
LEMMA ProcessCollisionStep ==
    ASSUME Inv, NEW c \in Clients, ProcessCollision(c)
    PROVE  Inv' /\ Kept
  <1> DEFINE r == Reduction(Refuse(roots, "SERVER_EVENT_ID_CONFLICT"), {}, FALSE)
  <1>1. /\ Pending(c) /\ inbox[session[c]].owner # None
        /\ CompleteInbox(c, r, {}, TRUE)
        /\ UNCHANGED <<roots, usages, outbox, crashes>>
    BY DEF ProcessCollision
  <1>2. ResultType(ResultOf(r))
    <2>1. r.outcome = "REJECTED" /\ r.response = <<>> /\ r.missing = {}
      BY DEF Reduction, Refuse, Result
    <2> HIDE DEF r
    <2> QED
      BY <2>1 DEF ResultType, ResultOf, ReductionOutcome
  <1> HIDE DEF r
  <1>3. (roots \in Scopes({}))'
    BY <1>1 DEF Inv, TypeOK
  <1>4. PICK receipts, readable : receipts = {} /\ readable = TRUE
    OBVIOUS
  <1>5. readable \in BOOLEAN /\ \A q \in receipts : ReceiptType(q)
    BY <1>4
  <1>6. IF IsEvent(inbox[session[c]].input) /\ inbox[session[c]].owner = None
        THEN \E q : receipts = {q} /\ Records(q, inbox[session[c]].input, ResultOf(r))
        ELSE receipts = {}
    BY <1>1, <1>4
  <1>7. /\ \A f \in outbox' : f \in outbox \/ f.source = session[c]
        /\ \A u \in usages' : u \in usages \/ <<"FIELD_EVENT", u[1]>> = session[c]
        /\ crashes' = crashes
    BY <1>1
  <1>8. Pending(c) /\ CompleteInbox(c, r, receipts, readable)
    BY <1>1, <1>4
  <1> QED
    BY <1>2, <1>3, <1>5, <1>6, <1>7, <1>8, CompleteStep

(* process_input of a pending input that owns its server id. *)
LEMMA ProcessReductionStep ==
    ASSUME Inv, NEW c \in Clients, ProcessReduction(c)
    PROVE  Inv' /\ Kept
  <1> DEFINE k == session[c]
             i == inbox[k].input
             s == Hydrate(i)
             r == DurableReduction(inbox[k])
             readable == ProofReadable(i, s)
  <1>1. Pending(c) /\ inbox[k].owner = None
    BY DEF ProcessReduction
  <1>2. k \in KnownKeys /\ inbox[k].status = "RECEIVED"
    BY <1>1 DEF Pending, Inv, TypeOK
  <1>3. /\ r.scope \in Scopes(HydratedReceipts(i) \cup r.receipts)
        /\ ResultType(ResultOf(r))
        /\ \A q \in r.receipts : ReceiptType(q)
        /\ IF IsEvent(i) THEN \E q : r.receipts = {q} /\ Records(q, i, ResultOf(r))
           ELSE r.receipts = {}
    BY <1>1, <1>2, DurableReductionGood
  <1>4. /\ roots' = [r.scope EXCEPT !.jobs = roots.jobs, !.days = roots.days,
                                    !.dirs = roots.dirs, !.receipts = {}]
        /\ PersistEvidence(s, r.receipts)
        /\ outbox' = outbox \cup Emissions(Key(i), r.emitted)
        /\ CompleteInbox(c, r, r.receipts, readable)
        /\ crashes' = crashes
    BY DEF ProcessReduction, CommitReduction
  <1>5. readable \in BOOLEAN
    BY DEF ProofReadable
  <1>6. i \in Inputs /\ Key(i) = k
    BY <1>2 DEF Inv, TypeOK
  <1> HIDE DEF r, s, readable
  <1>7. roots' \in Scopes({})
    <2>1. /\ roots.jobs \subseteq Jobs /\ roots.days \subseteq PlanDays
          /\ roots.dirs \subseteq Directives
      BY ScopeParts DEF Inv, TypeOK
    <2> QED
      BY <1>3, <1>4, <2>1 DEF Scopes
  <1>8. \A f \in outbox' : f \in outbox \/ f.source = k
    BY <1>4, <1>6 DEF Emissions
  <1>9. \A u \in usages' : u \in usages \/ <<"FIELD_EVENT", u[1]>> = k
    <2> SUFFICES ASSUME NEW u \in usages', u \notin usages
                 PROVE  <<"FIELD_EVENT", u[1]>> = k
      OBVIOUS
    <2>1. \E q \in r.receipts : \E v : u = <<q.event.id, v>>
      BY <1>4 DEF PersistEvidence
    <2>2. IsEvent(i) /\ u[1] = i.event.id
      BY <1>3, <2>1 DEF Records
    <2> QED
      BY <1>6, <2>2, EventKeys
  <1>10. (roots \in Scopes({}))'
    BY <1>7
  <1> QED
    BY <1>1, <1>3, <1>4, <1>5, <1>8, <1>9, <1>10, CompleteStep

(* Answering from a row gives out its stored result. *)
LEMMA AnswerGood ==
    ASSUME Inv, NEW k, Done(k), Answer(k)
    PROVE  \A a \in answers' : \/ a \in answers
                               \/ /\ Done(a.key) /\ a.result = inbox[a.key].result
                                  /\ ResultType(a.result)
  <1>1. ResultType(inbox[k].result)
    BY DEF Done, Inv, Stored, RowOK
  <1> QED
    BY <1>1 DEF Answer

(* Every operation keeps the invariant and what was accepted. *)
LEMMA NextStep ==
    ASSUME Inv, Next
    PROVE  Inv' /\ Kept
  <1>0. /\ roots \in Scopes({}) /\ session \in [Clients -> KnownKeys \cup {None}]
        /\ crashes \in 0..MaxCrashes
    BY DEF Inv, TypeOK
  <1>1. CASE \/ \E d \in PlanDays : CreatePlanDayRoot(d)
             \/ \E j \in Jobs : CreateJobExecutionRoot(j)
             \/ \E x \in Directives : CreateDirectiveRoot(x)
    <2>1. UNCHANGED <<inbox, usages, outbox, session, answers, crashes>>
      BY <1>1 DEF CreatePlanDayRoot, CreateJobExecutionRoot, CreateDirectiveRoot
    <2>2. (roots \in Scopes({}))'
      <3>1. CASE \E d \in PlanDays : CreatePlanDayRoot(d)
        BY <1>0, <3>1 DEF CreatePlanDayRoot, Scopes
      <3>2. CASE \E j \in Jobs : CreateJobExecutionRoot(j)
        BY <1>0, <3>2 DEF CreateJobExecutionRoot, Scopes
      <3>3. CASE \E x \in Directives : CreateDirectiveRoot(x)
        BY <1>0, <3>3 DEF CreateDirectiveRoot, Scopes
      <3> QED
        BY <1>1, <3>1, <3>2, <3>3
    <2>3. (session \in [Clients -> KnownKeys \cup {None}])' /\ (crashes \in 0..MaxCrashes)'
      BY <1>0, <2>1 DEF KnownKeys
    <2> QED
      BY <2>1, <2>2, <2>3, QuietStep
  <1>2. CASE \E c \in Clients, i \in Inputs, x \in Contexts : AcceptNew(c, i, x)
    BY <1>2, AcceptNewStep
  <1>3. CASE \E c \in Clients, i \in Inputs : AcceptPending(c, i) \/ AcceptConflict(c, i)
    <2>1. UNCHANGED <<roots, inbox, usages, outbox, answers, crashes>>
      BY <1>3 DEF AcceptPending, AcceptConflict, stored
    <2>2. (session \in [Clients -> KnownKeys \cup {None}])'
      BY <1>0, <1>3, <2>1 DEF AcceptPending, AcceptConflict, KnownKeys
    <2>3. (crashes \in 0..MaxCrashes)' /\ (roots \in Scopes({}))'
      BY <1>0, <2>1
    <2> QED
      BY <2>1, <2>2, <2>3, QuietStep
  <1>4. CASE \E c \in Clients, i \in Inputs : AcceptCompleted(c, i)
    <2>1. PICK c \in Clients, i \in Inputs : AcceptCompleted(c, i)
      BY <1>4
    <2>2. Done(Key(i)) /\ Answer(Key(i))
      BY <2>1 DEF AcceptCompleted, Done
    <2>3. UNCHANGED <<roots, inbox, usages, outbox, session, crashes>>
      BY <2>1 DEF AcceptCompleted, stored
    <2>4. /\ (session \in [Clients -> KnownKeys \cup {None}])'
          /\ (crashes \in 0..MaxCrashes)' /\ (roots \in Scopes({}))'
      BY <1>0, <2>3 DEF KnownKeys
    <2> QED
      BY <2>2, <2>3, <2>4, AnswerGood, QuietStep
  <1>5. CASE \E c \in Clients : ProcessCompleted(c)
    <2>1. PICK c \in Clients : ProcessCompleted(c)
      BY <1>5
    <2>2. Done(session[c]) /\ Answer(session[c])
      BY <1>0, <2>1 DEF ProcessCompleted, Done
    <2>3. UNCHANGED <<roots, inbox, usages, outbox, crashes>>
      BY <2>1 DEF ProcessCompleted, stored
    <2>4. /\ (session \in [Clients -> KnownKeys \cup {None}])'
          /\ (crashes \in 0..MaxCrashes)' /\ (roots \in Scopes({}))'
      BY <1>0, <2>1, <2>3 DEF ProcessCompleted, KnownKeys
    <2> QED
      BY <2>2, <2>3, <2>4, AnswerGood, QuietStep
  <1>6. CASE \E c \in Clients : ProcessCollision(c) \/ ProcessReduction(c)
    BY <1>6, ProcessCollisionStep, ProcessReductionStep
  <1>7. CASE \E c \in Clients : ProcessRolledBack(c) \/ Crash(c)
    <2>1. UNCHANGED <<roots, inbox, usages, outbox, answers>>
      BY <1>7 DEF ProcessRolledBack, Crash, stored
    <2>2. (session \in [Clients -> KnownKeys \cup {None}])'
      BY <1>0, <1>7, <2>1 DEF ProcessRolledBack, Crash, KnownKeys
    <2>3. (crashes \in 0..MaxCrashes)' /\ (roots \in Scopes({}))'
      BY <1>0, <1>7, <2>1, CrashAssumption
         DEF ProcessRolledBack, Crash, CrashAssumption
    <2> QED
      BY <2>1, <2>2, <2>3, QuietStep
  <1> QED
    BY <1>1, <1>2, <1>3, <1>4, <1>5, <1>6, <1>7 DEF Next, ProcessInput

(* The invariant holds before any root or input exists. *)
LEMMA InitInv == Init => Inv
  <1> SUFFICES ASSUME Init PROVE Inv
    OBVIOUS
  <1>1. KnownKeys = {}
    BY DEF Init, KnownKeys
  <1>2. roots \in Scopes({})
    BY EmptyScopeGood DEF Init
  <1>3. TypeOK
    BY <1>1, <1>2, CrashAssumption DEF Init, TypeOK, CrashAssumption
  <1>4. Stored
    BY <1>1 DEF Init, Stored, Claims
  <1> QED
    BY <1>3, <1>4 DEF Inv

(* The invariant is inductive. *)
LEMMA NextInv == Inv /\ [Next]_vars => Inv' /\ Kept
  <1> SUFFICES ASSUME Inv, [Next]_vars PROVE Inv' /\ Kept
    OBVIOUS
  <1>1. CASE Next
    BY <1>1, NextStep
  <1>2. CASE UNCHANGED vars
    <2>1. UNCHANGED <<roots, inbox, usages, outbox, session, answers, crashes>>
      BY <1>2 DEF vars, stored
    <2>2. /\ (session \in [Clients -> KnownKeys \cup {None}])'
          /\ (crashes \in 0..MaxCrashes)' /\ (roots \in Scopes({}))'
      BY <2>1 DEF Inv, TypeOK, KnownKeys
    <2> QED
      BY <2>1, <2>2, QuietStep
  <1> QED
    BY <1>1, <1>2

(* The invariant holds in every reachable state. *)
LEMMA InvAlways == Spec => []Inv
  BY InitInv, NextInv, PTL DEF Spec

-----------------------------------------------------------------------------
(* Every row, session, answer and root of the durable repository keeps its *)
(* type, whatever clients submit, repeat or abandon.                       *)
THEOREM DurableTypeCorrect == Spec => []TypeOK
  <1>1. Inv => TypeOK
    BY DEF Inv
  <1> QED
    BY <1>1, InvAlways, PTL

(* S7: all requests for an input are answered with one result.  process_   *)
(* input looks at the row's status inside its own transaction, so a request *)
(* that accepted the input before another one completed it reads the       *)
(* stored result instead of reducing again.                                *)
THEOREM OneAnswer == Spec => []OneAnswerPerInput
  <1>1. Inv => OneAnswerPerInput
    BY DEF Inv, Stored, OneAnswerPerInput
  <1> QED
    BY <1>1, InvAlways, PTL

(* Receipt, result, effects and evidence usages of an input appear in one  *)
(* transaction: a crash or an error between acceptance and completion      *)
(* leaves none of them.                                                    *)
THEOREM CompletionAtomic == Spec => []CompletionIsAtomic
  <1>1. Inv => CompletionIsAtomic
    <2> SUFFICES ASSUME Inv, NEW k \in KnownKeys
                 PROVE  LET row == inbox[k] IN
                        /\ row.status = "RECEIVED" =>
                              /\ row.receipts = {} /\ row.result = None
                              /\ \A f \in outbox : f.source # k
                              /\ \A u \in usages : <<"FIELD_EVENT", u[1]>> # k
                        /\ row.status = "COMPLETED" =>
                              IF IsEvent(row.input) /\ row.owner = None
                              THEN /\ row.receipts # {}
                                   /\ \A r \in row.receipts :
                                         /\ r.event = row.input.event
                                         /\ r.sid = row.input.sid
                                         /\ ResultOf(r) = row.result
                              ELSE row.receipts = {}
      BY DEF CompletionIsAtomic
    <2>1. RowOK(inbox[k])
      BY DEF Inv, Stored
    <2>2. inbox[k].status = "RECEIVED" => ~Done(k)
      BY DEF Done
    <2>3. inbox[k].status = "RECEIVED" =>
             /\ \A f \in outbox : f.source # k
             /\ \A u \in usages : <<"FIELD_EVENT", u[1]>> # k
      BY <2>2 DEF Inv, Stored
    <2> QED
      BY <2>1, <2>3 DEF RowOK, Records
  <1> QED
    BY <1>1, InvAlways, PTL

(* The ledger holds a server event id once, and the loser of a claim names *)
(* the row that won it: accept_input checks and claims in one transaction. *)
THEOREM ServerIdsOwnedOnce == Spec => []ServerIdOwnedOnce
  <1>1. Inv => ServerIdOwnedOnce
    <2> SUFFICES ASSUME Inv PROVE ServerIdOwnedOnce
      OBVIOUS
    <2>1. ASSUME NEW q \in Ledger, NEW r \in Ledger, q.sid = r.sid
          PROVE  q = r
      <3>1. PICK k \in KnownKeys :
                /\ inbox[k].status = "COMPLETED" /\ inbox[k].owner = None
                /\ IsEvent(inbox[k].input) /\ inbox[k].receipts = {q}
                /\ q.event = inbox[k].input.event /\ q.sid = inbox[k].input.sid
        BY LedgerRows
      <3>2. PICK l \in KnownKeys :
                /\ inbox[l].status = "COMPLETED" /\ inbox[l].owner = None
                /\ IsEvent(inbox[l].input) /\ inbox[l].receipts = {r}
                /\ r.event = inbox[l].input.event /\ r.sid = inbox[l].input.sid
        BY LedgerRows
      <3>3. inbox[k].input \in Inputs
        BY DEF Inv, TypeOK
      <3>4. inbox[k].input.sid # None
        BY <3>1, <3>3, EventKeys
      <3>5. k = l
        BY <2>1, <3>1, <3>2, <3>4 DEF Inv, Stored, Claims, Claimed, Presented
      <3> QED
        BY <3>1, <3>2, <3>5
    <2>2. \A k \in KnownKeys : OwnerOK(k)
      BY DEF Inv, Stored
    <2> QED
      BY <2>1, <2>2 DEF ServerIdOwnedOnce, OwnerOK
  <1> QED
    BY <1>1, InvAlways, PTL

(* What the inbox triggers protect is never even attempted: no operation   *)
(* alters the input, context or owner of a stored row, or a completed row. *)
THEOREM FirstAcceptanceAlwaysStands == Spec => FirstAcceptanceStands
  <1>1. Inv /\ [Next]_vars =>
          [\A k \in KnownKeys :
              /\ k \in DOMAIN inbox'
              /\ inbox'[k].input = inbox[k].input /\ inbox'[k].ctx = inbox[k].ctx
              /\ inbox'[k].owner = inbox[k].owner
              /\ inbox[k].status = "COMPLETED" => inbox'[k] = inbox[k]]_vars
    BY NextInv DEF Kept
  <1> QED
    BY <1>1, InvAlways, PTL DEF Spec, FirstAcceptanceStands

-----------------------------------------------------------------------------
(* Evidence: what a task counts is what the evidence tables registered.    *)

(* The roots are guarded, as in M2ReducerProofs, and count nothing else. *)
Registered == Guarded(roots) /\ StagesFree(roots) /\ EvidenceRegistered

LEMMA InitRegistered == Init => Registered
  <1> SUFFICES ASSUME Init PROVE Registered
    OBVIOUS
  <1>1. roots = EmptyScope
    BY DEF Init
  <1>2. /\ \A t \in Tasks : roots.task[t].evidence = {}
        /\ \A g \in Stages : roots.stage[g].status = "OPEN"
    BY <1>1 DEF EmptyScope, InitialTask
  <1> QED
    BY <1>1, <1>2, EmptyScopeGood DEF Registered, StagesFree, EvidenceRegistered

(* Hydration loads the tasks, stages and directives as they are stored. *)
LEMMA HydratedRoots ==
    ASSUME TypeOK, NEW i
    PROVE  /\ Hydrate(i).task = roots.task /\ Hydrate(i).stage = roots.stage
           /\ Hydrate(i).dir = roots.dir
  BY DEF TypeOK, Hydrate, Scopes

LEMMA GuardedRoots ==
    ASSUME NEW s, NEW n, Guarded(s), n.task = s.task, n.dir = s.dir
    PROVE  Guarded(n)
  BY DEF Guarded, StopHeld

(* What process_input does to the work of a pending row. *)
LEMMA DurableMove ==
    ASSUME Inv, Registered, NEW k \in KnownKeys, inbox[k].status = "RECEIVED",
           inbox[k].owner = None
    PROVE  LET i == inbox[k].input
               s == Hydrate(i)
               r == DurableReduction(inbox[k])
           IN  /\ Guarded(r.scope)
               /\ IF IsEvent(i) THEN Handled(s, i, r) \/ Quiet(s, i, r)
                  ELSE r.scope.task = s.task /\ r.scope.stage = s.stage
  <1> DEFINE i == inbox[k].input
             s == Hydrate(i)
             R == HydratedReceipts(i)
             d == Reduce(s, i, inbox[k].ctx)
             r == NormalizeReduction(i, d)
  <1>1. i \in Inputs
    BY DEF Inv, TypeOK
  <1>2. s \in Scopes(R) /\ \A q \in R : ReceiptType(q)
    BY <1>1, HydrateGood DEF Inv
  <1>3. Guarded(s) /\ StagesFree(s)
    BY HydratedRoots, GuardedRoots DEF Inv, Registered, StagesFree
  <1>4. GoodReduction(R, s, d)
    BY <1>1, <1>2, ReduceGood DEF Inputs
  <1>5. r = DurableReduction(inbox[k])
    BY DEF DurableReduction
  <1>6. CASE IsEvent(i)
    <2>1. i \in FieldInputs
      BY <1>1, <1>6, EventKeys
    <2>2. GoodReduction(R, s, r)
      BY <1>2, <1>4, <2>1, NormalizeGood
    <2>3. Handled(s, i, d) \/ Quiet(s, i, d)
      BY <1>2, <1>3, <2>1, ReduceMove
    <2>4. d.scope \in Scopes(R \cup d.receipts)
      BY <1>4 DEF GoodReduction
    <2> HIDE DEF d, s
    <2>5. Handled(s, i, r) \/ Quiet(s, i, r)
      BY <2>3, <2>4, NormalizeMove
    <2>6. Guarded(r.scope)
      BY <1>3, <2>2 DEF GoodReduction, HoldStep
    <2> QED
      BY <1>5, <1>6, <2>5, <2>6 DEF s
  <1>7. CASE ~IsEvent(i)
    <2>1. i \in Signals
      BY <1>1, <1>7, InputAssumption DEF InputAssumption, Inputs, IsEvent
    <2>2. r = d
      BY <2>1, SignalReceipt
    <2>3. SignalMove(s, i, [scope |-> d.scope, effects |-> d.emitted])
      BY <1>2, <2>1, ReduceSignalMove
    <2> HIDE DEF d, s, r
    <2>4. d.scope.task = s.task /\ d.scope.stage = s.stage
      BY <2>3 DEF SignalMove
    <2>5. Guarded(d.scope)
      BY <1>3, <1>4 DEF GoodReduction, HoldStep
    <2> QED
      BY <1>5, <1>7, <2>2, <2>4, <2>5 DEF s
  <1> QED
    BY <1>6, <1>7

(* Storage that was not refused registers every attachment for its task. *)
LEMMA AttachmentsRegistered ==
    ASSUME NEW s, NEW e, NEW q, q.event = e, e.task \in Tasks,
           PersistEvidence(s, {q}), EvidenceScopeCanonical(s, e),
           \A v \in e.attachments : ~EvidenceTaken(v, e), NEW v \in e.attachments
    PROVE  \E o \in identities' : /\ o.item = v /\ o.task = e.task
                                  /\ o.job = TaskDef[e.task].job
  <1>1. e.job = TaskDef[e.task].job
    BY DefinitionAssumption DEF EvidenceScopeCanonical, DefinitionAssumption
  <1>2. identities \subseteq identities'
    BY DEF PersistEvidence
  <1>3. CASE \A o \in identities : o.item.id # v.id
    <2> DEFINE o == [item |-> v, job |-> e.job, task |-> e.task,
                     asg |-> e.asg, stage |-> e.stage]
    <2>1. o \in identities'
      BY <1>3 DEF PersistEvidence
    <2>2. o.item = v /\ o.job = e.job /\ o.task = e.task
      OBVIOUS
    <2> HIDE DEF o
    <2> QED
      BY <1>1, <2>1, <2>2
  <1>4. CASE \E o \in identities : o.item.id = v.id
    <2>1. PICK o \in identities : o.item.id = v.id
      BY <1>4
    <2>2. o.item = v /\ o.job = e.job /\ o.task = e.task
      BY <2>1 DEF EvidenceTaken
    <2> QED
      BY <1>1, <1>2, <2>1, <2>2
  <1> QED
    BY <1>3, <1>4

LEMMA ProcessRegisters ==
    ASSUME Inv, Registered, NEW c \in Clients, ProcessReduction(c)
    PROVE  Registered'
  <1> DEFINE k == session[c]
             i == inbox[k].input
             s == Hydrate(i)
             r == DurableReduction(inbox[k])
  <1>1. Pending(c) /\ inbox[k].owner = None
    BY DEF ProcessReduction
  <1>2. k \in KnownKeys /\ inbox[k].status = "RECEIVED"
    BY <1>1 DEF Pending, Inv, TypeOK
  <1>3. r.scope \in Scopes(HydratedReceipts(i) \cup r.receipts)
    BY <1>1, <1>2, DurableReductionGood
  <1>4. /\ roots' = [r.scope EXCEPT !.jobs = roots.jobs, !.days = roots.days,
                                    !.dirs = roots.dirs, !.receipts = {}]
        /\ PersistEvidence(s, r.receipts) /\ ~StorageError(i, s, r)
    BY DEF ProcessReduction, CommitReduction
  <1>5. /\ Guarded(r.scope)
        /\ IF IsEvent(i) THEN Handled(s, i, r) \/ Quiet(s, i, r)
           ELSE r.scope.task = s.task /\ r.scope.stage = s.stage
    BY <1>1, <1>2, DurableMove
  <1>6. s.task = roots.task /\ s.stage = roots.stage
    BY HydratedRoots DEF Inv
  <1>7. i \in Inputs
    BY <1>2 DEF Inv, TypeOK
  <1> HIDE DEF i, k, r, s
  <1>8. roots'.task = r.scope.task /\ roots'.stage = r.scope.stage /\ roots'.dir = r.scope.dir
    BY <1>3, <1>4 DEF Scopes
  <1>9. Guarded(roots')
    BY <1>5, <1>8, GuardedRoots
  <1>10. StagesFree(roots')
    <2>1. CASE IsEvent(i) /\ Handled(s, i, r)
      BY <1>6, <1>8, <2>1 DEF Handled, EventMove, StagesMove, Registered, StagesFree
    <2>2. CASE IsEvent(i) /\ Quiet(s, i, r)
      BY <1>6, <1>8, <2>2 DEF Quiet, SameButRevs, Registered, StagesFree
    <2>3. CASE ~IsEvent(i)
      BY <1>5, <1>6, <1>8, <2>3 DEF Registered, StagesFree
    <2> QED
      BY <1>5, <2>1, <2>2, <2>3
  <1>11. identities \subseteq identities'
    BY <1>4 DEF PersistEvidence
  <1>12. EvidenceRegistered'
    <2>1. CASE roots'.task = roots.task
      BY <1>11, <2>1 DEF Registered, EvidenceRegistered
    <2>2. CASE IsEvent(i) /\ Handled(s, i, r)
      <3> SUFFICES ASSUME NEW t \in Tasks, NEW v \in roots'.task[t].evidence
                   PROVE  \E o \in identities' : /\ o.item = v /\ o.task = t
                                                 /\ o.job = TaskDef[t].job
        BY DEF EvidenceRegistered
      <3>1. CASE v \in roots.task[t].evidence
        BY <1>11, <3>1 DEF Registered, EvidenceRegistered
      <3>2. CASE v \notin roots.task[t].evidence
        <4>1. /\ t = i.event.task /\ r.outcome # "REJECTED"
              /\ v \in MergeEvidence(roots.task[t].evidence, i.event.attachments)
          BY <1>6, <1>8, <2>2, <3>2 DEF Handled, EventMove, TasksMove
        <4>2. v \in i.event.attachments
          BY <3>2, <4>1 DEF MergeEvidence
        <4>3. PICK q : r.receipts = {q} /\ q.event = i.event
          BY <2>2 DEF Handled
        <4>4. /\ EvidenceScopeCanonical(s, i.event)
              /\ \A w \in i.event.attachments : ~EvidenceTaken(w, i.event)
          BY <1>4, <4>1, <4>3 DEF StorageError
        <4> QED
          BY <1>4, <4>1, <4>2, <4>3, <4>4, AttachmentsRegistered
      <3> QED
        BY <3>1, <3>2
    <2>3. CASE IsEvent(i) /\ Quiet(s, i, r)
      BY <1>6, <1>8, <2>1, <2>3 DEF Quiet, SameButRevs
    <2>4. CASE ~IsEvent(i)
      BY <1>5, <1>6, <1>8, <2>1, <2>4
    <2> QED
      BY <1>5, <2>2, <2>3, <2>4
  <1> QED
    BY <1>9, <1>10, <1>12 DEF Registered

LEMMA NextRegistered == Inv /\ Registered /\ [Next]_vars => Registered'
  <1> SUFFICES ASSUME Inv, Registered, [Next]_vars PROVE Registered'
    OBVIOUS
  <1>1. ASSUME roots'.task = roots.task, roots'.stage = roots.stage,
               roots'.dir = roots.dir, identities' = identities
        PROVE  Registered'
    <2>1. Guarded(roots')
      BY <1>1, GuardedRoots DEF Registered
    <2> QED
      BY <1>1, <2>1 DEF Registered, StagesFree, EvidenceRegistered
  <1>2. roots \in Scopes({})
    BY DEF Inv, TypeOK
  <1>3. CASE \E d \in PlanDays : CreatePlanDayRoot(d)
    BY <1>1, <1>2, <1>3 DEF CreatePlanDayRoot, Scopes
  <1>4. CASE \E j \in Jobs : CreateJobExecutionRoot(j)
    BY <1>1, <1>2, <1>4 DEF CreateJobExecutionRoot, Scopes
  <1>5. CASE \E x \in Directives : CreateDirectiveRoot(x)
    BY <1>1, <1>2, <1>5 DEF CreateDirectiveRoot, Scopes
  <1>6. CASE \E c \in Clients : ProcessReduction(c)
    BY <1>6, ProcessRegisters
  <1>7. CASE UNCHANGED <<roots, identities>>
    BY <1>1, <1>7
  <1>8. \/ \E d \in PlanDays : CreatePlanDayRoot(d)
        \/ \E j \in Jobs : CreateJobExecutionRoot(j)
        \/ \E x \in Directives : CreateDirectiveRoot(x)
        \/ \E c \in Clients : ProcessReduction(c)
        \/ UNCHANGED <<roots, identities>>
    BY DEF Next, ProcessInput, AcceptNew, AcceptPending, AcceptConflict, AcceptCompleted,
           ProcessCompleted, ProcessCollision, ProcessRolledBack, Crash, vars, stored
  <1> QED
    BY <1>3, <1>4, <1>5, <1>6, <1>7, <1>8

(* Evidence that counts for a task is registered for that task: what the   *)
(* reducer merges into a root and what _persist_evidence stores agree,     *)
(* though each looks at its own tables.                                    *)
THEOREM EvidenceAlwaysRegistered == Spec => []EvidenceRegistered
  <1>1. Registered => EvidenceRegistered
    BY DEF Registered
  <1>2. Inv /\ [Next]_vars => Inv'
    BY NextInv
  <1> QED
    BY <1>1, <1>2, InitInv, InitRegistered, NextRegistered, PTL DEF Spec

-----------------------------------------------------------------------------
(* What hydration leaves out of the roots and of the ledger makes no        *)
(* difference to how directives and references are judged.                 *)

(* A scope with everything put back that hydration has left out. *)
Grown(n) == [n EXCEPT !.jobs = roots.jobs, !.days = roots.days, !.dirs = roots.dirs,
                      !.receipts = Ledger]

(* What a hydrated scope has and what it lacks. *)
LEMMA HydrationParts ==
    ASSUME TypeOK, NEW i \in Inputs
    PROVE  LET h == Hydrate(i) IN
           /\ h \in Scopes(HydratedReceipts(i))
           /\ Whole \in Scopes(Ledger) /\ Whole = Grown(h)
           /\ h.jobs = HydratedJobs(i) /\ h.receipts = HydratedReceipts(i)
           /\ h.dirs = DirectiveRefs(i)
           /\ h.days
                  = ({Payload(i).day} \cup {DirDef[x].day : x \in DirectiveRefs(i)}) \cap roots.days
           /\ h.task = roots.task /\ h.stage = roots.stage /\ h.day = roots.day
           /\ h.dir = roots.dir /\ h.released = roots.released
           /\ Whole.jobs = roots.jobs /\ Whole.days = roots.days /\ Whole.dirs = roots.dirs
           /\ Whole.receipts = Ledger
           /\ Whole.task = roots.task /\ Whole.stage = roots.stage /\ Whole.day = roots.day
           /\ Whole.dir = roots.dir /\ Whole.released = roots.released
  <1>1. roots \in Scopes({})
    BY DEF TypeOK
  <1>2. Hydrate(i) \in Scopes(HydratedReceipts(i))
    BY HydrateGood
  <1> DEFINE days == ({Payload(i).day} \cup {DirDef[x].day : x \in DirectiveRefs(i)}) \cap roots.days
  <1>3. Hydrate(i) = [roots EXCEPT !.jobs = HydratedJobs(i), !.days = days,
                                   !.dirs = DirectiveRefs(i), !.receipts = HydratedReceipts(i)]
    BY DEF Hydrate
  <1> HIDE DEF days
  <1>4. DOMAIN roots
            = {"jobs", "days", "dirs", "task", "stage", "released", "jobRev", "day", "dir", "receipts"}
    BY <1>1 DEF Scopes
  <1>5. Whole \in Scopes(Ledger)
    BY <1>1 DEF Whole, Scopes
  <1>6. Whole = Grown(Hydrate(i))
    BY <1>1, <1>3, <1>4 DEF Whole, Grown, Scopes
  <1> QED
    BY <1>2, <1>3, <1>4, <1>5, <1>6 DEF Whole, days

(* The directives whose streams, targets and STOPs an input is judged by. *)
LEMMA RefsRead ==
    ASSUME TypeOK, NEW i \in Inputs, NEW x \in DirectiveRefs(i)
    PROVE  LET h == Hydrate(i)
               d == DirDef[x] IN
           /\ x \in roots.dirs /\ x \in Directives
           /\ d.job \in h.jobs <=> d.job \in Whole.jobs
           /\ HasTask(h, d.task) <=> HasTask(Whole, d.task)
           /\ HasAssignment(h, d.asg) <=> HasAssignment(Whole, d.asg)
           /\ HasDay(h, d.day) <=> HasDay(Whole, d.day)
  <1> DEFINE d == DirDef[x]
             dirs == DirectiveRefs(i)
             tasks == (TaskRefs(i) \cup {DirDef[y].task : y \in dirs}) \ {None}
             asgs == (AssignmentRefs(i) \cup {DirDef[y].asg : y \in dirs}) \ {None}
  <1>1. x \in roots.dirs /\ x \in Directives
    <2>1. dirs \subseteq roots.dirs
      BY DEF DirectiveRefs, StopsFor
    <2>2. roots.dirs \subseteq Directives
      BY ScopeParts DEF TypeOK
    <2> QED
      BY <2>1, <2>2
  <1>2. /\ {DirDef[y].job : y \in dirs} \cap roots.jobs \subseteq HydratedJobs(i)
        /\ {TaskDef[t].job : t \in tasks} \cap roots.jobs \subseteq HydratedJobs(i)
        /\ {AsgDef[a].job : a \in asgs} \cap roots.jobs \subseteq HydratedJobs(i)
        /\ HydratedJobs(i) \subseteq roots.jobs
    BY DEF HydratedJobs
  <1>3. None \notin Tasks /\ None \notin Assignments
    BY DefinitionAssumption DEF DefinitionAssumption
  <1>4. d.task \in Tasks => d.task \in tasks
    BY <1>3
  <1>5. d.asg \in Assignments => d.asg \in asgs
    BY <1>3
  <1>6. d.job \in {DirDef[y].job : y \in dirs} /\ d.day \in {DirDef[y].day : y \in dirs}
    OBVIOUS
  <1> HIDE DEF tasks, asgs, dirs
  <1> QED
    BY <1>1, <1>2, <1>4, <1>5, <1>6, HydrationParts DEF HasTask, HasAssignment, HasDay, dirs

(* The roots that an event names. *)
LEMMA EventRead ==
    ASSUME TypeOK, NEW i \in Inputs, IsEvent(i)
    PROVE  LET h == Hydrate(i)
               e == i.event IN
           /\ e.job \in h.jobs <=> e.job \in Whole.jobs
           /\ HasTask(h, e.task) <=> HasTask(Whole, e.task)
           /\ HasAssignment(h, e.asg) <=> HasAssignment(Whole, e.asg)
           /\ HasDay(h, e.day) <=> HasDay(Whole, e.day)
           /\ HasDirective(h, e.dir) <=> HasDirective(Whole, e.dir)
           /\ HasDirective(h, e.dir) => e.dir \in DirectiveRefs(i)
  <1> DEFINE e == i.event
             dirs == DirectiveRefs(i)
             tasks == (TaskRefs(i) \cup {DirDef[y].task : y \in dirs}) \ {None}
             asgs == (AssignmentRefs(i) \cup {DirDef[y].asg : y \in dirs}) \ {None}
  <1>1. Payload(i) = e
    BY DEF Payload
  <1>2. /\ {e.job} \cap roots.jobs \subseteq HydratedJobs(i)
        /\ {TaskDef[t].job : t \in tasks} \cap roots.jobs \subseteq HydratedJobs(i)
        /\ {AsgDef[a].job : a \in asgs} \cap roots.jobs \subseteq HydratedJobs(i)
        /\ HydratedJobs(i) \subseteq roots.jobs
    BY DEF HydratedJobs
  <1>3. None \notin Tasks /\ None \notin Assignments
    BY DefinitionAssumption DEF DefinitionAssumption
  <1>4. e.task \in Tasks => e.task \in tasks
    BY <1>1, <1>3 DEF TaskRefs
  <1>5. e.asg \in Assignments => e.asg \in asgs
    BY <1>3 DEF AssignmentRefs
  <1>6. dirs \subseteq roots.dirs /\ (e.dir \in roots.dirs => e.dir \in dirs)
    BY <1>1 DEF DirectiveRefs, StopsFor
  <1> HIDE DEF tasks, asgs, dirs
  <1> QED
    BY <1>1, <1>2, <1>4, <1>5, <1>6, HydrationParts
       DEF HasTask, HasAssignment, HasDay, HasDirective, dirs

(* A hydrated directive has the scope errors that it has in the whole.     *)
LEMMA ScopeErrorsRead ==
    ASSUME TypeOK, NEW i \in Inputs, NEW x \in DirectiveRefs(i)
    PROVE  DirectiveScopeErrors(Hydrate(i), x) = DirectiveScopeErrors(Whole, x)
  <1> DEFINE h == Hydrate(i)
             d == DirDef[x]
             needs(s) == /\ ~HasAssignment(s, d.asg)
                         /\ HasTask(s, d.task) \/ (d.job # None /\ d.day # None)
  <1>1. /\ d.job \in h.jobs <=> d.job \in Whole.jobs
        /\ HasTask(h, d.task) <=> HasTask(Whole, d.task)
        /\ HasAssignment(h, d.asg) <=> HasAssignment(Whole, d.asg)
        /\ HasDay(h, d.day) <=> HasDay(Whole, d.day)
    BY RefsRead
  <1>2. needs(h) <=> needs(Whole)
    BY <1>1
  <1>3. h.jobs \subseteq Whole.jobs
    BY HydrationParts DEF HydratedJobs
  <1>4. ContextMatches(h, x) = ContextMatches(Whole, x)
    <2>1. ASSUME NEW a \in Assignments,
                 AsgDef[a].job = IF HasTask(Whole, d.task) THEN TaskDef[d.task].job ELSE d.job
          PROVE  HasAssignment(h, a) <=> HasAssignment(Whole, a)
      BY <1>1, <1>3, <2>1 DEF HasAssignment, HasTask
    <2> QED
      BY <1>1, <2>1 DEF ContextMatches
  <1>5. DayScopeErrors(h, x) = DayScopeErrors(Whole, x)
    BY <1>1 DEF DayScopeErrors
  <1>7. /\ When(d.job # None /\ d.job \notin h.jobs, "CROSS_JOB_DIRECTIVE")
           = When(d.job # None /\ d.job \notin Whole.jobs, "CROSS_JOB_DIRECTIVE")
        /\ When(d.task # None /\ ~HasTask(h, d.task), "UNKNOWN_DIRECTIVE_TASK")
           = When(d.task # None /\ ~HasTask(Whole, d.task), "UNKNOWN_DIRECTIVE_TASK")
        /\ When(HasTask(h, d.task) /\ d.job # None /\ TaskDef[d.task].job # d.job,
                "CROSS_JOB_DIRECTIVE_TASK")
           = When(HasTask(Whole, d.task) /\ d.job # None /\ TaskDef[d.task].job # d.job,
                "CROSS_JOB_DIRECTIVE_TASK")
        /\ When(d.asg # None /\ ~HasAssignment(h, d.asg), "UNKNOWN_DIRECTIVE_ASSIGNMENT")
           = When(d.asg # None /\ ~HasAssignment(Whole, d.asg), "UNKNOWN_DIRECTIVE_ASSIGNMENT")
    BY <1>1 DEF When
  <1>8. /\ When(d.day # None /\ ~HasDay(h, d.day), "UNKNOWN_DIRECTIVE_PLAN_DAY")
           = When(d.day # None /\ ~HasDay(Whole, d.day), "UNKNOWN_DIRECTIVE_PLAN_DAY")
        /\ When(needs(h) /\ ContextMatches(h, x) = {}, "DIRECTIVE_EXECUTION_CONTEXT_REQUIRED")
           = When(needs(Whole) /\ ContextMatches(Whole, x) = {}, "DIRECTIVE_EXECUTION_CONTEXT_REQUIRED")
        /\ When(needs(h) /\ Cardinality(ContextMatches(h, x)) > 1, "AMBIGUOUS_DIRECTIVE_EXECUTION_CONTEXT")
          
               = When(needs(Whole) /\ Cardinality(ContextMatches(Whole, x)) > 1, "AMBIGUOUS_DIRECTIVE_EXECUTION_CONTEXT")
    BY <1>1, <1>2, <1>4 DEF When
  <1>9. /\ (IF HasAssignment(h, d.asg) THEN AssignmentScopeErrors(x) ELSE {})
           = (IF HasAssignment(Whole, d.asg) THEN AssignmentScopeErrors(x) ELSE {})
        /\ (IF HasDay(h, d.day) THEN DayScopeErrors(h, x) ELSE {})
           = (IF HasDay(Whole, d.day) THEN DayScopeErrors(Whole, x) ELSE {})
    BY <1>1, <1>5
  <1>10. DirectiveScopeErrors(h, x) = DirectiveScopeErrors(Whole, x)
    <2> HIDE DEF h
    <2> QED
      BY <1>7, <1>8, <1>9, Zenon DEF DirectiveScopeErrors
  <1> QED
    BY <1>10

(* A hydrated directive has been received by its worker exactly if it has  *)
(* in the whole: its acknowledgement is hydrated with it.                  *)
LEMMA InformedRead ==
    ASSUME TypeOK, NEW i \in Inputs, NEW x \in DirectiveRefs(i)
    PROVE  DirectiveWorkerInformed(Hydrate(i), x) <=> DirectiveWorkerInformed(Whole, x)
  <1> DEFINE h == Hydrate(i)
  <1>1. DirectiveScopeErrors(h, x) = DirectiveScopeErrors(Whole, x)
    BY ScopeErrorsRead
  <1>2. HasDirective(h, x) /\ HasDirective(Whole, x)
    BY RefsRead, HydrationParts DEF HasDirective
  <1>3. h.dir = roots.dir /\ Whole.dir = roots.dir
    BY HydrationParts
  <1>4. {r \in h.receipts : r.event.id = roots.dir[x].acked}
          = {r \in Whole.receipts : r.event.id = roots.dir[x].acked}
    <2>1. h.receipts = HydratedReceipts(i) /\ Whole.receipts = Ledger
      BY HydrationParts
    <2>2. ASSUME NEW r \in Ledger, r.event.id = roots.dir[x].acked
          PROVE  r \in HydratedReceipts(i)
      BY <2>2 DEF HydratedReceipts
    <2>3. HydratedReceipts(i) \subseteq Ledger
      BY HydrateGood
    <2> QED
      BY <2>1, <2>2, <2>3
  <1> HIDE DEF h
  <1>5. (\E r \in h.receipts : r.event.id = h.dir[x].acked /\ AckInforms(r, x))
          <=> (\E r \in Whole.receipts : r.event.id = Whole.dir[x].acked /\ AckInforms(r, x))
    BY <1>3, <1>4
  <1>6. DirectiveWorkerInformed(h, x) <=> DirectiveWorkerInformed(Whole, x)
    BY <1>1, <1>2, <1>3, <1>5 DEF DirectiveWorkerInformed
  <1> QED
    BY <1>6 DEF h

(* The stream of an acknowledged directive is hydrated, so what governs it *)
(* in the whole governs it in the hydrated scope.                          *)
LEMMA GovernedRead ==
    ASSUME TypeOK, NEW i \in Inputs, NeedsStream(i), Payload(i).dir \in roots.dirs
    PROVE  LET x == Payload(i).dir
           IN  LaterGoverningDirectiveExists(Hydrate(i), x)
               <=> LaterGoverningDirectiveExists(Whole, x)
  <1> DEFINE h == Hydrate(i)
             x == Payload(i).dir
  <1>1. h.dirs = DirectiveRefs(i) /\ Whole.dirs = roots.dirs
    BY HydrationParts
  <1>2. h.dir = roots.dir /\ Whole.dir = roots.dir
    BY HydrationParts
  <1>3. ASSUME NEW y \in DirectiveRefs(i)
        PROVE  y \in roots.dirs /\ (Governs(h, y, x) <=> Governs(Whole, y, x))
    <2>1. DirectiveScopeErrors(h, y) = DirectiveScopeErrors(Whole, y)
      BY ScopeErrorsRead
    <2>2. DirectiveWorkerInformed(h, y) <=> DirectiveWorkerInformed(Whole, y)
      BY InformedRead
    <2>3. y \in roots.dirs
      BY RefsRead
    <2> HIDE DEF h, x
    <2> QED
      BY <1>2, <2>1, <2>2, <2>3 DEF Governs
  <1>4. ASSUME NEW y \in roots.dirs, StreamKey(y) = StreamKey(x)
        PROVE  y \in DirectiveRefs(i)
    BY <1>4 DEF DirectiveRefs
  <1>5. \A y : Governs(Whole, y, x) => StreamKey(y) = StreamKey(x)
    BY DEF Governs
  <1>6. LaterGoverningDirectiveExists(h, x) <=> LaterGoverningDirectiveExists(Whole, x)
    <2> HIDE DEF h, x
    <2> QED
      BY <1>1, <1>3, <1>4, <1>5 DEF LaterGoverningDirectiveExists
  <1> QED
    BY <1>6

(* The job that an event is about. *)
LEMMA ScopeJobRead ==
    ASSUME TypeOK, NEW i \in Inputs, IsEvent(i)
    PROVE  EventScopeJob(Hydrate(i), i.event) = EventScopeJob(Whole, i.event)
  BY EventRead DEF EventScopeJob

(* An earlier use h of an item is for another owner than the event e. *)
Clashes(s, e, v, h) ==
    /\ h.item.id = v.id
    /\ \/ h.job # EventScopeJob(s, e)
       \/ h.task # e.task
       \/ h.asg # None /\ e.asg # None /\ h.asg # e.asg

FromTask(t, v) == [item |-> v, job |-> TaskDef[t].job, task |-> t, asg |-> None]

FromReceipt(s, r, v) ==
    [item |-> v, job |-> EventScopeJob(s, r.event), task |-> r.event.task, asg |-> r.event.asg]

LEMMA HistoryIs ==
    ASSUME NEW s, NEW h
    PROVE  h \in EvidenceHistory(s) <=>
              \/ \E t \in Tasks : HasTask(s, t) /\ \E v \in s.task[t].evidence : h
                  = FromTask(t, v)
              \/ \E r \in s.receipts : \E v \in r.event.attachments : h = FromReceipt(s, r, v)
  BY DEF EvidenceHistory, FromTask, FromReceipt

(* A task that counts an item is hydrated with every event that brings     *)
(* the id of the item again: the registered owner leads to it.             *)
LEMMA TaskEvidenceRead ==
    ASSUME TypeOK, EvidenceRegistered, NEW i \in Inputs, IsEvent(i),
           NEW v \in i.event.attachments,
           NEW t \in Tasks, HasTask(Whole, t), NEW w \in roots.task[t].evidence, w.id = v.id
    PROVE  HasTask(Hydrate(i), t)
  <1>1. PICK o \in identities : o.item = w /\ o.task = t /\ o.job = TaskDef[t].job
    BY DEF EvidenceRegistered
  <1>2. o \in OwnersOf(i)
    BY <1>1 DEF OwnersOf, EvidenceIds
  <1>3. TaskDef[t].job \in roots.jobs
    BY HydrationParts DEF HasTask
  <1>4. TaskDef[t].job \in HydratedJobs(i)
    BY <1>1, <1>2, <1>3 DEF HydratedJobs
  <1> QED
    BY <1>4, HydrationParts DEF HasTask

(* Hydration brings in whatever makes an attachment a conflict, if it      *)
(* overlooks no earlier report of the same id.                             *)
LEMMA EvidenceRead ==
    ASSUME TypeOK, EvidenceRegistered, NEW i \in Inputs, IsEvent(i), Overlooked(i) = {}
    PROVE  EvidenceErrors(Hydrate(i), i.event) = EvidenceErrors(Whole, i.event)
  <1> DEFINE h == Hydrate(i)
             e == i.event
             R == HydratedReceipts(i)
             About(s, v) == {x \in EvidenceHistory(s) : x.item.id = v.id}
  <1>1. /\ h.task = roots.task /\ Whole.task = roots.task
        /\ h.receipts = R /\ Whole.receipts = Ledger
        /\ R \subseteq Ledger /\ h.jobs \subseteq Whole.jobs
    BY HydrationParts, HydrateGood DEF HydratedJobs
  <1>2. EventScopeJob(h, e) = EventScopeJob(Whole, e)
    BY ScopeJobRead
  <1>3. ASSUME NEW v \in e.attachments, NEW t \in Tasks, NEW w \in roots.task[t].evidence,
               w.id = v.id
        PROVE  HasTask(h, t) <=> HasTask(Whole, t)
    BY <1>1, <1>3, TaskEvidenceRead DEF HasTask
  <1>4. ASSUME NEW v \in e.attachments, NEW r \in Ledger, NEW w \in r.event.attachments,
               w.id = v.id
        PROVE  r \in R /\ FromReceipt(h, r, w) = FromReceipt(Whole, r, w)
    <2>1. v.id \in EvidenceIds(i)
      BY DEF EvidenceIds
    <2>2. r \notin Overlooked(i)
      OBVIOUS
    <2>3. r \in R /\ EventScopeJob(h, r.event) = EventScopeJob(Whole, r.event)
      BY <1>4, <2>1, <2>2 DEF Overlooked
    <2> QED
      BY <2>3 DEF FromReceipt
  <1>5. ASSUME NEW v \in e.attachments
        PROVE  About(h, v) = About(Whole, v)
    <2> DEFINE Counted(s, x) == \E t \in Tasks : /\ HasTask(s, t)
                                   /\ \E w \in roots.task[t].evidence :
                                         w.id = v.id /\ x = FromTask(t, w)
               Reported(s, rs, x) == \E r \in rs : \E w \in r.event.attachments :
                                         w.id = v.id /\ x = FromReceipt(s, r, w)
    <2>1. \A x : Counted(h, x) <=> Counted(Whole, x)
      BY <1>3
    <2>2. \A x : Reported(h, R, x) <=> Reported(Whole, Ledger, x)
      BY <1>1, <1>4
    <2>3. ASSUME NEW s, s.task = roots.task
          PROVE  \A x : x \in About(s, v) <=> Counted(s, x) \/ Reported(s, s.receipts, x)
      <3>1. \A t, w : FromTask(t, w).item = w
        BY DEF FromTask
      <3>2. \A r, w : FromReceipt(s, r, w).item = w
        BY DEF FromReceipt
      <3> QED
        BY <2>3, <3>1, <3>2, HistoryIs
    <2> HIDE DEF h, R, About, Counted, Reported
    <2>4. \A x : x \in About(h, v) <=> x \in About(Whole, v)
      BY <1>1, <2>1, <2>2, <2>3
    <2>5. About(h, v) = About(Whole, v)
      BY <2>4
    <2> QED
      BY <2>5 DEF h
  <1>6. \A s : EvidenceErrors(s, e)
            = When(\E v \in e.attachments : \E x \in About(s, v) : x.item # v,
                   "EVIDENCE_ID_CONFLICT")
              \cup When(\E v \in e.attachments : \E x \in About(s, v) : Clashes(s, e, v, x),
                        "EVIDENCE_SCOPE_CONFLICT")
    <2> HIDE DEF e
    <2> QED
      BY DEF EvidenceErrors, Clashes
  <1>7. \A v, x : Clashes(h, e, v, x) <=> Clashes(Whole, e, v, x)
    <2> HIDE DEF h, e
    <2> QED
      BY <1>2 DEF Clashes
  <1> HIDE DEF h, e, About
  <1>8. EvidenceErrors(h, e) = EvidenceErrors(Whole, e)
    BY <1>5, <1>6, <1>7
  <1> QED
    BY <1>8 DEF h, e

(* What an accepted report brought is in the usage table, and an accepted  *)
(* report with evidence for a task or an assignment names its job.         *)
UsesRecorded ==
    \A r \in Ledger : r.outcome # "REJECTED" =>
        /\ \A v \in r.event.attachments : <<r.event.id, v.id>> \in usages
        /\ r.event.attachments # {} /\ r.event.job = None
              => r.event.task = None /\ r.event.asg = None

(* So the usage table leads to it, and its job is read as it was, unless   *)
(* only a directive tells the job.                                         *)
LEMMA JudgedOrMisjudged ==
    ASSUME TypeOK, EvidenceRegistered, UsesRecorded, NEW i \in Inputs, IsEvent(i),
           ~MisjudgesEvidence(i)
    PROVE  EvidenceErrors(Hydrate(i), i.event) = EvidenceErrors(Whole, i.event)
  <1> DEFINE h == Hydrate(i)
  <1> SUFFICES ASSUME EvidenceErrors(h, i.event) # EvidenceErrors(Whole, i.event)
               PROVE  FALSE
    OBVIOUS
  <1>1. PICK r \in Ledger : r \in Overlooked(i)
    BY EvidenceRead DEF Overlooked
  <1> DEFINE f == r.event
  <1>2. /\ r.outcome # "REJECTED"
        /\ f.dir = None \/ {f.job, f.task, f.asg} # {None}
    BY <1>1 DEF MisjudgesEvidence
  <1>3. PICK v \in f.attachments : v.id \in EvidenceIds(i)
    BY <1>1 DEF Overlooked
  <1>4. <<f.id, v.id>> \in usages
    BY <1>2 DEF UsesRecorded
  <1>5. r \in HydratedReceipts(i)
    BY <1>3, <1>4 DEF HydratedReceipts
  <1>6. EventScopeJob(h, f) # EventScopeJob(Whole, f)
    BY <1>1, <1>5 DEF Overlooked
  <1>7. f.job = None
    BY <1>6 DEF EventScopeJob
  <1>8. f.task = None /\ f.asg = None
    BY <1>2, <1>3, <1>7 DEF UsesRecorded
  <1>9. f.dir = None
    BY <1>2, <1>7, <1>8
  <1>10. ASSUME NEW s, s.dirs \subseteq Directives
         PROVE  EventScopeJob(s, f) = None
    BY <1>7, <1>8, <1>9, <1>10, DefinitionAssumption
       DEF DefinitionAssumption, EventScopeJob, HasTask, HasAssignment, HasDirective
  <1>11. h.dirs \subseteq Directives /\ Whole.dirs \subseteq Directives
    BY HydrationParts, ScopeParts
  <1> HIDE DEF h, f
  <1> QED
    BY <1>6, <1>10, <1>11

(* The assignments a missing resource may be reported through.             *)
LEMMA AuthorityRead ==
    ASSUME TypeOK, NEW i \in Inputs, IsEvent(i), HasTask(Whole, i.event.task)
    PROVE  ResourceAuthorityErrors(Hydrate(i), i.event)
        = ResourceAuthorityErrors(Whole, i.event)
  <1> DEFINE h == Hydrate(i)
             e == i.event
  <1>1. HasTask(h, e.task) /\ h.jobs \subseteq Whole.jobs
    BY EventRead, HydrationParts DEF HydratedJobs
  <1>2. \A a \in Assignments : AsgDef[a].task = e.task =>
            (HasAssignment(h, a) <=> HasAssignment(Whole, a))
    BY <1>1, DefinitionAssumption DEF DefinitionAssumption, HasAssignment, HasTask
  <1> DEFINE matches(s) == {a \in Assignments :
                              /\ HasAssignment(s, a) /\ AsgDef[a].task = e.task
                              /\ e.actor \in AsgDef[a].members
                              /\ e.day = None \/ e.day \in AsgDef[a].days}
  <1>3. matches(h) = matches(Whole)
    BY <1>2
  <1>4. \A s : ResourceAuthorityErrors(s, e) =
                  When(matches(s) = {}, "TASK_AUTHORITY_REQUIRED")
                    \cup When(Cardinality(matches(s)) > 1, "AMBIGUOUS_TASK_AUTHORITY")
    BY DEF ResourceAuthorityErrors
  <1> HIDE DEF matches
  <1> QED
    BY <1>3, <1>4

(* An event is refused for its references in both scopes alike, if its     *)
(* evidence is.                                                            *)
LEMMA ReferencesRead ==
    ASSUME TypeOK, NEW i \in Inputs, IsEvent(i),
           EvidenceErrors(Hydrate(i), i.event) = EvidenceErrors(Whole, i.event)
    PROVE  ReferenceErrors(Hydrate(i), i.event) = ReferenceErrors(Whole, i.event)
  <1> DEFINE h == Hydrate(i)
             e == i.event
  <1>1. /\ e.job \in h.jobs <=> e.job \in Whole.jobs
        /\ HasTask(h, e.task) <=> HasTask(Whole, e.task)
        /\ HasAssignment(h, e.asg) <=> HasAssignment(Whole, e.asg)
        /\ HasDay(h, e.day) <=> HasDay(Whole, e.day)
        /\ HasDirective(h, e.dir) <=> HasDirective(Whole, e.dir)
    BY EventRead
  <1>2. EvidenceErrors(h, e) = EvidenceErrors(Whole, e)
    OBVIOUS
  <1>3. (IF HasDirective(h, e.dir) THEN EventDirectiveErrors(h, e) ELSE {})
          = (IF HasDirective(Whole, e.dir) THEN EventDirectiveErrors(Whole, e) ELSE {})
    <2>1. HasDirective(h, e.dir) => DirectiveScopeErrors(h, e.dir)
              = DirectiveScopeErrors(Whole, e.dir)
      BY EventRead, ScopeErrorsRead
    <2> HIDE DEF h, e
    <2> QED
      BY <1>1, <2>1 DEF EventDirectiveErrors
  <1>4. (IF /\ e.type = "RESOURCE_MISSING_REPORTED"
            /\ HasTask(h, e.task) /\ ~HasAssignment(h, e.asg)
         THEN ResourceAuthorityErrors(h, e) ELSE {})
          = (IF /\ e.type = "RESOURCE_MISSING_REPORTED"
                /\ HasTask(Whole, e.task) /\ ~HasAssignment(Whole, e.asg)
             THEN ResourceAuthorityErrors(Whole, e) ELSE {})
    BY <1>1, AuthorityRead
  <1>5. /\ When(e.day # None /\ ~HasDay(h, e.day), "UNKNOWN_PLAN_DAY")
           = When(e.day # None /\ ~HasDay(Whole, e.day), "UNKNOWN_PLAN_DAY")
        /\ When(HasDay(h, e.day) /\ DayDef[e.day].worker # e.actor, "PLAN_DAY_ACTOR_MISMATCH")
          
               = When(HasDay(Whole, e.day) /\ DayDef[e.day].worker # e.actor, "PLAN_DAY_ACTOR_MISMATCH")
        /\ When(e.job # None /\ e.job \notin h.jobs, "CROSS_JOB_REFERENCE")
           = When(e.job # None /\ e.job \notin Whole.jobs, "CROSS_JOB_REFERENCE")
        /\ When(e.task # None /\ ~HasTask(h, e.task), "UNKNOWN_TASK")
           = When(e.task # None /\ ~HasTask(Whole, e.task), "UNKNOWN_TASK")
        /\ When(HasTask(h, e.task) /\ e.job # None /\ TaskDef[e.task].job # e.job, "CROSS_JOB_TASK")
          
               = When(HasTask(Whole, e.task) /\ e.job # None /\ TaskDef[e.task].job # e.job, "CROSS_JOB_TASK")
    BY <1>1 DEF When
  <1>6. /\ When(e.asg # None /\ ~HasAssignment(h, e.asg), "UNKNOWN_ASSIGNMENT")
           = When(e.asg # None /\ ~HasAssignment(Whole, e.asg), "UNKNOWN_ASSIGNMENT")
        /\ (IF HasAssignment(h, e.asg) THEN EventAssignmentErrors(e) ELSE {})
           = (IF HasAssignment(Whole, e.asg) THEN EventAssignmentErrors(e) ELSE {})
        /\ When(e.stage # None /\ ~(HasTask(h, e.task) /\ StageTask[e.stage] = e.task),
                "UNKNOWN_OR_CROSS_TASK_STAGE")
           = When(e.stage # None /\ ~(HasTask(Whole, e.task) /\ StageTask[e.stage] = e.task),
                "UNKNOWN_OR_CROSS_TASK_STAGE")
        /\ When(e.dir # None /\ ~HasDirective(h, e.dir), "UNKNOWN_DIRECTIVE")
           = When(e.dir # None /\ ~HasDirective(Whole, e.dir), "UNKNOWN_DIRECTIVE")
    BY <1>1 DEF When
  <1>7. ReferenceErrors(h, e) = ReferenceErrors(Whole, e)
    <2> HIDE DEF h, e
    <2> QED
      BY <1>2, <1>3, <1>4, <1>5, <1>6, Zenon DEF ReferenceErrors
  <1> QED
    BY <1>7

-----------------------------------------------------------------------------
(* What a handler makes of the hydrated scope, it makes of the whole.      *)

Carries(v, w) == w = [v EXCEPT !.scope = Grown(@)]

LEMMA ResultCarries ==
    \A n, o, f, m, reasons : Carries(Result(n, o, f, m, reasons), Result(Grown(n), o, f, m, reasons))
  BY DEF Carries, Result

LEMMA PlainCarries ==
    /\ \A n, code : Carries(Refuse(n, code), Refuse(Grown(n), code))
    /\ \A n : Carries(Noop(n), Noop(Grown(n)))
    /\ \A n, f : Carries(Applied(n, f), Applied(Grown(n), f))
  BY ResultCarries DEF Refuse, Noop, Applied

(* What is put back touches no root. *)
LEMMA GrownFields ==
    ASSUME NEW R, NEW s \in Scopes(R)
    PROVE  /\ Grown(s).task = s.task /\ Grown(s).stage = s.stage /\ Grown(s).day = s.day
           /\ Grown(s).dir = s.dir /\ Grown(s).released = s.released
           /\ Grown(s).jobRev = s.jobRev
           /\ Grown(s).jobs = roots.jobs /\ Grown(s).days = roots.days
           /\ Grown(s).dirs = roots.dirs /\ Grown(s).receipts = Ledger
  BY DEF Scopes, Grown

LEMMA GrownType ==
    ASSUME TypeOK, NEW R, NEW s \in Scopes(R)
    PROVE  Grown(s) \in Scopes(Ledger)
  <1>1. roots \in Scopes({})
    BY DEF TypeOK
  <1> QED
    BY <1>1 DEF Scopes, Grown

(* The updates that a handler makes in more than one field.                *)
WithTask(s, w) == [s EXCEPT !.task = w]
WithStage(s, w) == [s EXCEPT !.stage = w]

Observed(s, t, v, id) ==
    [s EXCEPT !.task[t].evidence = MergeEvidence(@, v), !.task[t].observations = @ \cup {id}]

LEMMA ObservedIs ==
    ASSUME NEW R, NEW s \in Scopes(R), NEW t, NEW v, NEW id
    PROVE  Observed(s, t, v, id)
             = WithTask(s, [s.task EXCEPT ![t].evidence = MergeEvidence(@, v),
                                          ![t].observations = @ \cup {id}])
  BY ZenonT(30) DEF Scopes, Observed, WithTask

LEMMA SafeHoldIs ==
    ASSUME NEW R, NEW s \in Scopes(R), NEW t, NEW x
    PROVE  SafeHoldTask(s, t, x)
             = WithTask(s, [s.task EXCEPT ![t].status = "SAFE_HOLD", ![t].holdDirective = x,
                                          ![t].blocked = TRUE, ![t].authorized = FALSE])
  BY DEF Scopes, SafeHoldTask, WithTask

(* Growth commutes with every update of a task or a stage.                 *)
LEMMA GrownTask ==
    ASSUME TypeOK, NEW R, NEW s \in Scopes(R), NEW t, NEW v, NEW id
    PROVE  /\ SafeHoldActive(Grown(s), t) <=> SafeHoldActive(s, t)
           /\ OrdinaryTaskStatus(Grown(s), t, v) = Grown(OrdinaryTaskStatus(s, t, v))
           /\ SafeHoldTask(Grown(s), t, v) = Grown(SafeHoldTask(s, t, v))
           /\ Observed(Grown(s), t, v, id) = Grown(Observed(s, t, v, id))
  <1>1. /\ Grown(s) \in Scopes(Ledger)
        /\ Grown(s).task = s.task /\ Grown(s).stage = s.stage
    BY GrownType, GrownFields
  <1>2. SafeHoldActive(Grown(s), t) <=> SafeHoldActive(s, t)
    BY <1>1 DEF SafeHoldActive
  <1>3. \A w : WithTask(Grown(s), w) = Grown(WithTask(s, w))
    BY DEF WithTask, Grown
  <1>4. OrdinaryTaskStatus(Grown(s), t, v) = Grown(OrdinaryTaskStatus(s, t, v))
    <2>1. [Grown(s) EXCEPT !.task[t].status = v] = Grown([s EXCEPT !.task[t].status = v])
      BY <1>1 DEF Grown
    <2> QED
      BY <1>2, <2>1 DEF OrdinaryTaskStatus
  <1>5. SafeHoldTask(Grown(s), t, v) = Grown(SafeHoldTask(s, t, v))
    <2> DEFINE w(n) == [n EXCEPT ![t].status = "SAFE_HOLD", ![t].holdDirective = v,
                                 ![t].blocked = TRUE, ![t].authorized = FALSE]
    <2> HIDE DEF w
    <2>1. \A Q : \A n \in Scopes(Q) : SafeHoldTask(n, t, v) = WithTask(n, w(n.task))
      BY SafeHoldIs DEF w
    <2> QED
      BY <1>1, <1>3, <2>1
  <1>6. Observed(Grown(s), t, v, id) = Grown(Observed(s, t, v, id))
    <2> DEFINE w(n) == [n EXCEPT ![t].evidence = MergeEvidence(@, v), ![t].observations = @ \cup {id}]
    <2> HIDE DEF w
    <2>1. \A Q : \A n \in Scopes(Q) : Observed(n, t, v, id) = WithTask(n, w(n.task))
      BY ObservedIs DEF w
    <2> QED
      BY <1>1, <1>3, <2>1
  <1> QED
    BY <1>2, <1>4, <1>5, <1>6

LEMMA GrownDispute ==
    ASSUME NEW R, NEW s \in Scopes(R), NEW e
    PROVE  DisputeTarget(Grown(s), e) = Grown(DisputeTarget(s, e))
  BY GrownFields, ZenonT(30) DEF Grown, DisputeTarget, Scopes

-----------------------------------------------------------------------------
(* Handlers that read roots only. *)

LEMMA DayHandlersCarry ==
    ASSUME NEW R, NEW s \in Scopes(R), NEW e
    PROVE  /\ Carries(DayPlanActivated(s, e), DayPlanActivated(Grown(s), e))
           /\ Carries(StartDelayReported(s, e), StartDelayReported(Grown(s), e))
           /\ Carries(StartExceptionReported(s, e), StartExceptionReported(Grown(s), e))
           /\ Carries(UnavailableTodayReported(s, e), UnavailableTodayReported(Grown(s), e))
           /\ Carries(DayCloseReported(s, e), DayCloseReported(Grown(s), e))
  <1>1. Grown(s).day = s.day
    BY GrownFields
  <1>2. /\ [Grown(s) EXCEPT !.day[e.day].status = "ACTIVE"] = Grown([s EXCEPT !.day[e.day].status = "ACTIVE"])
        /\ [Grown(s) EXCEPT !.day[e.day].available = FALSE] = Grown([s EXCEPT !.day[e.day].available = FALSE])
        /\ [Grown(s) EXCEPT !.day[e.day].closeReported = TRUE] = Grown([s EXCEPT !.day[e.day].closeReported = TRUE])
    BY <1>1 DEF Grown
  <1>3. Carries(DayPlanActivated(s, e), DayPlanActivated(Grown(s), e))
    BY <1>1, <1>2, PlainCarries DEF DayPlanActivated
  <1>4. /\ Carries(StartDelayReported(s, e), StartDelayReported(Grown(s), e))
        /\ Carries(StartExceptionReported(s, e), StartExceptionReported(Grown(s), e))
    BY PlainCarries, ResultCarries DEF StartDelayReported, StartExceptionReported
  <1>5. Carries(UnavailableTodayReported(s, e), UnavailableTodayReported(Grown(s), e))
    BY <1>2, PlainCarries DEF UnavailableTodayReported
  <1>6. Carries(DayCloseReported(s, e), DayCloseReported(Grown(s), e))
    BY <1>1, <1>2, PlainCarries DEF DayCloseReported
  <1> QED
    BY <1>3, <1>4, <1>5, <1>6

LEMMA HoldHandlersCarry ==
    ASSUME TypeOK, NEW R, NEW s \in Scopes(R), NEW e
    PROVE  /\ Carries(WorkStartBlocked(s, e), WorkStartBlocked(Grown(s), e))
           /\ Carries(ResourceMissingReported(s, e), ResourceMissingReported(Grown(s), e))
           /\ Carries(ScopeFactReported(s, e), ScopeFactReported(Grown(s), e))
           /\ Carries(TechnicalWaitReported(s, e), TechnicalWaitReported(Grown(s), e))
  <1>0. \A t, v : OrdinaryTaskStatus(Grown(s), t, v) = Grown(OrdinaryTaskStatus(s, t, v))
    BY GrownTask
  <1>1. Carries(WorkStartBlocked(s, e), WorkStartBlocked(Grown(s), e))
    BY <1>0, PlainCarries DEF WorkStartBlocked
  <1>2. Carries(ResourceMissingReported(s, e), ResourceMissingReported(Grown(s), e))
    BY <1>0, PlainCarries DEF ResourceMissingReported
  <1>3. Carries(ScopeFactReported(s, e), ScopeFactReported(Grown(s), e))
    BY PlainCarries, ResultCarries DEF ScopeFactReported
  <1>6. [Grown(s) EXCEPT !.task[e.task].status = "WAITING", !.released[e.asg] = @ \cup {e.actor}]
          = Grown([s EXCEPT !.task[e.task].status = "WAITING", !.released[e.asg] = @ \cup {e.actor}])
    BY GrownFields, ZenonT(30) DEF Grown, Scopes
  <1>7. Carries(TechnicalWaitReported(s, e), TechnicalWaitReported(Grown(s), e))
    <2>1. SafeHoldActive(Grown(s), e.task) <=> SafeHoldActive(s, e.task)
      BY GrownTask
    <2> QED
      BY <1>6, <2>1, PlainCarries DEF TechnicalWaitReported
  <1> QED
    BY <1>1, <1>2, <1>3, <1>7

LEMMA SiteProblemCarries ==
    ASSUME TypeOK, NEW R, NEW s \in Scopes(R), NEW e \in FieldEvents, NEW c, e.task \in Tasks
    PROVE  Carries(SiteProblemReported(s, e, c), SiteProblemReported(Grown(s), e, c))
  <1> DEFINE t == e.task
             observed(n) == [n EXCEPT !.task[t].evidence = MergeEvidence(@, e.attachments),
                                      !.task[t].observations = @ \cup {e.id}]
             conflict(n) == ConflictingCompletion(n, e)
             held(n) == SafeHoldActive(n, t)
             holds == c.siteProblem \in {"HOLD", "HOLD_AND_ESCALATE"}
             next(n) == IF held(n) THEN observed(n)
                        ELSE IF conflict(n) THEN DisputeTarget(observed(n), e)
                        ELSE IF holds THEN OrdinaryTaskStatus(observed(n), t, "BLOCKED")
                        ELSE observed(n)
             first(n) == IF held(n) /\ conflict(n) THEN <<"HUMAN_REVIEW_REQUIRED">>
                         ELSE IF held(n) THEN <<>>
                         ELSE IF conflict(n) THEN <<"TASK_HELD", "HUMAN_REVIEW_REQUIRED">>
                         ELSE IF holds THEN <<"TASK_HELD">> ELSE <<>>
             last == IF c.siteProblem \in {"ESCALATE", "HOLD_AND_ESCALATE"}
                     THEN <<"SITE_PROBLEM_ESCALATED">>
                     ELSE IF c.siteProblem = "REQUEST_STOP"
                     THEN <<"STOP_DIRECTIVE_REQUESTED">> ELSE <<>>
  <1>1. e.attachments \in SUBSET EvidenceItems /\ e.id \in EventIds
    BY DEF EvidenceItems, EventIds
  <1>2. observed(s) \in Scopes(R)
    BY <1>1, ObservedUpdate
  <1>3. observed(Grown(s)) = Grown(observed(s))
    <2>1. \A n : observed(n) = Observed(n, t, e.attachments, e.id)
      BY DEF Observed
    <2> HIDE DEF observed
    <2> QED
      BY <2>1, GrownTask
  <1>4. (held(Grown(s)) <=> held(s)) /\ (conflict(Grown(s)) <=> conflict(s))
    BY GrownTask, GrownFields DEF ConflictingCompletion
  <1>5. /\ DisputeTarget(Grown(observed(s)), e) = Grown(DisputeTarget(observed(s), e))
        /\ OrdinaryTaskStatus(Grown(observed(s)), t, "BLOCKED")
               = Grown(OrdinaryTaskStatus(observed(s), t, "BLOCKED"))
    <2> HIDE DEF observed
    <2> QED
      BY <1>2, GrownTask, GrownDispute
  <1>6. \A n : SiteProblemReported(n, e, c)
            = Applied(next(n), <<"SITE_PROBLEM_RECORDED">> \o first(n) \o last)
    BY Zenon DEF SiteProblemReported
  <1> HIDE DEF observed, held, conflict, holds
  <1>7. next(Grown(s)) = Grown(next(s)) /\ first(Grown(s)) = first(s)
    BY <1>3, <1>4, <1>5
  <1> HIDE DEF next, first, last
  <1> QED
    BY <1>6, <1>7, PlainCarries

-----------------------------------------------------------------------------
(* Handlers that also read receipts and directives. *)

(* A completion is blocked by the STOPs that are hydrated for it. *)
LEMMA BlockedRead ==
    ASSUME TypeOK, NEW i \in Inputs, IsEvent(i), i.event.type \in CompletionEvents,
           i.event.job # None
    PROVE  CompletionBlockedByStop(Whole, i.event)
        <=> CompletionBlockedByStop(Hydrate(i), i.event)
  <1> DEFINE h == Hydrate(i)
             e == i.event
  <1>1. /\ h.dirs = DirectiveRefs(i) /\ Whole.dirs = roots.dirs
        /\ h.dir = roots.dir /\ Whole.dir = roots.dir
    BY HydrationParts
  <1>2. DirectiveRefs(i) \subseteq roots.dirs
    BY DEF DirectiveRefs, StopsFor
  <1>3. StopsFor(e) \subseteq DirectiveRefs(i)
    BY DEF DirectiveRefs
  <1>4. \A s : EventScopeJob(s, e) = e.job
    BY DEF EventScopeJob
  <1>5. \A x : StopCovers(h, x, e) <=> StopCovers(Whole, x, e)
    <2> HIDE DEF h, e
    <2> QED
      BY <1>4 DEF StopCovers
  <1>6. \A x \in roots.dirs : DirDef[x].class
            = "STOP" /\ roots.dir[x].stopInForce /\ StopCovers(Whole, x, e)
                                 => x \in StopsFor(e)
    <2> HIDE DEF h, e
    <2> QED
      BY <1>4 DEF StopCovers, StopsFor
  <1> HIDE DEF h, e
  <1>7. CompletionBlockedByStop(Whole, e) <=> CompletionBlockedByStop(h, e)
    BY <1>1, <1>2, <1>3, <1>5, <1>6 DEF CompletionBlockedByStop
  <1> QED
    BY <1>7 DEF h, e

(* It is gated by the unsafe reports for its task: they are hydrated. *)
LEMMA UnsafeRead ==
    ASSUME TypeOK, NEW i \in Inputs, IsEvent(i), i.event.task \in Tasks
    PROVE  HasUnresolvedUnsafeReport(Whole, i.event)
        <=> HasUnresolvedUnsafeReport(Hydrate(i), i.event)
  <1> DEFINE h == Hydrate(i)
             e == i.event
  <1>1. h.receipts = HydratedReceipts(i) /\ Whole.receipts = Ledger
    BY HydrationParts
  <1>2. e.task # None
    BY DefinitionAssumption DEF DefinitionAssumption
  <1>3. \A r \in Ledger : r.event.task = e.task => r \in HydratedReceipts(i)
    BY <1>2 DEF HydratedReceipts, TaskRefs, Payload
  <1>4. HydratedReceipts(i) \subseteq Ledger
    BY HydrateGood
  <1>5. \A r : UnsafeReportFor(r, e) => r.event.task = e.task
    BY DEF UnsafeReportFor
  <1> HIDE DEF h, e
  <1>6. HasUnresolvedUnsafeReport(Whole, e) <=> HasUnresolvedUnsafeReport(h, e)
    BY <1>1, <1>3, <1>4, <1>5 DEF HasUnresolvedUnsafeReport
  <1> QED
    BY <1>6 DEF h, e

LEMMA CompleteIs ==
    ASSUME NEW R, NEW s \in Scopes(R), NEW e
    PROVE  Complete(s, e) =
             IF IsStageCompletion(e)
             THEN WithStage(s, [s.stage EXCEPT ![e.stage].status = "DONE", ![e.stage].completion = e.id])
             ELSE WithTask(s, [s.task EXCEPT ![e.task].status = "DONE", ![e.task].completion = e.id])
  <1>1. [s EXCEPT !.stage[e.stage].status = "DONE", !.stage[e.stage].completion = e.id]
          = WithStage(s, [s.stage EXCEPT ![e.stage].status = "DONE", ![e.stage].completion = e.id])
    BY DEF Scopes, WithStage
  <1>2. [s EXCEPT !.task[e.task].status = "DONE", !.task[e.task].completion = e.id]
          = WithTask(s, [s.task EXCEPT ![e.task].status = "DONE", ![e.task].completion = e.id])
    BY DEF Scopes, WithTask
  <1> QED
    BY <1>1, <1>2, Zenon DEF Complete

LEMMA CompletionUpdates ==
    ASSUME TypeOK, NEW R, NEW s \in Scopes(R), NEW e
    PROVE  /\ Complete(Grown(s), e) = Grown(Complete(s, e))
           /\ [Grown(s) EXCEPT !.task[e.task].evidence = MergeEvidence(@, e.attachments)]
                = Grown([s EXCEPT !.task[e.task].evidence = MergeEvidence(@, e.attachments)])
  <1>1. Grown(s).task = s.task /\ Grown(s).stage = s.stage /\ Grown(s) \in Scopes(Ledger)
    BY GrownFields, GrownType
  <1>2. [Grown(s) EXCEPT !.task[e.task].evidence = MergeEvidence(@, e.attachments)]
                = Grown([s EXCEPT !.task[e.task].evidence = MergeEvidence(@, e.attachments)])
    BY <1>1 DEF Grown
  <1>3. Complete(Grown(s), e) = Grown(Complete(s, e))
    <2> DEFINE w(n) == [n EXCEPT ![e.stage].status = "DONE", ![e.stage].completion = e.id]
               u(n) == [n EXCEPT ![e.task].status = "DONE", ![e.task].completion = e.id]
    <2> HIDE DEF w, u
    <2>1. \A Q : \A n \in Scopes(Q) :
            Complete(n, e)
                = IF IsStageCompletion(e) THEN WithStage(n, w(n.stage)) ELSE WithTask(n, u(n.task))
      BY CompleteIs DEF w, u
    <2>2. \A v : /\ WithStage(Grown(s), v) = Grown(WithStage(s, v))
                 /\ WithTask(Grown(s), v) = Grown(WithTask(s, v))
      BY DEF Grown, WithStage, WithTask
    <2> QED
      BY <1>1, <2>1, <2>2
  <1> QED
    BY <1>2, <1>3

LEMMA CompletionCarries ==
    ASSUME TypeOK, NEW R, NEW s \in Scopes(R), NEW e \in FieldEvents, e.task \in Tasks,
           CompletionBlockedByStop(Grown(s), e) <=> CompletionBlockedByStop(s, e),
           HasUnresolvedUnsafeReport(Grown(s), e) <=> HasUnresolvedUnsafeReport(s, e)
    PROVE  Carries(CompletionReported(s, e), CompletionReported(Grown(s), e))
  <1> DEFINE t == e.task
             missing(n) == MissingCompletionRequirements(n, e)
             evidenced(n) == [n EXCEPT !.task[t].evidence = MergeEvidence(@, e.attachments)]
             gates(n) == CompletionGates(n, e)
             gated(n) == GatedCompletion(n, e)
  <1>1. /\ Grown(s).task = s.task /\ Grown(s).stage = s.stage
        /\ SafeHoldActive(Grown(s), t) <=> SafeHoldActive(s, t)
    BY GrownFields, GrownTask
  <1>2. gates(Grown(s)) = gates(s)
    BY <1>1 DEF CompletionGates, When
  <1>3. Carries(gated(s), gated(Grown(s)))
    <2>1. DisputeTarget(Grown(s), e) = Grown(DisputeTarget(s, e))
      BY GrownDispute
    <2> DEFINE unsafe(n) == HasUnresolvedUnsafeReport(n, e)
               next(n) == IF unsafe(n) /\ ~SafeHoldActive(n, t) THEN DisputeTarget(n, e) ELSE n
               effects(n) == IF unsafe(n) THEN <<"COMPLETION_REJECTED", "TASK_HELD", "HUMAN_REVIEW_REQUIRED">>
                             ELSE <<"COMPLETION_REJECTED">>
    <2>2. \A n : gated(n) = Result(next(n), "REJECTED", effects(n), {}, gates(n))
      BY Zenon DEF GatedCompletion
    <2>3. next(Grown(s)) = Grown(next(s)) /\ effects(Grown(s)) = effects(s)
      BY <1>1, <2>1
    <2> HIDE DEF next, effects, gates, gated
    <2> QED
      BY <1>2, <2>2, <2>3, ResultCarries
  <1>4. /\ AlreadyCompleted(Grown(s), e) <=> AlreadyCompleted(s, e)
        /\ TaskNotCompletable(Grown(s), e) <=> TaskNotCompletable(s, e)
        /\ StageNotCompletable(Grown(s), e) <=> StageNotCompletable(s, e)
        /\ missing(Grown(s)) = missing(s)
    BY <1>1
       DEF AlreadyCompleted, TaskNotCompletable, StageNotCompletable,
           MissingCompletionRequirements
  <1>5. evidenced(Grown(s)) = Grown(evidenced(s))
    BY CompletionUpdates
  <1>6. Complete(Grown(evidenced(s)), e) = Grown(Complete(evidenced(s), e))
    <2>1. e.attachments \in SUBSET EvidenceItems
      BY DEF EvidenceItems
    <2>2. evidenced(s) \in Scopes(R)
      BY <2>1, EvidenceUpdate
    <2> HIDE DEF evidenced
    <2> QED
      BY <2>2, CompletionUpdates
  <1> DEFINE refuse(n, effects, reasons) == Result(n, "REJECTED", effects, {}, reasons)
  <1>7. \A effects, reasons : Carries(refuse(s, effects, reasons), refuse(Grown(s), effects, reasons))
    BY ResultCarries
  <1>8. /\ Carries(Result(s, "NOOP", <<>>, {}, {"COMPLETION_ALREADY_RECORDED"}),
                   Result(Grown(s), "NOOP", <<>>, {}, {"COMPLETION_ALREADY_RECORDED"}))
        /\ \A r, m, reasons : Carries(Result(evidenced(s), "REPORTED", r, m, reasons),
                                      Result(evidenced(Grown(s)), "REPORTED", r, m, reasons))
        /\ \A f : Carries(Applied(Complete(evidenced(s), e), f), Applied(Complete(evidenced(Grown(s)), e), f))
    <2> HIDE DEF evidenced
    <2> QED
      BY <1>5, <1>6, ResultCarries, PlainCarries
  <1>9. \A n : CompletionReported(n, e) =
          IF CompletionAuthorityErrors(e) # {}
            THEN refuse(n, <<"ASSIGNMENT_INVALID">> \o <<"COMPLETION_REJECTED">>, CompletionAuthorityErrors(e))
          ELSE IF TaskDef[t].completion # ExpectedType[e.type]
            THEN refuse(n, <<"COMPLETION_REJECTED">>, {"COMPLETION_TYPE_MISMATCH"})
          ELSE IF gates(n) # {} THEN gated(n)
          ELSE IF AlreadyCompleted(n, e)
            THEN Result(n, "NOOP", <<>>, {}, {"COMPLETION_ALREADY_RECORDED"})
          ELSE IF TaskNotCompletable(n, e)
            THEN refuse(n, <<"COMPLETION_REJECTED">>, {"TASK_NOT_COMPLETABLE"})
          ELSE IF StageNotCompletable(n, e)
            THEN refuse(n, <<"COMPLETION_REJECTED">>, {"STAGE_NOT_COMPLETABLE"})
          ELSE IF missing(n) # {}
            THEN Result(evidenced(n), "REPORTED", <<"COMPLETION_REJECTED">>, missing(n),
                        {"POSTCONDITIONS_NOT_MET"})
          ELSE Applied(Complete(evidenced(n), e), <<"COMPLETION_ACCEPTED">>)
    BY Zenon DEF CompletionReported
  <1> HIDE DEF evidenced, missing, gates, gated, refuse
  <1> QED
    BY <1>2, <1>3, <1>4, <1>7, <1>8, <1>9

(* The completion that a dispute names is hydrated. *)
LEMMA DisputableRead ==
    ASSUME TypeOK, NEW i \in Inputs, IsEvent(i)
    PROVE  LET e == i.event IN
           (\E r \in Whole.receipts : DisputableBy(Whole, r, e))
             <=> (\E r \in Hydrate(i).receipts : DisputableBy(Hydrate(i), r, e))
  <1> DEFINE h == Hydrate(i)
             e == i.event
  <1>1. h.receipts = HydratedReceipts(i) /\ Whole.receipts = Ledger
    BY HydrationParts
  <1>2. HydratedReceipts(i) \subseteq Ledger
    BY HydrateGood
  <1>3. \A r \in Ledger : r.event.id = e.against => r \in HydratedReceipts(i)
    BY DEF HydratedReceipts
  <1>4. HasAssignment(h, e.asg) <=> HasAssignment(Whole, e.asg)
    BY EventRead
  <1>5. \A r : DisputableBy(h, r, e) <=> DisputableBy(Whole, r, e)
    <2> HIDE DEF h, e
    <2> QED
      BY <1>4 DEF DisputableBy
  <1>6. \A r : DisputableBy(Whole, r, e) => r.event.id = e.against
    BY DEF DisputableBy
  <1> HIDE DEF h, e
  <1>7. (\E r \in Whole.receipts : DisputableBy(Whole, r, e))
             <=> (\E r \in h.receipts : DisputableBy(h, r, e))
    BY <1>1, <1>2, <1>3, <1>5, <1>6
  <1> QED
    BY <1>7 DEF h, e

LEMMA DisputedCarries ==
    ASSUME NEW R, NEW s \in Scopes(R), NEW e,
           (\E r \in Grown(s).receipts : DisputableBy(Grown(s), r, e))
             <=> (\E r \in s.receipts : DisputableBy(s, r, e))
    PROVE  Carries(CompletionDisputed(s, e), CompletionDisputed(Grown(s), e))
  <1>1. Grown(s).task = s.task /\ Grown(s).stage = s.stage
    BY GrownFields
  <1>2. DisputeSuspended(Grown(s), e) <=> DisputeSuspended(s, e)
    BY <1>1 DEF DisputeSuspended
  <1>3. /\ [Grown(s) EXCEPT !.stage[e.stage].status = "DISPUTED"]
             = Grown([s EXCEPT !.stage[e.stage].status = "DISPUTED"])
        /\ [Grown(s) EXCEPT !.task[e.task].status = "DISPUTED"]
             = Grown([s EXCEPT !.task[e.task].status = "DISPUTED"])
    BY <1>1 DEF Grown
  <1> QED
    BY <1>2, <1>3, PlainCarries DEF CompletionDisputed

WithDir(s, w) == [s EXCEPT !.dir = w]
AckedAt(s, x, id) == [s EXCEPT !.dir[x].delivery = "ACKED", !.dir[x].acked = id]

LEMMA AckedIs ==
    ASSUME NEW R, NEW s \in Scopes(R), NEW x, NEW id
    PROVE  AckedAt(s, x, id)
             = WithDir(s, [s.dir EXCEPT ![x].delivery = "ACKED", ![x].acked = id])
  BY DEF AckedAt, WithDir, Scopes

LEMMA AcknowledgedCarries ==
    ASSUME TypeOK, NEW R, NEW s \in Scopes(R), NEW e, e.dir \in Directives, e.id \in EventIds,
           DirectiveWorkerInformed(Grown(s), e.dir) <=> DirectiveWorkerInformed(s, e.dir),
           ConfirmsPlan(Grown(s), e.dir) <=> ConfirmsPlan(s, e.dir)
    PROVE  Carries(WorkerAcknowledged(s, e), WorkerAcknowledged(Grown(s), e))
  <1> DEFINE x == e.dir
             acked(n) == [n EXCEPT !.dir[x].delivery = "ACKED", !.dir[x].acked = e.id]
             day == DirDef[x].day
             proposed == DirDef[x].proposed
  <1>0. \A n : acked(n) = AckedAt(n, x, e.id)
    BY DEF AckedAt
  <1>1. Grown(s) \in Scopes(Ledger) /\ Grown(s).dir = s.dir
    BY GrownFields, GrownType
  <1>2. acked(Grown(s)) = Grown(acked(s))
    <2> DEFINE w(n) == [n EXCEPT ![x].delivery = "ACKED", ![x].acked = e.id]
    <2> HIDE DEF w, acked
    <2>1. \A Q : \A n \in Scopes(Q) : acked(n) = WithDir(n, w(n.dir))
      BY <1>0, AckedIs DEF w
    <2>2. \A v : WithDir(Grown(s), v) = Grown(WithDir(s, v))
      BY DEF Grown, WithDir
    <2> QED
      BY <1>1, <2>1, <2>2
  <1>3. acked(s) \in Scopes(R)
    <2> DEFINE w == [s.dir EXCEPT ![x].delivery = "ACKED", ![x].acked = e.id]
    <2>1. acked(s) = WithDir(s, w)
      <3> HIDE DEF acked
      <3>1. acked(s) = AckedAt(s, x, e.id)
        BY <1>0
      <3> QED
        BY <3>1, AckedIs
    <2>2. s.dir \in [Directives -> DirState]
      BY DEF Scopes
    <2>3. w \in [Directives -> DirState]
      BY <2>2 DEF DirState, DeliveryEvidence
    <2> HIDE DEF w, acked
    <2>4. WithDir(s, w) \in Scopes(R)
      BY <2>3 DEF WithDir, Scopes
    <2> QED
      BY <2>1, <2>4
  <1> HIDE DEF acked
  <1>4. [Grown(acked(s)) EXCEPT !.day[day].confirmed = proposed]
          = Grown([acked(s) EXCEPT !.day[day].confirmed = proposed])
    <2>1. Grown(acked(s)).day = acked(s).day
      BY <1>3, GrownFields
    <2> QED
      BY <2>1 DEF Grown
  <1>5. \A n : WorkerAcknowledged(n, e) =
            IF DirectiveWorkerInformed(n, x) THEN Noop(n)
            ELSE Applied(IF ConfirmsPlan(n, x)
                         THEN [acked(n) EXCEPT !.day[day].confirmed = proposed]
                         ELSE acked(n), <<"DIRECTIVE_ACKED">>)
    BY Zenon DEF WorkerAcknowledged, acked
  <1> DEFINE confirmed(n) == [n EXCEPT !.day[day].confirmed = proposed]
             next(n) == IF ConfirmsPlan(n, x) THEN confirmed(acked(n)) ELSE acked(n)
  <1>6. confirmed(Grown(acked(s))) = Grown(confirmed(acked(s)))
    BY <1>4
  <1>7. \A n : WorkerAcknowledged(n, e) =
            IF DirectiveWorkerInformed(n, x) THEN Noop(n)
            ELSE Applied(next(n), <<"DIRECTIVE_ACKED">>)
    BY <1>5
  <1> HIDE DEF confirmed
  <1>8. next(Grown(s)) = Grown(next(s))
    BY <1>2, <1>6
  <1> HIDE DEF next
  <1> QED
    BY <1>7, <1>8, PlainCarries

(* What the acknowledgement of a directive depends on is hydrated with it. *)
LEMMA ConfirmsRead ==
    ASSUME TypeOK, NEW i \in Inputs, IsEvent(i), i.event.type = "WORKER_ACKNOWLEDGED",
           HasDirective(Hydrate(i), i.event.dir)
    PROVE  LET x == i.event.dir IN
           /\ DirectiveWorkerInformed(Whole, x) <=> DirectiveWorkerInformed(Hydrate(i), x)
           /\ ConfirmsPlan(Whole, x) <=> ConfirmsPlan(Hydrate(i), x)
  <1> DEFINE h == Hydrate(i)
             x == i.event.dir
  <1>1. x \in DirectiveRefs(i) /\ x \in roots.dirs
    BY EventRead, RefsRead
  <1>2. DirectiveWorkerInformed(Whole, x) <=> DirectiveWorkerInformed(h, x)
    BY <1>1, InformedRead
  <1>3. HasDay(h, DirDef[x].day) <=> HasDay(Whole, DirDef[x].day)
    BY <1>1, RefsRead
  <1>4. LaterGoverningDirectiveExists(h, x) <=> LaterGoverningDirectiveExists(Whole, x)
    <2>1. NeedsStream(i) /\ Payload(i).dir = x
      BY DEF NeedsStream, Payload
    <2> QED
      BY <1>1, <2>1, GovernedRead
  <1> HIDE DEF h, x
  <1>5. ConfirmsPlan(Whole, x) <=> ConfirmsPlan(h, x)
    BY <1>3, <1>4 DEF ConfirmsPlan
  <1> QED
    BY <1>2, <1>5 DEF h, x

(* The updates of the addressed directive. *)
DirUpdated(s, x, w) == [s EXCEPT !.dir[x] = w]

LEMMA DirUpdates ==
    ASSUME NEW R, NEW s \in Scopes(R), NEW x \in Directives, NEW w \in DirState
    PROVE  DirUpdated(s, x, w) \in Scopes(R) /\ DirUpdated(Grown(s), x, w)
        = Grown(DirUpdated(s, x, w))
  <1>1. DirUpdated(s, x, w) \in Scopes(R)
    BY ScopeRoots DEF DirUpdated
  <1>2. Grown(s).dir = s.dir
    BY GrownFields
  <1> QED
    BY <1>1, <1>2 DEF DirUpdated, Grown

DirExcepted(w, id) == [w EXCEPT !.exception = id]
DirStopped(w, id) == [DirExcepted(w, id) EXCEPT !.stopInForce = TRUE]

Excepted(s, x, id) == [s EXCEPT !.dir[x].exception = id]
Stopped(s, x, id) == [Excepted(s, x, id) EXCEPT !.dir[x].stopInForce = TRUE]

LEMMA ExceptionIs ==
    ASSUME NEW R, NEW s \in Scopes(R), NEW x \in Directives, NEW id \in EventIds
    PROVE  /\ DirExcepted(s.dir[x], id) \in DirState /\ DirStopped(s.dir[x], id) \in DirState
           /\ Excepted(s, x, id) = DirUpdated(s, x, DirExcepted(s.dir[x], id))
           /\ Stopped(s, x, id) = DirUpdated(s, x, DirStopped(s.dir[x], id))
  <1>1. s.dir[x] \in DirState
    BY ScopeParts
  <1>2. DirExcepted(s.dir[x], id) \in DirState /\ DirStopped(s.dir[x], id) \in DirState
    BY <1>1, DirFields DEF DirExcepted, DirStopped
  <1>3. Excepted(s, x, id) = DirUpdated(s, x, DirExcepted(s.dir[x], id))
    BY DEF DirUpdated, Excepted, DirExcepted
  <1>4. Stopped(s, x, id) = DirUpdated(s, x, DirStopped(s.dir[x], id))
    BY DEF DirUpdated, Excepted, Stopped, Scopes, DirExcepted, DirStopped
  <1> QED
    BY <1>2, <1>3, <1>4

LEMMA ExceptionCarries ==
    ASSUME TypeOK, NEW R, NEW s \in Scopes(R), NEW e, e.dir \in Directives, e.id \in EventIds,
           HasTask(Grown(s), DirDef[e.dir].task) <=> HasTask(s, DirDef[e.dir].task)
    PROVE  Carries(WorkerActionException(s, e), WorkerActionException(Grown(s), e))
  <1> DEFINE x == e.dir
             t == DirDef[x].task
             excepted(n) == Excepted(n, x, e.id)
             stopped(n) == Stopped(n, x, e.id)
  <1>1. /\ Grown(s) \in Scopes(Ledger) /\ Grown(s).dir = s.dir
    BY GrownFields, GrownType
  <1>3. excepted(Grown(s)) = Grown(excepted(s))
    BY <1>1, ExceptionIs, DirUpdates
  <1>4. stopped(s) \in Scopes(R)
    BY ExceptionIs, DirUpdates
  <1>5. stopped(Grown(s)) = Grown(stopped(s))
    BY <1>1, ExceptionIs, DirUpdates
  <1>6. SafeHoldTask(stopped(Grown(s)), t, x) = Grown(SafeHoldTask(stopped(s), t, x))
    BY <1>4, <1>5, GrownTask
  <1>7. \A n : WorkerActionException(n, e) =
          IF e.reason \notin ActionExceptionReason
            THEN Refuse(n, "INVALID_ACTION_EXCEPTION_REASON")
          ELSE IF DirDef[x].type \notin {"ACTION_REQUIRED", "STOP_DIRECTIVE"}
            THEN Refuse(n, "DIRECTIVE_NOT_ACTION_OR_STOP")
          ELSE IF DirDef[x].class # "STOP"
            THEN Applied(excepted(n), <<"ACTION_REEVALUATION_REQUIRED">>)
          ELSE IF t = None THEN Refuse(n, "STOP_TASK_REQUIRED")
          ELSE IF ~HasTask(n, t) THEN Refuse(n, "UNKNOWN_STOP_TASK")
          ELSE Applied(SafeHoldTask(stopped(n), t, x), <<"SAFE_HOLD_ENTERED">>)
    BY Zenon DEF WorkerActionException, Excepted, Stopped
  <1> QED
    BY <1>3, <1>6, <1>7, PlainCarries

(* The day and the directive that a signal names. *)
LEMMA SignalRead ==
    ASSUME TypeOK, NEW i \in Inputs, ~IsEvent(i)
    PROVE  LET h == Hydrate(i) IN
           /\ HasDay(h, i.day) <=> HasDay(Whole, i.day)
           /\ HasDirective(h, i.dir) <=> HasDirective(Whole, i.dir)
           /\ HasDirective(h, i.dir) =>
                 /\ i.dir \in Directives
                 /\ SignalScopeErrors(h, i) = SignalScopeErrors(Whole, i)
                 /\ \A c : E1NotDue(h, i.dir, c) <=> E1NotDue(Whole, i.dir, c)
  <1> DEFINE h == Hydrate(i)
             x == i.dir
  <1>1. Payload(i) = i
    BY DEF Payload
  <1>2. /\ h.dirs = DirectiveRefs(i) /\ Whole.dirs = roots.dirs
        /\ h.dir = roots.dir /\ Whole.dir = roots.dir
        /\ h.days = ({i.day} \cup {DirDef[y].day : y \in DirectiveRefs(i)}) \cap roots.days
        /\ Whole.days = roots.days
    BY <1>1, HydrationParts
  <1>3. DirectiveRefs(i) \subseteq roots.dirs
    BY DEF DirectiveRefs, StopsFor
  <1>4. x \in roots.dirs => x \in DirectiveRefs(i)
    BY <1>1 DEF DirectiveRefs
  <1>5. /\ HasDay(h, i.day) <=> HasDay(Whole, i.day)
        /\ HasDirective(h, x) <=> HasDirective(Whole, x)
        /\ HasDirective(h, x) => x \in DirectiveRefs(i)
    BY <1>2, <1>3, <1>4 DEF HasDay, HasDirective
  <1>6. ASSUME x \in DirectiveRefs(i)
        PROVE  /\ x \in Directives
               /\ SignalScopeErrors(h, i) = SignalScopeErrors(Whole, i)
               /\ \A c : E1NotDue(h, x, c) <=> E1NotDue(Whole, x, c)
    <2>1. x \in Directives
      BY <1>6, RefsRead
    <2>2. DirectiveScopeErrors(h, x) = DirectiveScopeErrors(Whole, x)
      BY <1>6, ScopeErrorsRead
    <2>3. DirectiveWorkerInformed(h, x) <=> DirectiveWorkerInformed(Whole, x)
      BY <1>6, InformedRead
    <2> HIDE DEF h
    <2>4. SignalScopeErrors(h, i) = SignalScopeErrors(Whole, i)
      BY <2>2 DEF SignalScopeErrors
    <2>5. \A c : E1NotDue(h, x, c) <=> E1NotDue(Whole, x, c)
      <3> HIDE DEF x
      <3> QED
        BY <1>2, <2>3 DEF E1NotDue
    <2> QED
      BY <2>1, <2>4, <2>5
  <1> QED
    BY <1>5, <1>6

LEMMA SignalHandlersCarry ==
    ASSUME NEW R, NEW s \in Scopes(R), NEW g, NEW c,
           HasDay(Grown(s), g.day) <=> HasDay(s, g.day),
           HasDirective(Grown(s), g.dir) <=> HasDirective(s, g.dir),
           HasDirective(s, g.dir) =>
              /\ SignalScopeErrors(Grown(s), g) = SignalScopeErrors(s, g)
              /\ E1NotDue(Grown(s), g.dir, c) <=> E1NotDue(s, g.dir, c)
    PROVE  /\ Carries(StartWindowElapsed(s, g, c), StartWindowElapsed(Grown(s), g, c))
           /\ Carries(DirectiveE1Elapsed(s, g, c), DirectiveE1Elapsed(Grown(s), g, c))
           /\ Carries(EarlyFinishEvaluated(s, g, c), EarlyFinishEvaluated(Grown(s), g, c))
           /\ Carries(EndOfDayPolicySatisfied(s, g, c), EndOfDayPolicySatisfied(Grown(s), g, c))
  <1>1. Grown(s).day = s.day /\ Grown(s).dir = s.dir
    BY GrownFields
  <1>2. /\ [Grown(s) EXCEPT !.day[g.day].startEscalated = TRUE]
             = Grown([s EXCEPT !.day[g.day].startEscalated = TRUE])
        /\ [Grown(s) EXCEPT !.dir[g.dir].escalated = TRUE]
             = Grown([s EXCEPT !.dir[g.dir].escalated = TRUE])
    BY <1>1 DEF Grown
  <1>3. [Grown(s) EXCEPT !.day[g.day] = [@ EXCEPT !.status = "DAY_CLOSED", !.available = FALSE]]
          = Grown([s EXCEPT !.day[g.day] = [@ EXCEPT !.status = "DAY_CLOSED", !.available = FALSE]])
    BY <1>1 DEF Grown
  <1>4. Carries(StartWindowElapsed(s, g, c), StartWindowElapsed(Grown(s), g, c))
    BY <1>1, <1>2, PlainCarries DEF StartWindowElapsed
  <1>5. Carries(DirectiveE1Elapsed(s, g, c), DirectiveE1Elapsed(Grown(s), g, c))
    BY <1>2, PlainCarries, ResultCarries DEF DirectiveE1Elapsed
  <1>6. Carries(EarlyFinishEvaluated(s, g, c), EarlyFinishEvaluated(Grown(s), g, c))
    BY PlainCarries DEF EarlyFinishEvaluated
  <1>7. Carries(EndOfDayPolicySatisfied(s, g, c), EndOfDayPolicySatisfied(Grown(s), g, c))
    BY <1>1, <1>3, PlainCarries DEF EndOfDayPolicySatisfied
  <1> QED
    BY <1>4, <1>5, <1>6, <1>7

LEMMA SignalCarries ==
    ASSUME TypeOK, NEW i \in Inputs, ~IsEvent(i), NEW c
    PROVE  Carries(HandleSignal(Hydrate(i), i, c), HandleSignal(Whole, i, c))
  <1> DEFINE h == Hydrate(i)
             R == HydratedReceipts(i)
  <1>1. h \in Scopes(R) /\ Whole = Grown(h)
    BY HydrationParts
  <1>2. /\ HasDay(h, i.day) <=> HasDay(Whole, i.day)
        /\ HasDirective(h, i.dir) <=> HasDirective(Whole, i.dir)
        /\ HasDirective(h, i.dir) =>
              /\ SignalScopeErrors(h, i) = SignalScopeErrors(Whole, i)
              /\ E1NotDue(h, i.dir, c) <=> E1NotDue(Whole, i.dir, c)
    BY SignalRead
  <1>3. i.type \in SystemSignalType
    BY InputAssumption DEF InputAssumption, Inputs, IsEvent
  <1> HIDE DEF h, R
  <1>4. /\ Carries(StartWindowElapsed(h, i, c), StartWindowElapsed(Whole, i, c))
        /\ Carries(DirectiveE1Elapsed(h, i, c), DirectiveE1Elapsed(Whole, i, c))
        /\ Carries(EarlyFinishEvaluated(h, i, c), EarlyFinishEvaluated(Whole, i, c))
        /\ Carries(EndOfDayPolicySatisfied(h, i, c), EndOfDayPolicySatisfied(Whole, i, c))
        /\ Carries(Noop(h), Noop(Whole))
    BY <1>1, <1>2, SignalHandlersCarry, PlainCarries
  <1>5. Carries(HandleSignal(h, i, c), HandleSignal(Whole, i, c))
    BY <1>3, <1>4 DEF HandleSignal, SystemSignalType
  <1> QED
    BY <1>5 DEF h

(* An event that passes the reference checks. *)
LEMMA EventCarries ==
    ASSUME TypeOK, NEW i \in Inputs, IsEvent(i), NEW c,
           ReferenceErrors(Hydrate(i), i.event) = {}
    PROVE  Carries(HandleEvent(Hydrate(i), i.event, c), HandleEvent(Whole, i.event, c))
  <1> DEFINE h == Hydrate(i)
             R == HydratedReceipts(i)
             e == i.event
  <1>1. h \in Scopes(R) /\ Whole = Grown(h)
    BY HydrationParts
  <1>2. e \in FieldEvents
    BY EventKeys DEF FieldEvents
  <1>3. e.type \in FieldEventType
    BY <1>2, InputAssumption DEF InputAssumption
  <1>4. /\ e.type \in TaskAssignmentEvents => e.task \in Tasks /\ e.asg \in Assignments
        /\ e.type \in {"WORKER_ACKNOWLEDGED", "WORKER_ACTION_EXCEPTION"} => e.dir \in Directives
        /\ e.id \in EventIds
    BY <1>1, <1>2, CheckedReferences
  <1>5. /\ e.type \in TaskAssignmentEvents => e.job # None
        /\ e.dir # None => HasDirective(h, e.dir)
    <2>1. RequiredReferenceErrors(e) = {} /\ When(e.dir # None /\ ~HasDirective(h, e.dir), "UNKNOWN_DIRECTIVE") = {}
      BY DEF ReferenceErrors
    <2> QED
      BY <2>1 DEF RequiredReferenceErrors, When
  <1>6. CASE e.type \in CompletionEvents
    <2>1. e.task \in Tasks /\ e.job # None
      BY <1>4, <1>5, <1>6 DEF TaskAssignmentEvents
    <2>2. /\ CompletionBlockedByStop(Whole, e) <=> CompletionBlockedByStop(h, e)
          /\ HasUnresolvedUnsafeReport(Whole, e) <=> HasUnresolvedUnsafeReport(h, e)
      BY <1>6, <2>1, BlockedRead, UnsafeRead
    <2>3. \A s : HandleEvent(s, e, c) = CompletionReported(s, e)
      BY <1>6 DEF HandleEvent, CompletionEvents
    <2> HIDE DEF h, R, e
    <2> QED
      BY <1>1, <1>2, <2>1, <2>2, <2>3, CompletionCarries DEF h, e
  <1>7. CASE e.type \in {"DAY_PLAN_ACTIVATED", "START_DELAY_REPORTED", "START_EXCEPTION_REPORTED",
                         "UNAVAILABLE_TODAY_REPORTED", "DAY_CLOSE_REPORTED"}
    <2> HIDE DEF h, R, e
    <2> QED
      BY <1>1, <1>7, DayHandlersCarry DEF HandleEvent, CompletionEvents, h, e
  <1>8. CASE e.type \in {"WORK_START_BLOCKED", "RESOURCE_MISSING_REPORTED", "SCOPE_FACT_REPORTED",
                         "TECHNICAL_WAIT_REPORTED"}
    <2> HIDE DEF h, R, e
    <2> QED
      BY <1>1, <1>8, HoldHandlersCarry DEF HandleEvent, CompletionEvents, h, e
  <1>9. CASE e.type = "SITE_PROBLEM_REPORTED"
    <2>1. e.task \in Tasks
      BY <1>4, <1>9 DEF TaskAssignmentEvents
    <2> HIDE DEF h, R, e
    <2> QED
      BY <1>1, <1>2, <1>9, <2>1, SiteProblemCarries DEF HandleEvent, CompletionEvents, h, e
  <1>10. CASE e.type = "COMPLETION_DISPUTED"
    <2>1. (\E r \in Whole.receipts : DisputableBy(Whole, r, e))
             <=> (\E r \in h.receipts : DisputableBy(h, r, e))
      BY DisputableRead
    <2>2. \A s : HandleEvent(s, e, c) = CompletionDisputed(s, e)
      BY <1>10 DEF HandleEvent, CompletionEvents
    <2> HIDE DEF h, R, e
    <2> QED
      BY <1>1, <2>1, <2>2, DisputedCarries DEF h, e
  <1>11. e.dir # None /\ e.dir \in Directives => HasDirective(h, e.dir) /\ e.dir \in DirectiveRefs(i)
    BY <1>5, EventRead
  <1>12. None \notin Directives
    BY DefinitionAssumption DEF DefinitionAssumption
  <1>13. CASE e.type = "WORKER_ACKNOWLEDGED"
    <2>1. /\ DirectiveWorkerInformed(Whole, e.dir) <=> DirectiveWorkerInformed(h, e.dir)
          /\ ConfirmsPlan(Whole, e.dir) <=> ConfirmsPlan(h, e.dir)
      BY <1>4, <1>11, <1>12, <1>13, ConfirmsRead
    <2>2. \A s : HandleEvent(s, e, c) = WorkerAcknowledged(s, e)
      BY <1>13 DEF HandleEvent, CompletionEvents
    <2>3. e.dir \in Directives
      BY <1>4, <1>13
    <2> HIDE DEF h, R, e
    <2> QED
      BY <1>1, <1>4, <2>1, <2>2, <2>3, AcknowledgedCarries DEF h, e
  <1>14. CASE e.type = "WORKER_ACTION_EXCEPTION"
    <2>1. e.dir \in Directives
      BY <1>4, <1>14
    <2>2. HasTask(Whole, DirDef[e.dir].task) <=> HasTask(h, DirDef[e.dir].task)
      BY <1>11, <1>12, <2>1, RefsRead
    <2>3. \A s : HandleEvent(s, e, c) = WorkerActionException(s, e)
      BY <1>14 DEF HandleEvent, CompletionEvents
    <2> HIDE DEF h, R, e
    <2> QED
      BY <1>1, <1>4, <2>1, <2>2, <2>3, ExceptionCarries DEF h, e
  <1> QED
    BY <1>3, <1>6, <1>7, <1>8, <1>9, <1>10, <1>13, <1>14 DEF FieldEventType

-----------------------------------------------------------------------------
(* What is stored of the hydrated scope's reduction is what the reduction  *)
(* of the whole makes of the whole.                                        *)

(* A scope n with the rest put back and the receipts q added.              *)
Lodged(n, q) == [n EXCEPT !.jobs = roots.jobs, !.days = roots.days, !.dirs = roots.dirs,
                          !.receipts = Ledger \cup q]

Stores(v, w) == w = [v EXCEPT !.scope = Lodged(@, v.receipts)]

Shaped(v) == DOMAIN v = {"scope", "outcome", "effects", "missing", "reasons"}

LEMMA PlainShaped ==
    /\ \A n, o, f, m, reasons : Shaped(Result(n, o, f, m, reasons))
    /\ \A n, code : Shaped(Refuse(n, code))
    /\ \A n : Shaped(Noop(n))
    /\ \A n, f : Shaped(Applied(n, f))
  BY DEF Shaped, Result, Refuse, Noop, Applied

LEMMA EventShaped ==
    ASSUME NEW s, NEW e, NEW c, e.type \in FieldEventType
    PROVE  Shaped(HandleEvent(s, e, c))
  <1>1. /\ Shaped(DayPlanActivated(s, e)) /\ Shaped(StartDelayReported(s, e))
        /\ Shaped(StartExceptionReported(s, e)) /\ Shaped(UnavailableTodayReported(s, e))
        /\ Shaped(DayCloseReported(s, e))
    BY PlainShaped, Zenon DEF DayPlanActivated, StartDelayReported, StartExceptionReported,
                              UnavailableTodayReported, DayCloseReported
  <1>2. /\ Shaped(WorkStartBlocked(s, e)) /\ Shaped(ResourceMissingReported(s, e))
        /\ Shaped(ScopeFactReported(s, e)) /\ Shaped(TechnicalWaitReported(s, e))
    BY PlainShaped, Zenon DEF WorkStartBlocked, ResourceMissingReported, ScopeFactReported,
                              TechnicalWaitReported
  <1>3. Shaped(SiteProblemReported(s, e, c))
    BY PlainShaped, Zenon DEF SiteProblemReported
  <1>4. Shaped(CompletionReported(s, e)) /\ Shaped(CompletionDisputed(s, e))
    BY PlainShaped, Zenon DEF CompletionReported, GatedCompletion, CompletionDisputed
  <1>5. Shaped(WorkerAcknowledged(s, e)) /\ Shaped(WorkerActionException(s, e))
    BY PlainShaped, Zenon DEF WorkerAcknowledged, WorkerActionException
  <1> QED
    BY <1>1, <1>2, <1>3, <1>4, <1>5 DEF HandleEvent, FieldEventType, CompletionEvents

LEMMA SignalShaped ==
    ASSUME NEW s, NEW g, NEW c, g.type \in SystemSignalType
    PROVE  Shaped(HandleSignal(s, g, c))
  <1>1. /\ Shaped(StartWindowElapsed(s, g, c)) /\ Shaped(DirectiveE1Elapsed(s, g, c))
        /\ Shaped(EarlyFinishEvaluated(s, g, c)) /\ Shaped(EndOfDayPolicySatisfied(s, g, c))
        /\ Shaped(Noop(s))
    BY PlainShaped, Zenon DEF StartWindowElapsed, DirectiveE1Elapsed, EarlyFinishEvaluated,
                              EndOfDayPolicySatisfied
  <1> QED
    BY <1>1 DEF HandleSignal, SystemSignalType

WithReceipts(n, q) == [n EXCEPT !.receipts = @ \cup q]

LEMMA LodgedFields ==
    ASSUME NEW Q, NEW n \in Scopes(Q), NEW q
    PROVE  /\ Lodged(n, q).task = n.task /\ Lodged(n, q).stage = n.stage
           /\ Lodged(n, q).day = n.day /\ Lodged(n, q).dir = n.dir
           /\ Lodged(n, q).released = n.released /\ Lodged(n, q).jobRev = n.jobRev
  BY DEF Scopes, Lodged

LEMMA LodgedIs ==
    ASSUME NEW Q, NEW n \in Scopes(Q), NEW q
    PROVE  /\ WithReceipts(Grown(n), q) = Lodged(WithReceipts(n, q), q)
           /\ WithReceipts(n, q) \in Scopes(Q \cup q)
           /\ Lodged(n, {}) = Grown(n)
  <1>1. DOMAIN n = {"jobs", "days", "dirs", "task", "stage", "released", "jobRev", "day",
                    "dir", "receipts"}
    BY DEF Scopes
  <1>2. WithReceipts(Grown(n), q) = Lodged(WithReceipts(n, q), q)
    BY <1>1 DEF Lodged, Grown, WithReceipts
  <1>3. Lodged(n, {}) = Grown(n)
    BY <1>1 DEF Lodged, Grown
  <1>4. WithReceipts(n, q) \in Scopes(Q \cup q)
    BY DEF Scopes, WithReceipts
  <1> QED
    BY <1>2, <1>3, <1>4

(* A handler's result that carries over is stored alike, with its receipt. *)
LEMMA ReductionStores ==
    ASSUME NEW Q, NEW v, NEW w, v.scope \in Scopes(Q), Shaped(v), Carries(v, w),
           NEW q, NEW replayed
    PROVE  Stores(Reduction(v, q, replayed), Reduction(w, q, replayed))
  <1> DEFINE n == WithReceipts(v.scope, q)
  <1>1. /\ w.scope = Grown(v.scope) /\ w.outcome = v.outcome /\ w.effects = v.effects
        /\ w.missing = v.missing /\ w.reasons = v.reasons
    BY DEF Carries, Shaped
  <1>2. WithReceipts(Grown(v.scope), q) = Lodged(n, q)
    BY LodgedIs
  <1>3. Reduction(v, q, replayed) =
          [scope |-> n, outcome |-> v.outcome,
           emitted |-> IF replayed THEN <<>> ELSE v.effects,
           response |-> v.effects, missing |-> v.missing, reasons |-> v.reasons,
           receipts |-> q, replayed |-> replayed]
    BY Zenon DEF Reduction, WithReceipts
  <1>4. Reduction(w, q, replayed) =
          [scope |-> Lodged(n, q), outcome |-> v.outcome,
           emitted |-> IF replayed THEN <<>> ELSE v.effects,
           response |-> v.effects, missing |-> v.missing, reasons |-> v.reasons,
           receipts |-> q, replayed |-> replayed]
    <2>1. Reduction(w, q, replayed) =
            [scope |-> WithReceipts(w.scope, q), outcome |-> w.outcome,
             emitted |-> IF replayed THEN <<>> ELSE w.effects,
             response |-> w.effects, missing |-> w.missing, reasons |-> w.reasons,
             receipts |-> q, replayed |-> replayed]
      BY Zenon DEF Reduction, WithReceipts
    <2> HIDE DEF n
    <2> QED
      BY <1>1, <1>2, <2>1
  <1> HIDE DEF n
  <1> QED
    BY <1>3, <1>4 DEF Stores

(* Finalisation compares roots only. *)
LEMMA FinalizeStores ==
    ASSUME NEW R, NEW s \in Scopes(R), NEW Q, NEW n \in Scopes(Q), NEW q
    PROVE  FinalizeScope(Grown(s), Lodged(n, q)) = Lodged(FinalizeScope(s, n), q)
  <1> DEFINE jobRev == [j \in Jobs |-> IF JobChanged(s, n, j)
                                       THEN n.jobRev[j] + 1 ELSE n.jobRev[j]]
             day == [d \in PlanDays |-> IF n.day[d] # s.day[d]
                                        THEN [n.day[d] EXCEPT !.rev = @ + 1] ELSE n.day[d]]
             dir == [x \in Directives |-> IF n.dir[x] # s.dir[x]
                                          THEN [n.dir[x] EXCEPT !.rev = @ + 1] ELSE n.dir[x]]
             g == Grown(s)
             m == Lodged(n, q)
  <1>1. /\ g.task = s.task /\ g.stage = s.stage /\ g.day = s.day /\ g.dir = s.dir
        /\ g.released = s.released
    BY GrownFields
  <1>2. /\ m.task = n.task /\ m.stage = n.stage /\ m.day = n.day /\ m.dir = n.dir
        /\ m.released = n.released /\ m.jobRev = n.jobRev
    BY LodgedFields
  <1>3. FinalizeScope(s, n) = [n EXCEPT !.jobRev = jobRev, !.day = day, !.dir = dir]
    BY DEF FinalizeScope
  <1> HIDE DEF g, m
  <1>4. \A j \in Jobs : JobChanged(g, m, j) <=> JobChanged(s, n, j)
    BY <1>1, <1>2 DEF JobChanged
  <1>5. FinalizeScope(g, m) = [m EXCEPT !.jobRev = jobRev, !.day = day, !.dir = dir]
    <2>1. jobRev = [j \in Jobs |-> IF JobChanged(g, m, j)
                                   THEN m.jobRev[j] + 1 ELSE m.jobRev[j]]
      BY <1>2, <1>4
    <2>2. day = [d \in PlanDays |-> IF m.day[d] # g.day[d]
                                    THEN [m.day[d] EXCEPT !.rev = @ + 1] ELSE m.day[d]]
      BY <1>1, <1>2, Zenon
    <2>3. dir = [x \in Directives |-> IF m.dir[x] # g.dir[x]
                                      THEN [m.dir[x] EXCEPT !.rev = @ + 1] ELSE m.dir[x]]
      BY <1>1, <1>2, Zenon
    <2> HIDE DEF jobRev, day, dir
    <2> QED
      BY <2>1, <2>2, <2>3, Zenon DEF FinalizeScope
  <1> HIDE DEF jobRev, day, dir
  <1>6. [Lodged(n, q) EXCEPT !.jobRev = jobRev, !.day = day, !.dir = dir]
          = Lodged([n EXCEPT !.jobRev = jobRev, !.day = day, !.dir = dir], q)
    <2>1. DOMAIN n = {"jobs", "days", "dirs", "task", "stage", "released", "jobRev", "day",
                      "dir", "receipts"}
      BY DEF Scopes
    <2> QED
      BY <2>1 DEF Lodged
  <1> QED
    BY <1>3, <1>5, <1>6 DEF g, m

(* A receipt is stored for both reductions alike. *)
LEMMA FinishStores ==
    ASSUME NEW Q, NEW v, NEW w, v.scope \in Scopes(Q), Shaped(v), Carries(v, w), NEW i
    PROVE  Stores(FinishEvent(v, i), FinishEvent(w, i))
  <1>1. /\ w.outcome = v.outcome /\ w.effects = v.effects
        /\ w.missing = v.missing /\ w.reasons = v.reasons
    BY DEF Carries, Shaped
  <1> DEFINE q == [event |-> i.event, sid |-> i.sid, outcome |-> v.outcome,
                   response |-> v.effects, missing |-> v.missing, reasons |-> v.reasons]
  <1>2. FinishEvent(v, i) = Reduction(v, {q}, FALSE)
    BY Zenon DEF FinishEvent
  <1>3. FinishEvent(w, i) = Reduction(w, {q}, FALSE)
    BY <1>1, Zenon DEF FinishEvent
  <1> HIDE DEF q
  <1> QED
    BY <1>2, <1>3, ReductionStores

Reduced(d) == DOMAIN d = {"scope", "outcome", "emitted", "response", "missing", "reasons",
                          "receipts", "replayed"}

LEMMA ReductionShaped ==
    ASSUME NEW s, NEW i, NEW c
    PROVE  /\ Reduced(RawReduction(s, i, c)) /\ Reduced(Reduce(s, i, c))
           /\ Reduced(NormalizeReduction(i, Reduce(s, i, c)))
  <1>1. Reduced(RawReduction(s, i, c))
    BY
       DEF RawReduction, ReduceFieldEvent, Replay, RejectEvent, FinishEvent, Reduction,
           Reduced
  <1>2. Reduced(Reduce(s, i, c))
    BY <1>1 DEF Reduce, Reduced
  <1>3. \A v : Reduced(FinishEvent(v, i))
    BY DEF FinishEvent, Reduction, Reduced
  <1> QED
    BY <1>1, <1>2, <1>3, Zenon DEF NormalizeReduction

(* A pending row's input is reduced alike before finalisation.             *)
LEMMA RawStores ==
    ASSUME Inv, Registered, UsesRecorded,
           NEW k \in KnownKeys, inbox[k].status = "RECEIVED", inbox[k].owner = None,
           ~MisjudgesEvidence(inbox[k].input)
    PROVE  LET i == inbox[k].input
               c == inbox[k].ctx
           IN  Stores(RawReduction(Hydrate(i), i, c), RawReduction(Whole, i, c))
  <1> DEFINE i == inbox[k].input
             c == inbox[k].ctx
             h == Hydrate(i)
             R == HydratedReceipts(i)
  <1>1. i \in Inputs /\ TypeOK
    BY DEF Inv, TypeOK
  <1>2. h \in Scopes(R) /\ Whole = Grown(h) /\ Whole.receipts = Ledger /\ h.receipts = R /\ R \subseteq Ledger
    BY <1>1, HydrationParts, HydrateGood
  <1>3. CASE ~c.ruleSupported
    <2>1. \A s : RawReduction(s, i, c)
              = Reduction(Refuse(s, "UNSUPPORTED_RULE_VERSION"), {}, FALSE)
      BY <1>3, Zenon DEF RawReduction
    <2>2. Refuse(h, "UNSUPPORTED_RULE_VERSION").scope = h
      BY DEF Refuse, Result
    <2> HIDE DEF h, R, i, c
    <2>3. /\ Carries(Refuse(h, "UNSUPPORTED_RULE_VERSION"), Refuse(Whole, "UNSUPPORTED_RULE_VERSION"))
          /\ Shaped(Refuse(h, "UNSUPPORTED_RULE_VERSION"))
      BY <1>2, PlainCarries, PlainShaped
    <2>4. Stores(RawReduction(h, i, c), RawReduction(Whole, i, c))
      BY <1>2, <2>1, <2>2, <2>3, ReductionStores
    <2> QED
      BY <2>4 DEF h, i, c
  <1>4. CASE c.ruleSupported /\ IsEvent(i)
    <2>1. i \in FieldInputs /\ i.event \in FieldEvents
      BY <1>1, <1>4, EventKeys DEF FieldEvents
    <2>2. \A q \in Ledger : q.event.id # i.event.id /\ q.sid # i.sid
      BY <1>4, PendingIsFresh
    <2>3. ASSUME NEW s, s.receipts \subseteq Ledger
          PROVE  RawReduction(s, i, c) =
                   IF ReferenceErrors(s, i.event) # {}
                   THEN RejectEvent(s, i, ReferenceErrors(s, i.event))
                   ELSE FinishEvent(HandleEvent(s, i.event, c), i)
      <3>1. {r \in s.receipts : r.event.id = i.event.id} = {}
        BY <2>2, <2>3
      <3>2. ~\E r \in s.receipts : r.sid = i.sid
        BY <2>2, <2>3
      <3> HIDE DEF i, c
      <3>3. ReduceFieldEvent(s, i, c) =
              IF ReferenceErrors(s, i.event) # {}
              THEN RejectEvent(s, i, ReferenceErrors(s, i.event))
              ELSE FinishEvent(HandleEvent(s, i.event, c), i)
        BY <3>1, <3>2 DEF ReduceFieldEvent
      <3> QED
        BY <1>4, <3>3 DEF RawReduction, IsEvent
    <2>4. ReferenceErrors(h, i.event) = ReferenceErrors(Whole, i.event)
      BY <1>1, <1>4, JudgedOrMisjudged, ReferencesRead DEF Registered
    <2>5. CASE ReferenceErrors(h, i.event) # {}
      <3> DEFINE errors == ReferenceErrors(h, i.event)
                 v(s) == Result(s, "REJECTED", CompletionRejectionEffects(i.event), {}, errors)
      <3>1. \A s : RejectEvent(s, i, errors) = FinishEvent(v(s), i)
        BY Zenon DEF RejectEvent
      <3>2. v(h).scope = h
        BY DEF Result
      <3>3. Carries(v(h), v(Grown(h))) /\ Shaped(v(h))
        BY ResultCarries, PlainShaped
      <3>4. /\ RawReduction(h, i, c) = RejectEvent(h, i, errors)
            /\ RawReduction(Whole, i, c) = RejectEvent(Whole, i, errors)
        <4> HIDE DEF h, R, i, c
        <4> QED
          BY <1>2, <2>3, <2>4, <2>5
      <3> HIDE DEF v, errors, h, R, i, c
      <3>5. Stores(RawReduction(h, i, c), RawReduction(Whole, i, c))
        BY <1>2, <3>1, <3>2, <3>3, <3>4, FinishStores
      <3> QED
        BY <3>5 DEF h, i, c
    <2>6. CASE ReferenceErrors(h, i.event) = {}
      <3>1. Carries(HandleEvent(h, i.event, c), HandleEvent(Whole, i.event, c))
        BY <1>1, <1>4, <2>6, EventCarries
      <3>2. HandleEvent(h, i.event, c).scope \in Scopes(R)
        BY <1>2, <2>1, <2>6, HandleEventGood DEF GoodResult
      <3>3. Shaped(HandleEvent(h, i.event, c))
        <4>1. i.event.type \in FieldEventType
          BY <2>1, InputAssumption DEF InputAssumption
        <4> QED
          BY <4>1, EventShaped
      <3> HIDE DEF h, R, i, c
      <3>4. /\ RawReduction(h, i, c) = FinishEvent(HandleEvent(h, i.event, c), i)
            /\ RawReduction(Whole, i, c) = FinishEvent(HandleEvent(Whole, i.event, c), i)
        BY <1>2, <2>3, <2>4, <2>6
      <3>5. Stores(RawReduction(h, i, c), RawReduction(Whole, i, c))
        BY <3>1, <3>2, <3>3, <3>4, FinishStores
      <3> QED
        BY <3>5 DEF h, i, c
    <2> QED
      BY <2>5, <2>6
  <1>5. CASE c.ruleSupported /\ ~IsEvent(i)
    <2>1. i \in Signals /\ i.type \in SystemSignalType
      BY <1>1, <1>5, InputAssumption DEF InputAssumption, Inputs, IsEvent
    <2>2. \A s : RawReduction(s, i, c) = Reduction(HandleSignal(s, i, c), {}, FALSE)
      BY <1>5, Zenon DEF RawReduction, IsEvent
    <2>3. Carries(HandleSignal(h, i, c), HandleSignal(Whole, i, c))
      BY <1>1, <1>5, SignalCarries
    <2>4. HandleSignal(h, i, c).scope \in Scopes(R)
      BY <1>2, <2>1, HandleSignalGood DEF GoodResult
    <2>5. Shaped(HandleSignal(h, i, c))
      BY <2>1, SignalShaped
    <2> HIDE DEF h, R, i, c
    <2>6. Stores(RawReduction(h, i, c), RawReduction(Whole, i, c))
      BY <2>2, <2>3, <2>4, <2>5, ReductionStores
    <2> QED
      BY <2>6 DEF h, i, c
  <1> QED
    BY <1>3, <1>4, <1>5

(* What process_input commits is what the atomic service would.            *)
LEMMA PendingStores ==
    ASSUME Inv, Registered, UsesRecorded,
           NEW k \in KnownKeys, inbox[k].status = "RECEIVED", inbox[k].owner = None,
           ~MisjudgesEvidence(inbox[k].input)
    PROVE  LET i == inbox[k].input
               c == inbox[k].ctx
           IN  Stores(DurableReduction(inbox[k]), NormalizeReduction(i, Reduce(Whole, i, c)))
  <1> DEFINE i == inbox[k].input
             c == inbox[k].ctx
             h == Hydrate(i)
             R == HydratedReceipts(i)
             v == RawReduction(h, i, c)
             w == RawReduction(Whole, i, c)
             d == Reduce(h, i, c)
             g == Reduce(Whole, i, c)
  <1>1. i \in Inputs /\ TypeOK
    BY DEF Inv, TypeOK
  <1>2. /\ h \in Scopes(R) /\ Whole = Grown(h) /\ h.receipts = R
        /\ \A q \in R : ReceiptType(q)
    BY <1>1, HydrationParts, HydrateGood
  <1>3. Stores(v, w)
    BY RawStores
  <1>4. DOMAIN v = {"scope", "outcome", "emitted", "response", "missing", "reasons",
                    "receipts", "replayed"}
    BY ReductionShaped DEF Reduced
  <1>5. d = [v EXCEPT !.scope = FinalizeScope(h, @)] /\ g = [w EXCEPT !.scope = FinalizeScope(Whole, @)]
    BY DEF Reduce
  <1>6. GoodReduction(R, h, d)
    BY <1>1, <1>2, ReduceGood DEF Inputs
  <1>7. DurableReduction(inbox[k]) = NormalizeReduction(i, d)
    BY DEF DurableReduction
  <1>8. v.scope \in Scopes(R \cup v.receipts)
    BY <1>1, <1>2, RawGood DEF Inputs, GoodReduction
  <1> HIDE DEF v, w
  <1>9. w.scope = Lodged(v.scope, v.receipts) /\ w.receipts = v.receipts
    BY <1>3, <1>4 DEF Stores
  <1>10. /\ FinalizeScope(Whole, w.scope) = Lodged(FinalizeScope(h, v.scope), v.receipts)
    <2> HIDE DEF h, R
    <2> QED
      BY <1>2, <1>8, <1>9, FinalizeStores
  <1>11. Stores(d, g)
    <2> DEFINE n == FinalizeScope(h, v.scope)
               m == FinalizeScope(Whole, w.scope)
    <2>1. d = [v EXCEPT !.scope = n] /\ g = [w EXCEPT !.scope = m]
      BY <1>5
    <2> HIDE DEF n, m, d, g
    <2>2. w = [v EXCEPT !.scope = Lodged(@, v.receipts)]
      BY <1>3 DEF Stores
    <2>3. d.scope = n /\ d.receipts = v.receipts
      BY <1>4, <2>1
    <2>4. g = [d EXCEPT !.scope = m]
      BY <1>4, <2>1, <2>2
    <2>5. m = Lodged(n, v.receipts)
      BY <1>10 DEF n, m
    <2> QED
      BY <2>3, <2>4, <2>5 DEF Stores
  <1>12. DOMAIN d = DOMAIN v
    BY <1>5
  <1> HIDE DEF d, g
  <1>13. Stores(NormalizeReduction(i, d), NormalizeReduction(i, g))
    <2>1. /\ g.scope = Lodged(d.scope, d.receipts) /\ g.receipts = d.receipts
          /\ g.reasons = d.reasons
      BY <1>4, <1>11, <1>12 DEF Stores
    <2>2. CASE /\ i.kind = "FIELD_EVENT" /\ d.receipts = {}
               /\ d.reasons = {"UNSUPPORTED_RULE_VERSION"}
      <3> DEFINE x == Refuse(d.scope, "UNSUPPORTED_RULE_VERSION")
                 y == Refuse(g.scope, "UNSUPPORTED_RULE_VERSION")
      <3>1. d.scope \in Scopes(R)
        <4>1. R \cup d.receipts = R
          BY <2>2
        <4> QED
          BY <1>6, <4>1 DEF GoodReduction
      <3>2. g.scope = Grown(d.scope)
        BY <2>1, <2>2, <3>1, LodgedIs
      <3>3. Carries(x, y) /\ Shaped(x)
        BY <3>2, PlainCarries, PlainShaped
      <3>4. x.scope = d.scope
        BY DEF Refuse, Result
      <3> HIDE DEF x, y
      <3>5. Stores(FinishEvent(x, i), FinishEvent(y, i))
        BY <3>1, <3>3, <3>4, FinishStores
      <3>6. NormalizeReduction(i, d) = FinishEvent(x, i) /\ NormalizeReduction(i, g) = FinishEvent(y, i)
        BY <2>1, <2>2, Zenon DEF NormalizeReduction, x, y
      <3> QED
        BY <3>5, <3>6
    <2>3. CASE ~(/\ i.kind = "FIELD_EVENT" /\ d.receipts = {}
                 /\ d.reasons = {"UNSUPPORTED_RULE_VERSION"})
      <3>1. NormalizeReduction(i, d) = d /\ NormalizeReduction(i, g) = g
        BY <2>1, <2>3, Zenon DEF NormalizeReduction
      <3> QED
        BY <1>11, <3>1
    <2> QED
      BY <2>2, <2>3
  <1> QED
    BY <1>7, <1>13 DEF g

(* Completing a row adds its receipts to the ledger, and nothing else.     *)
LEMMA CompleteLedger ==
    ASSUME Inv, NEW c \in Clients, Pending(c), NEW r, NEW receipts, NEW readable,
           CompleteInbox(c, r, receipts, readable)
    PROVE  Ledger' = Ledger \cup receipts
  <1>0. PICK k : k = session[c]
    OBVIOUS
  <1> DEFINE row == [inbox[k] EXCEPT !.status = "COMPLETED", !.result = ResultOf(r),
                                     !.receipts = receipts, !.readable = readable]
  <1>1. k \in KnownKeys /\ inbox[k].status = "RECEIVED"
    BY <1>0 DEF Pending, Inv, TypeOK
  <1>2. inbox[k].receipts = {} /\ "receipts" \in DOMAIN inbox[k]
    BY <1>1 DEF Inv, Stored, RowOK
  <1>3. inbox' = [inbox EXCEPT ![k] = row]
    BY <1>0 DEF CompleteInbox
  <1>4. row.receipts = receipts
    BY <1>2
  <1> HIDE DEF row
  <1>5. /\ DOMAIN inbox' = DOMAIN inbox /\ inbox'[k].receipts = receipts
        /\ \A l \in DOMAIN inbox : l # k => inbox'[l] = inbox[l]
    BY <1>1, <1>3, <1>4 DEF KnownKeys
  <1>6. Ledger = UNION {inbox[l].receipts : l \in DOMAIN inbox}
    BY DEF Ledger, Rows, KnownKeys
  <1>7. Ledger' = UNION {inbox'[l].receipts : l \in DOMAIN inbox'}
    BY DEF Ledger, Rows, KnownKeys
  <1> QED
    BY <1>1, <1>2, <1>5, <1>6, <1>7 DEF KnownKeys

(* A new row brings no receipt.                                            *)
LEMMA AcceptLedger ==
    ASSUME NEW c, NEW i, NEW x, AcceptNew(c, i, x)
    PROVE  Ledger' = Ledger
  <1>0. PICK n, owner : n = Key(i) /\ owner = ClaimOwner(i)
    OBVIOUS
  <1> DEFINE row == [input |-> i, ctx |-> x, owner |-> owner, status |-> "RECEIVED",
                     result |-> None, receipts |-> {}, readable |-> TRUE]
  <1>1. /\ inbox' = [k \in DOMAIN inbox \cup {n} |-> IF k = n THEN row ELSE inbox[k]]
        /\ n \notin DOMAIN inbox
    BY <1>0 DEF AcceptNew, KnownKeys
  <1>2. row.receipts = {}
    OBVIOUS
  <1> HIDE DEF row
  <1>3. /\ DOMAIN inbox' = DOMAIN inbox \cup {n} /\ inbox'[n].receipts = {}
        /\ \A l \in DOMAIN inbox : inbox'[l] = inbox[l]
    BY <1>1, <1>2
  <1>4. Ledger = UNION {inbox[l].receipts : l \in DOMAIN inbox}
    BY DEF Ledger, Rows, KnownKeys
  <1>5. Ledger' = UNION {inbox'[l].receipts : l \in DOMAIN inbox'}
    BY DEF Ledger, Rows, KnownKeys
  <1> QED
    BY <1>3, <1>4, <1>5

(* The step of the atomic service behind the commit of a reduction.        *)
LEMMA ProcessWhole ==
    ASSUME Inv, Registered, UsesRecorded, NEW c \in Clients, ProcessReduction(c),
           ~MisjudgesEvidence(inbox[session[c]].input)
    PROVE  \E i \in Inputs, x \in Contexts :
              LET r == NormalizeReduction(i, Reduce(Whole, i, x)) IN
              /\ Whole' = r.scope /\ outbox' = outbox \cup Emissions(Key(i), r.emitted)
              /\ IsEvent(i) => \A q \in Ledger : q.event.id # i.event.id /\ q.sid # i.sid
  <1> DEFINE k == session[c]
             i == inbox[k].input
             s == Hydrate(i)
             d == DurableReduction(inbox[k])
             r == NormalizeReduction(i, Reduce(Whole, i, inbox[k].ctx))
  <1>1. Pending(c) /\ inbox[k].owner = None
    BY DEF ProcessReduction
  <1>2. k \in KnownKeys /\ inbox[k].status = "RECEIVED"
    BY <1>1 DEF Pending, Inv, TypeOK
  <1>3. i \in Inputs /\ inbox[k].ctx \in Contexts
    BY <1>2 DEF Inv, TypeOK
  <1>4. d.scope \in Scopes(HydratedReceipts(i) \cup d.receipts)
    BY <1>1, <1>2, DurableReductionGood
  <1>5. /\ roots' = [d.scope EXCEPT !.jobs = roots.jobs, !.days = roots.days,
                                    !.dirs = roots.dirs, !.receipts = {}]
        /\ outbox' = outbox \cup Emissions(Key(i), d.emitted)
        /\ CompleteInbox(c, d, d.receipts, ProofReadable(i, s))
    BY DEF ProcessReduction, CommitReduction
  <1>6. Stores(d, r)
    BY <1>1, <1>2, PendingStores
  <1>7. Ledger' = Ledger \cup d.receipts
    BY <1>1, <1>5, CompleteLedger
  <1>8. IsEvent(i) => \A q \in Ledger : q.event.id # i.event.id /\ q.sid # i.sid
    BY <1>1, <1>2, PendingIsFresh
  <1>9. DOMAIN d = {"scope", "outcome", "emitted", "response", "missing", "reasons",
                    "receipts", "replayed"}
    BY ReductionShaped DEF DurableReduction, Reduced
  <1>10. PICK j, x : j = i /\ x = inbox[k].ctx
    OBVIOUS
  <1>11. r = NormalizeReduction(j, Reduce(Whole, j, x))
    BY <1>10
  <1> HIDE DEF d, r, i, k, s
  <1>12. r.scope = Lodged(d.scope, d.receipts) /\ r.emitted = d.emitted
    BY <1>6, <1>9 DEF Stores
  <1>13. Whole' = Lodged(d.scope, d.receipts)
    <2>1. DOMAIN d.scope
              = {"jobs", "days", "dirs", "task", "stage", "released", "jobRev", "day",
                            "dir", "receipts"}
      BY <1>4 DEF Scopes
    <2>2. Whole' = [roots' EXCEPT !.receipts = Ledger']
      BY DEF Whole
    <2> QED
      BY <1>5, <1>7, <2>1, <2>2 DEF Lodged
  <1> QED
    BY <1>3, <1>5, <1>8, <1>10, <1>11, <1>12, <1>13

(* The uses of evidence are recorded with the receipt. *)
LEMMA InitUses == Init => UsesRecorded
  BY DEF Init, UsesRecorded, Ledger, Rows, KnownKeys

LEMMA ProcessUses ==
    ASSUME Inv, UsesRecorded, NEW c \in Clients, ProcessReduction(c)
    PROVE  UsesRecorded'
  <1> DEFINE k == session[c]
             i == inbox[k].input
             s == Hydrate(i)
             d == DurableReduction(inbox[k])
  <1>1. Pending(c) /\ inbox[k].owner = None
    BY DEF ProcessReduction
  <1>2. k \in KnownKeys /\ inbox[k].status = "RECEIVED"
    BY <1>1 DEF Pending, Inv, TypeOK
  <1>3. \/ d.receipts = {}
        \/ \E q : d.receipts = {q} /\ Records(q, i, ResultOf(d))
    BY <1>1, <1>2, DurableReductionGood
  <1>4. /\ PersistEvidence(s, d.receipts) /\ ~StorageError(i, s, d)
        /\ CompleteInbox(c, d, d.receipts, ProofReadable(i, s))
    BY DEF ProcessReduction, CommitReduction
  <1>5. Ledger' = Ledger \cup d.receipts
    BY <1>1, <1>4, CompleteLedger
  <1>6. usages \subseteq usages'
    BY <1>4 DEF PersistEvidence
  <1> HIDE DEF d, i, k, s
  <1>7. ASSUME NEW q \in d.receipts, q.outcome # "REJECTED"
        PROVE  /\ \A v \in q.event.attachments : <<q.event.id, v.id>> \in usages'
               /\ q.event.attachments # {} /\ q.event.job = None
                     => q.event.task = None /\ q.event.asg = None
    <2>1. q.event = i.event /\ d.outcome = q.outcome
      BY <1>3, <1>7 DEF Records, ResultOf
    <2>2. /\ EvidenceScopeCanonical(s, q.event)
          /\ \A v \in q.event.attachments : ~EvidenceTaken(v, q.event)
      BY <1>4, <1>7, <2>1 DEF StorageError
    <2>3. \A v \in q.event.attachments : <<q.event.id, v.id>> \in usages'
      BY <1>4, <2>2 DEF PersistEvidence
    <2>4. ASSUME q.event.attachments # {}, q.event.job = None
          PROVE  q.event.task = None /\ q.event.asg = None
      BY <2>2, <2>4, DefinitionAssumption
         DEF DefinitionAssumption, EvidenceScopeCanonical, HasTask, HasAssignment
    <2> QED
      BY <2>3, <2>4
  <1> QED
    BY <1>5, <1>6, <1>7 DEF UsesRecorded

LEMMA NextUses == Inv /\ UsesRecorded /\ [Next]_vars => UsesRecorded'
  <1> SUFFICES ASSUME Inv, UsesRecorded, [Next]_vars PROVE UsesRecorded'
    OBVIOUS
  <1>1. CASE \E c \in Clients : ProcessReduction(c)
    BY <1>1, ProcessUses
  <1>2. CASE Ledger' = Ledger /\ usages' = usages
    BY <1>2 DEF UsesRecorded
  <1>3. CASE inbox' = inbox /\ usages' = usages
    BY <1>2, <1>3 DEF Ledger, Rows, KnownKeys
  <1>4. CASE \E c \in Clients, i \in Inputs, x \in Contexts : AcceptNew(c, i, x)
    <2>1. Ledger' = Ledger /\ usages' = usages
      BY <1>4, AcceptLedger DEF AcceptNew
    <2> QED
      BY <1>2, <2>1
  <1>5. CASE \E c \in Clients : ProcessCollision(c)
    <2>1. PICK c \in Clients : ProcessCollision(c)
      BY <1>5
    <2>2. PICK r, receipts, readable : /\ Pending(c) /\ receipts = {}
                                       /\ CompleteInbox(c, r, receipts, readable)
      BY <2>1, Zenon DEF ProcessCollision
    <2>3. Ledger' = Ledger
      BY <2>2, CompleteLedger
    <2>4. usages' = usages
      BY <2>1 DEF ProcessCollision
    <2> QED
      BY <1>2, <2>3, <2>4
  <1>6. \/ \E c \in Clients : ProcessReduction(c)
        \/ \E c \in Clients, i \in Inputs, x \in Contexts : AcceptNew(c, i, x)
        \/ \E c \in Clients : ProcessCollision(c)
        \/ inbox' = inbox /\ usages' = usages
    BY DEF Next, ProcessInput, AcceptPending, AcceptConflict, AcceptCompleted,
           ProcessCompleted, ProcessRolledBack, Crash, vars, stored,
           CreatePlanDayRoot, CreateJobExecutionRoot, CreateDirectiveRoot
  <1> QED
    BY <1>1, <1>3, <1>4, <1>5, <1>6

-----------------------------------------------------------------------------
(* The service is an instance of the same reducer: every operator of the   *)
(* instance is the operator that the repository calls.                     *)

(* The sets and tables of the domain.                                       *)
LEMMA ServiceSets ==
    /\ Service!DelayReason = DelayReason
    /\ Service!StartExceptionReason = StartExceptionReason
    /\ Service!WorkStartBlockedReason = WorkStartBlockedReason
    /\ Service!ResourceKind = ResourceKind
    /\ Service!UnavailableReason = UnavailableReason
    /\ Service!ActionExceptionReason = ActionExceptionReason
    /\ Service!CompletionEvents = CompletionEvents
    /\ Service!PlanEvents = PlanEvents
    /\ Service!TaskAssignmentEvents = TaskAssignmentEvents
    /\ Service!ExpectedType = ExpectedType
  <1>1. Service!DelayReason = DelayReason
    BY Zenon DEF Service!DelayReason, DelayReason
  <1>2. Service!StartExceptionReason = StartExceptionReason
    BY Zenon DEF Service!StartExceptionReason, StartExceptionReason
  <1>3. Service!WorkStartBlockedReason = WorkStartBlockedReason
    BY Zenon DEF Service!WorkStartBlockedReason, WorkStartBlockedReason
  <1>4. Service!ResourceKind = ResourceKind
    BY Zenon DEF Service!ResourceKind, ResourceKind
  <1>5. Service!UnavailableReason = UnavailableReason
    BY Zenon DEF Service!UnavailableReason, UnavailableReason
  <1>6. Service!ActionExceptionReason = ActionExceptionReason
    BY Zenon DEF Service!ActionExceptionReason, ActionExceptionReason
  <1>7. Service!CompletionEvents = CompletionEvents
    BY Zenon DEF Service!CompletionEvents, CompletionEvents
  <1>8. Service!PlanEvents = PlanEvents
    BY Zenon DEF Service!PlanEvents, PlanEvents
  <1>9. Service!TaskAssignmentEvents = TaskAssignmentEvents
    BY <1>7, Zenon DEF Service!TaskAssignmentEvents, TaskAssignmentEvents
  <1>10. Service!ExpectedType = ExpectedType
    BY Zenon DEF Service!ExpectedType, ExpectedType
  <1> QED
    BY <1>1, <1>2, <1>3, <1>4, <1>5, <1>6, <1>7, <1>8, <1>9, <1>10

(* Lookups in a scope.                                                      *)
LEMMA ServiceLookups ==
    /\ \A s, t : Service!HasTask(s, t) = HasTask(s, t)
    /\ \A s, a : Service!HasAssignment(s, a) = HasAssignment(s, a)
    /\ \A s, d : Service!HasDay(s, d) = HasDay(s, d)
    /\ \A s, x : Service!HasDirective(s, x) = HasDirective(s, x)
    /\ \A x : Service!StreamKey(x) = StreamKey(x)
    /\ \A failed, code : Service!When(failed, code) = When(failed, code)
  <1>1. \A s, t : Service!HasTask(s, t) = HasTask(s, t)
    BY Zenon DEF Service!HasTask, HasTask
  <1>2. \A s, a : Service!HasAssignment(s, a) = HasAssignment(s, a)
    BY DEF Service!HasAssignment, HasAssignment
  <1>3. \A s, d : Service!HasDay(s, d) = HasDay(s, d)
    BY Zenon DEF Service!HasDay, HasDay
  <1>4. \A s, x : Service!HasDirective(s, x) = HasDirective(s, x)
    BY Zenon DEF Service!HasDirective, HasDirective
  <1>5. \A x : Service!StreamKey(x) = StreamKey(x)
    BY Zenon DEF Service!StreamKey, StreamKey
  <1>6. \A failed, code : Service!When(failed, code) = When(failed, code)
    BY Zenon DEF Service!When, When
  <1> QED
    BY <1>1, <1>2, <1>3, <1>4, <1>5, <1>6

(* Counting means the same in both.                                         *)
LEMMA ServiceCardinality == \A S : Service!Cardinality(S) = Cardinality(S)
  BY Zenon DEF Service!Cardinality, Cardinality

(* The judgement of a directive.                                            *)
LEMMA ServiceDirectives ==
    /\ \A s, x : Service!DirectiveScopeErrors(s, x) = DirectiveScopeErrors(s, x)
    /\ \A s, x : Service!DirectiveWorkerInformed(s, x) = DirectiveWorkerInformed(s, x)
    /\ \A s, x : Service!LaterGoverningDirectiveExists(s, x)
           = LaterGoverningDirectiveExists(s, x)
  <1>1. \A x : Service!AssignmentScopeErrors(x) = AssignmentScopeErrors(x)
    BY ServiceLookups, Zenon DEF Service!AssignmentScopeErrors, AssignmentScopeErrors
  <1>2. \A s, x : Service!DayScopeErrors(s, x) = DayScopeErrors(s, x)
    BY ServiceLookups, Zenon DEF Service!DayScopeErrors, DayScopeErrors
  <1>3. \A s, x : Service!ContextMatches(s, x) = ContextMatches(s, x)
    BY ServiceLookups, ZenonT(30) DEF Service!ContextMatches, ContextMatches
  <1>4. \A s, x : Service!DirectiveScopeErrors(s, x) = DirectiveScopeErrors(s, x)
    BY <1>1, <1>2, <1>3, ServiceLookups, ServiceCardinality
       DEF Service!DirectiveScopeErrors, DirectiveScopeErrors
  <1>5. \A r, x : Service!AckInforms(r, x) = AckInforms(r, x)
    BY Zenon DEF Service!AckInforms, AckInforms
  <1>6. \A s, x : Service!DirectiveWorkerInformed(s, x) = DirectiveWorkerInformed(s, x)
    BY <1>4, <1>5, ServiceLookups, Zenon
       DEF Service!DirectiveWorkerInformed, DirectiveWorkerInformed
  <1>7. Service!Superseded = Superseded
    BY Zenon DEF Service!Superseded, Superseded
  <1>8. \A s, y, x : Service!Governs(s, y, x) = Governs(s, y, x)
    BY <1>4, <1>6, <1>7, ServiceLookups, ZenonT(30) DEF Service!Governs, Governs
  <1>9. \A s, x : Service!LaterGoverningDirectiveExists(s, x)
            = LaterGoverningDirectiveExists(s, x)
    BY <1>8, Zenon DEF Service!LaterGoverningDirectiveExists, LaterGoverningDirectiveExists
  <1> QED
    BY <1>4, <1>6, <1>9

(* Roots as they are materialised.                                          *)
LEMMA ServiceRoots ==
    /\ Service!EmptyScope = EmptyScope
    /\ \A s, x : Service!ValidNewDirective(s, x) = ValidNewDirective(s, x)
  <1>1. \A t : Service!InitialTask(t) = InitialTask(t)
    BY Zenon DEF Service!InitialTask, InitialTask
  <1>2. \A d : Service!InitialDay(d) = InitialDay(d)
    BY Zenon DEF Service!InitialDay, InitialDay
  <1>3. \A x : Service!InitialDirective(x) = InitialDirective(x)
    BY Zenon DEF Service!InitialDirective, InitialDirective
  <1>4. Service!EmptyScope = EmptyScope
    BY <1>1, <1>2, <1>3, Zenon DEF Service!EmptyScope, EmptyScope
  <1>5. \A s, x : Service!ValidNewDirective(s, x) = ValidNewDirective(s, x)
    BY ServiceLookups, ServiceDirectives, Zenon
       DEF Service!ValidNewDirective, ValidNewDirective
  <1> QED
    BY <1>4, <1>5

(* What a handler returns.                                                  *)
LEMMA ServiceResults ==
    /\ \A s, outcome, effects, missing, reasons : Service!Result(s, outcome, effects, missing, reasons)
           = Result(s, outcome, effects, missing, reasons)
    /\ \A s, code : Service!Refuse(s, code) = Refuse(s, code)
    /\ \A s : Service!Noop(s) = Noop(s)
    /\ \A s, effects : Service!Applied(s, effects) = Applied(s, effects)
  <1>1. \A s, outcome, effects, missing, reasons : Service!Result(s, outcome, effects, missing, reasons)
            = Result(s, outcome, effects, missing, reasons)
    BY Zenon DEF Service!Result, Result
  <1>2. \A s, code : Service!Refuse(s, code) = Refuse(s, code)
    BY <1>1, Zenon DEF Service!Refuse, Refuse
  <1>3. \A s : Service!Noop(s) = Noop(s)
    BY <1>1, Zenon DEF Service!Noop, Noop
  <1>4. \A s, effects : Service!Applied(s, effects) = Applied(s, effects)
    BY <1>1, Zenon DEF Service!Applied, Applied
  <1> QED
    BY <1>1, <1>2, <1>3, <1>4

(* The reference checks.                                                    *)
LEMMA ServiceReferences ==
    /\ \A s, e : Service!EventScopeJob(s, e) = EventScopeJob(s, e)
    /\ \A s, e : Service!ReferenceErrors(s, e) = ReferenceErrors(s, e)
  <1>1. \A s, e : Service!EventScopeJob(s, e) = EventScopeJob(s, e)
    BY ServiceLookups, Zenon DEF Service!EventScopeJob, EventScopeJob
  <1>2. \A e : Service!EventAssignmentErrors(e) = EventAssignmentErrors(e)
    BY ServiceLookups, Zenon DEF Service!EventAssignmentErrors, EventAssignmentErrors
  <1>3. \A s, e : Service!ResourceAuthorityErrors(s, e) = ResourceAuthorityErrors(s, e)
    BY ServiceLookups, ServiceCardinality, Zenon
       DEF Service!ResourceAuthorityErrors, ResourceAuthorityErrors
  <1>4. \A s, e : Service!EventDirectiveErrors(s, e) = EventDirectiveErrors(s, e)
    BY ServiceLookups, ServiceDirectives, Zenon
       DEF Service!EventDirectiveErrors, EventDirectiveErrors
  <1>5. \A s : Service!EvidenceHistory(s) = EvidenceHistory(s)
    BY <1>1, ServiceLookups DEF Service!EvidenceHistory, EvidenceHistory
  <1>6. \A s, e : Service!EvidenceErrors(s, e) = EvidenceErrors(s, e)
    <2> SUFFICES ASSUME NEW s, NEW e
                 PROVE  Service!EvidenceErrors(s, e) = EvidenceErrors(s, e)
      OBVIOUS
    <2> DEFINE crosses(h) == \/ h.job # EventScopeJob(s, e)
                             \/ h.task # e.task
                             \/ h.asg # None /\ e.asg # None /\ h.asg # e.asg
               differs == \E v \in e.attachments, h \in EvidenceHistory(s) :
                             h.item.id = v.id /\ h.item # v
               strays == \E v \in e.attachments, h \in EvidenceHistory(s) :
                            h.item.id = v.id /\ crosses(h)
    <2>1. EvidenceErrors(s, e) = When(differs, "EVIDENCE_ID_CONFLICT")
                                   \cup When(strays, "EVIDENCE_SCOPE_CONFLICT")
      BY Zenon DEF EvidenceErrors
    <2>2. Service!EvidenceErrors(s, e) = Service!When(differs, "EVIDENCE_ID_CONFLICT")
                                           \cup Service!When(strays, "EVIDENCE_SCOPE_CONFLICT")
      BY <1>1, <1>5, ZenonT(30) DEF Service!EvidenceErrors
    <2> QED
      BY <2>1, <2>2, ServiceLookups
  <1>7. \A e : Service!RequiredReferenceErrors(e) = RequiredReferenceErrors(e)
    BY ServiceLookups, ServiceSets
       DEF Service!RequiredReferenceErrors, RequiredReferenceErrors
  <1>8. \A s, e : Service!ReferenceErrors(s, e) = ReferenceErrors(s, e)
    BY <1>2, <1>3, <1>4, <1>6, <1>7, ServiceLookups
       DEF Service!ReferenceErrors, ReferenceErrors
  <1> QED
    BY <1>1, <1>8

(* What holds and disputes do to a task.                                    *)
LEMMA ServiceHolds ==
    /\ \A s, t : Service!SafeHoldActive(s, t) = SafeHoldActive(s, t)
    /\ \A s, t, status : Service!OrdinaryTaskStatus(s, t, status)
           = OrdinaryTaskStatus(s, t, status)
    /\ \A existing, submitted : Service!MergeEvidence(existing, submitted)
           = MergeEvidence(existing, submitted)
    /\ \A s, t, x : Service!SafeHoldTask(s, t, x) = SafeHoldTask(s, t, x)
    /\ \A s, e : Service!DisputeTarget(s, e) = DisputeTarget(s, e)
  <1>1. \A s, t : Service!SafeHoldActive(s, t) = SafeHoldActive(s, t)
    BY Zenon DEF Service!SafeHoldActive, SafeHoldActive
  <1>2. \A s, t, status : Service!OrdinaryTaskStatus(s, t, status)
            = OrdinaryTaskStatus(s, t, status)
    BY <1>1, Zenon DEF Service!OrdinaryTaskStatus, OrdinaryTaskStatus
  <1>3. \A existing, submitted : Service!MergeEvidence(existing, submitted)
            = MergeEvidence(existing, submitted)
    BY Zenon DEF Service!MergeEvidence, MergeEvidence
  <1>4. \A s, t, x : Service!SafeHoldTask(s, t, x) = SafeHoldTask(s, t, x)
    BY DEF Service!SafeHoldTask, SafeHoldTask
  <1>5. \A s, e : Service!DisputeTarget(s, e) = DisputeTarget(s, e)
    BY Zenon DEF Service!DisputeTarget, DisputeTarget
  <1> QED
    BY <1>1, <1>2, <1>3, <1>4, <1>5

(* Handlers of the plan day.                                                *)
LEMMA ServiceDayHandlers ==
    /\ \A s, e : Service!DayPlanActivated(s, e) = DayPlanActivated(s, e)
    /\ \A s, e : Service!StartDelayReported(s, e) = StartDelayReported(s, e)
    /\ \A s, e : Service!StartExceptionReported(s, e) = StartExceptionReported(s, e)
    /\ \A s, e : Service!UnavailableTodayReported(s, e) = UnavailableTodayReported(s, e)
    /\ \A s, e : Service!DayCloseReported(s, e) = DayCloseReported(s, e)
  <1>1. \A s, e : Service!DayPlanActivated(s, e) = DayPlanActivated(s, e)
    BY ServiceResults, Zenon DEF Service!DayPlanActivated, DayPlanActivated
  <1>2. \A s, e : Service!StartDelayReported(s, e) = StartDelayReported(s, e)
    BY ServiceSets, ServiceResults, Zenon DEF Service!StartDelayReported, StartDelayReported
  <1>3. \A s, e : Service!StartExceptionReported(s, e) = StartExceptionReported(s, e)
    BY ServiceSets, ServiceResults, Zenon
       DEF Service!StartExceptionReported, StartExceptionReported
  <1>4. \A s, e : Service!UnavailableTodayReported(s, e) = UnavailableTodayReported(s, e)
    BY ServiceSets, ServiceResults, Zenon
       DEF Service!UnavailableTodayReported, UnavailableTodayReported
  <1>5. \A s, e : Service!DayCloseReported(s, e) = DayCloseReported(s, e)
    BY ServiceResults, Zenon DEF Service!DayCloseReported, DayCloseReported
  <1> QED
    BY <1>1, <1>2, <1>3, <1>4, <1>5

(* Handlers that hold a task.                                               *)
LEMMA ServiceHoldHandlers ==
    /\ \A s, e : Service!WorkStartBlocked(s, e) = WorkStartBlocked(s, e)
    /\ \A s, e : Service!ResourceMissingReported(s, e) = ResourceMissingReported(s, e)
    /\ \A s, e, c : Service!SiteProblemReported(s, e, c) = SiteProblemReported(s, e, c)
    /\ \A s, e : Service!ScopeFactReported(s, e) = ScopeFactReported(s, e)
    /\ \A s, e : Service!TechnicalWaitReported(s, e) = TechnicalWaitReported(s, e)
  <1>1. \A s, e : Service!WorkStartBlocked(s, e) = WorkStartBlocked(s, e)
    BY ServiceSets, ServiceResults, ServiceHolds, Zenon
       DEF Service!WorkStartBlocked, WorkStartBlocked
  <1>2. \A s, e : Service!ResourceMissingReported(s, e) = ResourceMissingReported(s, e)
    BY ServiceSets, ServiceResults, ServiceHolds, Zenon
       DEF Service!ResourceMissingReported, ResourceMissingReported
  <1>3. \A s, e : Service!ConflictingCompletion(s, e) = ConflictingCompletion(s, e)
    BY Zenon DEF Service!ConflictingCompletion, ConflictingCompletion
  <1>4. \A s, e, c : Service!SiteProblemReported(s, e, c) = SiteProblemReported(s, e, c)
    <2> SUFFICES ASSUME NEW s, NEW e, NEW c
                 PROVE  Service!SiteProblemReported(s, e, c) = SiteProblemReported(s, e, c)
      OBVIOUS
    <2> DEFINE t == e.task
               observed == [s EXCEPT !.task[t].evidence = MergeEvidence(@, e.attachments),
                                     !.task[t].observations = @ \cup {e.id}]
               seen == [s EXCEPT !.task[t].evidence = Service!MergeEvidence(@, e.attachments),
                                 !.task[t].observations = @ \cup {e.id}]
               holds == c.siteProblem \in {"HOLD", "HOLD_AND_ESCALATE"}
               first(held, conflict) ==
                   IF held /\ conflict THEN <<"HUMAN_REVIEW_REQUIRED">>
                   ELSE IF held THEN <<>>
                   ELSE IF conflict THEN <<"TASK_HELD", "HUMAN_REVIEW_REQUIRED">>
                   ELSE IF holds THEN <<"TASK_HELD">> ELSE <<>>
               last == IF c.siteProblem \in {"ESCALATE", "HOLD_AND_ESCALATE"}
                       THEN <<"SITE_PROBLEM_ESCALATED">>
                       ELSE IF c.siteProblem = "REQUEST_STOP"
                       THEN <<"STOP_DIRECTIVE_REQUESTED">> ELSE <<>>
               effects(held, conflict) ==
                   <<"SITE_PROBLEM_RECORDED">> \o first(held, conflict) \o last
    <2>1. SiteProblemReported(s, e, c) =
            Applied(IF SafeHoldActive(s, t) THEN observed
                    ELSE IF ConflictingCompletion(s, e) THEN DisputeTarget(observed, e)
                    ELSE IF holds THEN OrdinaryTaskStatus(observed, t, "BLOCKED")
                    ELSE observed,
                    effects(SafeHoldActive(s, t), ConflictingCompletion(s, e)))
      BY Zenon DEF SiteProblemReported
    <2>2. Service!SiteProblemReported(s, e, c) =
            Service!Applied(IF Service!SafeHoldActive(s, t) THEN seen
                    ELSE IF Service!ConflictingCompletion(s, e) THEN Service!DisputeTarget(seen, e)
                    ELSE IF holds THEN Service!OrdinaryTaskStatus(seen, t, "BLOCKED")
                    ELSE seen,
                    effects(Service!SafeHoldActive(s, t), Service!ConflictingCompletion(s, e)))
      BY Zenon DEF Service!SiteProblemReported
    <2>3. Service!MergeEvidence(s.task[t].evidence, e.attachments)
            = MergeEvidence(s.task[t].evidence, e.attachments)
      BY ServiceHolds
    <2>4. seen = observed
      BY <2>3, Zenon
    <2> HIDE DEF observed, seen, holds, effects
    <2>5. Service!ConflictingCompletion(s, e) = ConflictingCompletion(s, e)
      BY <1>3
    <2> QED
      BY <2>1, <2>2, <2>4, <2>5, ServiceHolds, ServiceResults
  <1>5. \A s, e : Service!ScopeFactReported(s, e) = ScopeFactReported(s, e)
    BY ServiceResults, Zenon DEF Service!ScopeFactReported, ScopeFactReported
  <1>6. \A s, e : Service!TechnicalWaitReported(s, e) = TechnicalWaitReported(s, e)
    BY ServiceResults, ServiceHolds DEF Service!TechnicalWaitReported, TechnicalWaitReported
  <1> QED
    BY <1>1, <1>2, <1>4, <1>5, <1>6

(* What stands against a completion.                                        *)
LEMMA ServiceGates ==
    /\ \A e : Service!CompletionAuthorityErrors(e) = CompletionAuthorityErrors(e)
    /\ \A s, e : Service!MissingCompletionRequirements(s, e)
           = MissingCompletionRequirements(s, e)
    /\ \A s, e : Service!CompletionGates(s, e) = CompletionGates(s, e)
    /\ \A s, e : Service!GatedCompletion(s, e) = GatedCompletion(s, e)
  <1>1. \A e : Service!CompletionAuthorityErrors(e) = CompletionAuthorityErrors(e)
    BY ServiceLookups, Zenon
       DEF Service!CompletionAuthorityErrors, CompletionAuthorityErrors
  <1>2. \A s, x, e : Service!StopCovers(s, x, e) = StopCovers(s, x, e)
    BY ServiceReferences, Zenon DEF Service!StopCovers, StopCovers
  <1>3. \A s, e : Service!CompletionBlockedByStop(s, e) = CompletionBlockedByStop(s, e)
    BY <1>2, Zenon DEF Service!CompletionBlockedByStop, CompletionBlockedByStop
  <1>4. \A r, e : Service!UnsafeReportFor(r, e) = UnsafeReportFor(r, e)
    BY Zenon DEF Service!UnsafeReportFor, UnsafeReportFor
  <1>5. \A s, e : Service!HasUnresolvedUnsafeReport(s, e) = HasUnresolvedUnsafeReport(s, e)
    BY <1>4, Zenon DEF Service!HasUnresolvedUnsafeReport, HasUnresolvedUnsafeReport
  <1>6. \A s, e : Service!MissingCompletionRequirements(s, e)
            = MissingCompletionRequirements(s, e)
    BY ServiceLookups, Zenon
       DEF Service!MissingCompletionRequirements, MissingCompletionRequirements
  <1>7. \A s, e : Service!CompletionGates(s, e) = CompletionGates(s, e)
    BY <1>3, <1>5, ServiceLookups, ServiceHolds, Zenon
       DEF Service!CompletionGates, CompletionGates
  <1>8. \A s, e : Service!GatedCompletion(s, e) = GatedCompletion(s, e)
    BY <1>5, <1>7, ServiceResults, ServiceHolds, Zenon
       DEF Service!GatedCompletion, GatedCompletion
  <1> QED
    BY <1>1, <1>6, <1>7, <1>8

(* Completion and dispute.                                                  *)
LEMMA ServiceCompletion ==
    /\ \A s, e : Service!CompletionReported(s, e) = CompletionReported(s, e)
    /\ \A s, e : Service!CompletionDisputed(s, e) = CompletionDisputed(s, e)
  <1>1. \A e : Service!IsStageCompletion(e) = IsStageCompletion(e)
    BY Zenon DEF Service!IsStageCompletion, IsStageCompletion
  <1>2. \A s, e : Service!AlreadyCompleted(s, e) = AlreadyCompleted(s, e)
    BY <1>1, Zenon DEF Service!AlreadyCompleted, AlreadyCompleted
  <1>3. \A s, e : Service!TaskNotCompletable(s, e) = TaskNotCompletable(s, e)
    BY Zenon DEF Service!TaskNotCompletable, TaskNotCompletable
  <1>4. \A s, e : Service!StageNotCompletable(s, e) = StageNotCompletable(s, e)
    BY <1>1, Zenon DEF Service!StageNotCompletable, StageNotCompletable
  <1>5. \A s, e : Service!Complete(s, e) = Complete(s, e)
    BY <1>1 DEF Service!Complete, Complete
  <1>6. \A s, e : Service!CompletionReported(s, e) = CompletionReported(s, e)
    BY <1>2, <1>3, <1>4, <1>5, ServiceResults, ServiceHolds, ServiceSets, ServiceGates
       DEF Service!CompletionReported, CompletionReported
  <1>7. \A s, r, e : Service!DisputableBy(s, r, e) = DisputableBy(s, r, e)
    <2>1. Service!CompletionEvents = CompletionEvents
      BY ServiceSets, Zenon
    <2>2. \A s, a : Service!HasAssignment(s, a) = HasAssignment(s, a)
      BY ServiceLookups, Zenon
    <2> QED
      BY <2>1, <2>2 DEF Service!DisputableBy, DisputableBy
  <1>8. \A s, e : Service!DisputeSuspended(s, e) = DisputeSuspended(s, e)
    BY Zenon DEF Service!DisputeSuspended, DisputeSuspended
  <1>9. \A s, e : Service!CompletionDisputed(s, e) = CompletionDisputed(s, e)
    BY <1>7, <1>8, ServiceResults, Zenon DEF Service!CompletionDisputed, CompletionDisputed
  <1> QED
    BY <1>6, <1>9

(* Handlers of directives.                                                  *)
LEMMA ServiceDirectiveHandlers ==
    /\ \A s, e : Service!WorkerAcknowledged(s, e) = WorkerAcknowledged(s, e)
    /\ \A s, e : Service!WorkerActionException(s, e) = WorkerActionException(s, e)
  <1>1. \A s, x : Service!ConfirmsPlan(s, x) = ConfirmsPlan(s, x)
    BY ServiceLookups, ServiceDirectives, Zenon DEF Service!ConfirmsPlan, ConfirmsPlan
  <1>2. \A s, e : Service!WorkerAcknowledged(s, e) = WorkerAcknowledged(s, e)
    BY <1>1, ServiceDirectives, ServiceResults
       DEF Service!WorkerAcknowledged, WorkerAcknowledged
  <1>3. \A s, e : Service!WorkerActionException(s, e) = WorkerActionException(s, e)
    BY ServiceSets, ServiceLookups, ServiceResults, ServiceHolds
       DEF Service!WorkerActionException, WorkerActionException
  <1> QED
    BY <1>2, <1>3

(* System signals.                                                          *)
LEMMA ServiceSignals ==
    \A s, g, c : Service!HandleSignal(s, g, c) = HandleSignal(s, g, c)
  <1>1. \A s, g, c : Service!StartWindowElapsed(s, g, c) = StartWindowElapsed(s, g, c)
    BY ServiceLookups, ServiceResults, Zenon
       DEF Service!StartWindowElapsed, StartWindowElapsed
  <1>2. \A s, g : Service!SignalScopeErrors(s, g) = SignalScopeErrors(s, g)
    BY ServiceLookups, ServiceDirectives, Zenon
       DEF Service!SignalScopeErrors, SignalScopeErrors
  <1>3. \A s, x, c : Service!E1NotDue(s, x, c) = E1NotDue(s, x, c)
    BY ServiceDirectives, Zenon DEF Service!E1NotDue, E1NotDue
  <1>4. \A s, g, c : Service!DirectiveE1Elapsed(s, g, c) = DirectiveE1Elapsed(s, g, c)
    BY <1>2, <1>3, ServiceLookups, ServiceResults, ZenonT(30)
       DEF Service!DirectiveE1Elapsed, DirectiveE1Elapsed
  <1>5. \A s, g, c : Service!EarlyFinishEvaluated(s, g, c) = EarlyFinishEvaluated(s, g, c)
    BY ServiceLookups, ServiceResults, Zenon
       DEF Service!EarlyFinishEvaluated, EarlyFinishEvaluated
  <1>6. \A s, g, c : Service!EndOfDayPolicySatisfied(s, g, c) = EndOfDayPolicySatisfied(s, g, c)
    BY ServiceLookups, ServiceResults
       DEF Service!EndOfDayPolicySatisfied, EndOfDayPolicySatisfied
  <1>7. \A s, g, c : Service!HandleSignal(s, g, c) = HandleSignal(s, g, c)
    BY <1>1, <1>4, <1>5, <1>6, ServiceResults, Zenon DEF Service!HandleSignal, HandleSignal
  <1> QED
    BY <1>7

(* The dispatch by event type.                                              *)
LEMMA ServiceEvents ==
    \A s, e, c : Service!HandleEvent(s, e, c) = HandleEvent(s, e, c)
  <1>1. \A s, e, c : Service!HandleEvent(s, e, c) = HandleEvent(s, e, c)
    BY ServiceSets, ServiceDayHandlers, ServiceHoldHandlers, ServiceCompletion,
       ServiceDirectiveHandlers, ZenonT(30)
       DEF Service!HandleEvent, HandleEvent
  <1> QED
    BY <1>1

(* The reduction.                                                           *)
LEMMA ServiceReduction ==
    /\ \A s, i, c : Service!Reduce(s, i, c) = Reduce(s, i, c)
    /\ \A i, r : Service!NormalizeReduction(i, r) = NormalizeReduction(i, r)
  <1>1. \A e : Service!CompletionRejectionEffects(e) = CompletionRejectionEffects(e)
    BY ServiceSets, Zenon DEF Service!CompletionRejectionEffects, CompletionRejectionEffects
  <1>2. \A r, receipts, replayed : Service!Reduction(r, receipts, replayed)
            = Reduction(r, receipts, replayed)
    BY Zenon DEF Service!Reduction, Reduction
  <1>3. \A r, i : Service!FinishEvent(r, i) = FinishEvent(r, i)
    BY <1>2, Zenon DEF Service!FinishEvent, FinishEvent
  <1>4. \A s, i, reasons : Service!RejectEvent(s, i, reasons) = RejectEvent(s, i, reasons)
    BY <1>1, <1>3, ServiceResults, Zenon DEF Service!RejectEvent, RejectEvent
  <1>5. \A s, r : Service!Replay(s, r) = Replay(s, r)
    BY <1>2, ServiceResults, Zenon DEF Service!Replay, Replay
  <1>6. \A s, i, c : Service!ReduceFieldEvent(s, i, c) = ReduceFieldEvent(s, i, c)
    <2> SUFFICES ASSUME NEW s, NEW i, NEW c
                 PROVE  Service!ReduceFieldEvent(s, i, c) = ReduceFieldEvent(s, i, c)
      OBVIOUS
    <2> DEFINE prior == {r \in s.receipts : r.event.id = i.event.id}
               same == {r \in prior : r.event = i.event}
               errors == ReferenceErrors(s, i.event)
               first == CHOOSE r \in same : TRUE
               taken == \E r \in s.receipts : r.sid = i.sid
    <2>1. ReduceFieldEvent(s, i, c) =
            IF same # {} THEN Replay(s, first)
            ELSE IF prior # {} THEN Reduction(Refuse(s, "EVENT_ID_CONFLICT"), {}, FALSE)
            ELSE IF taken THEN Reduction(Refuse(s, "SERVER_EVENT_ID_CONFLICT"), {}, FALSE)
            ELSE IF errors # {} THEN RejectEvent(s, i, errors)
            ELSE FinishEvent(HandleEvent(s, i.event, c), i)
      BY Zenon DEF ReduceFieldEvent
    <2> DEFINE refused == Service!ReferenceErrors(s, i.event)
    <2>2. Service!ReduceFieldEvent(s, i, c) =
            IF same # {} THEN Service!Replay(s, first)
            ELSE IF prior # {} THEN Service!Reduction(Service!Refuse(s, "EVENT_ID_CONFLICT"), {}, FALSE)
            ELSE IF taken THEN Service!Reduction(Service!Refuse(s, "SERVER_EVENT_ID_CONFLICT"), {}, FALSE)
            ELSE IF refused # {} THEN Service!RejectEvent(s, i, refused)
            ELSE Service!FinishEvent(Service!HandleEvent(s, i.event, c), i)
      BY Zenon DEF Service!ReduceFieldEvent
    <2>3. refused = errors
      BY ServiceReferences
    <2> HIDE DEF prior, same, errors, first, taken, refused
    <2>4. /\ Service!Replay(s, first) = Replay(s, first)
          /\ Service!RejectEvent(s, i, errors) = RejectEvent(s, i, errors)
          /\ Service!FinishEvent(Service!HandleEvent(s, i.event, c), i)
               = FinishEvent(HandleEvent(s, i.event, c), i)
      BY <1>2, <1>3, <1>4, <1>5, ServiceEvents, Zenon
    <2>5. /\ Service!Reduction(Service!Refuse(s, "EVENT_ID_CONFLICT"), {}, FALSE)
               = Reduction(Refuse(s, "EVENT_ID_CONFLICT"), {}, FALSE)
          /\ Service!Reduction(Service!Refuse(s, "SERVER_EVENT_ID_CONFLICT"), {}, FALSE)
               = Reduction(Refuse(s, "SERVER_EVENT_ID_CONFLICT"), {}, FALSE)
      BY <1>2, <1>3, <1>4, <1>5, ServiceResults, Zenon
    <2>6. Service!ReduceFieldEvent(s, i, c) =
            IF same # {} THEN Replay(s, first)
            ELSE IF prior # {} THEN Reduction(Refuse(s, "EVENT_ID_CONFLICT"), {}, FALSE)
            ELSE IF taken THEN Reduction(Refuse(s, "SERVER_EVENT_ID_CONFLICT"), {}, FALSE)
            ELSE IF errors # {} THEN RejectEvent(s, i, errors)
            ELSE FinishEvent(HandleEvent(s, i.event, c), i)
      BY <2>2, <2>3, <2>4, <2>5
    <2> QED
      BY <2>1, <2>6
  <1>7. \A old, new, j : Service!JobChanged(old, new, j) = JobChanged(old, new, j)
    BY Zenon DEF Service!JobChanged, JobChanged
  <1>8. \A old, new : Service!FinalizeScope(old, new) = FinalizeScope(old, new)
    BY <1>7, Zenon DEF Service!FinalizeScope, FinalizeScope
  <1>9. \A s, i, c : Service!RawReduction(s, i, c) = RawReduction(s, i, c)
    BY <1>2, <1>6, ServiceResults, ServiceSignals, Zenon
       DEF Service!RawReduction, RawReduction
  <1>10. \A s, i, c : Service!Reduce(s, i, c) = Reduce(s, i, c)
    BY <1>8, <1>9, Zenon DEF Service!Reduce, Reduce
  <1>11. \A i, r : Service!NormalizeReduction(i, r) = NormalizeReduction(i, r)
    BY <1>3, ServiceResults, Zenon DEF Service!NormalizeReduction, NormalizeReduction
  <1> QED
    BY <1>10, <1>11

(* How inputs and effects are named.                                        *)
LEMMA ServiceInbox ==
    /\ \A i : Service!Key(i) = Key(i)
    /\ \A source, effects : Service!Emissions(source, effects) = Emissions(source, effects)
    /\ Service!Inputs = Inputs
  <1>1. \A i : Service!IsEvent(i) = IsEvent(i)
    BY Zenon DEF Service!IsEvent, IsEvent
  <1>2. \A i : Service!Key(i) = Key(i)
    BY <1>1, Zenon DEF Service!Key, Key
  <1>3. \A source, effects : Service!Emissions(source, effects) = Emissions(source, effects)
    BY Zenon DEF Service!Emissions, Emissions
  <1>4. Service!Inputs = Inputs
    BY Zenon DEF Service!Inputs, Inputs
  <1> QED
    BY <1>2, <1>3, <1>4

-----------------------------------------------------------------------------
(* The refinement.                                                         *)

(* The initial state of the repository is one of the service.              *)
LEMMA InitService == Init => Service!Init
  <1> SUFFICES ASSUME Init PROVE Service!Init
    OBVIOUS
  <1>1. Ledger = {}
    BY DEF Init, Ledger, Rows, KnownKeys
  <1>2. [EmptyScope EXCEPT !.receipts = {}] = EmptyScope
    BY EmptyScopeGood DEF Scopes
  <1> QED
    BY <1>1, <1>2, ServiceRoots DEF Init, Service!Init, Whole

(* Materialisation looks at roots and not at the ledger.                   *)
LEMMA CreateService ==
    ASSUME TypeOK,
           \/ \E d \in PlanDays : CreatePlanDayRoot(d)
           \/ \E j \in Jobs : CreateJobExecutionRoot(j)
           \/ \E x \in Directives : CreateDirectiveRoot(x)
    PROVE  Service!Next
  <1>1. roots \in Scopes({})
    BY DEF TypeOK
  <1>2. DOMAIN roots = {"jobs", "days", "dirs", "task", "stage", "released", "jobRev", "day",
                        "dir", "receipts"}
    BY <1>1 DEF Scopes
  <1>3. Ledger' = Ledger
    BY
       DEF CreatePlanDayRoot, CreateJobExecutionRoot, CreateDirectiveRoot, Ledger, Rows,
           KnownKeys
  <1>4. Whole.days = roots.days /\ Whole.jobs = roots.jobs /\ Whole.dirs = roots.dirs
    BY <1>2 DEF Whole
  <1>5. CASE \E d \in PlanDays : CreatePlanDayRoot(d)
    <2>1. PICK d \in PlanDays : CreatePlanDayRoot(d)
      BY <1>5
    <2>2. Whole' = [Whole EXCEPT !.days = @ \cup {d}]
      BY <1>2, <1>3, <2>1 DEF CreatePlanDayRoot, Whole
    <2>3. Service!CreatePlanDayRoot(d)
      BY <1>4, <2>1, <2>2 DEF CreatePlanDayRoot, Service!CreatePlanDayRoot, Whole
    <2> QED
      BY <2>3 DEF Service!Next
  <1>6. CASE \E j \in Jobs : CreateJobExecutionRoot(j)
    <2>1. PICK j \in Jobs : CreateJobExecutionRoot(j)
      BY <1>6
    <2>2. Whole' = [Whole EXCEPT !.jobs = @ \cup {j}]
      BY <1>2, <1>3, <2>1 DEF CreateJobExecutionRoot, Whole
    <2>3. Service!CreateJobExecutionRoot(j)
      BY <1>4, <2>1, <2>2 DEF CreateJobExecutionRoot, Service!CreateJobExecutionRoot, Whole
    <2> QED
      BY <2>3 DEF Service!Next
  <1>7. CASE \E x \in Directives : CreateDirectiveRoot(x)
    <2>1. PICK x \in Directives : CreateDirectiveRoot(x)
      BY <1>7
    <2>2. Whole' = [Whole EXCEPT !.dirs = @ \cup {x}]
      BY <1>2, <1>3, <2>1 DEF CreateDirectiveRoot, Whole
    <2>3. ValidNewDirective(Whole, x)
      <3>1. ValidNewDirective(roots, x)
        BY <2>1 DEF CreateDirectiveRoot
      <3>2. DirectiveScopeErrors(Whole, x) = DirectiveScopeErrors(roots, x)
        <4> DEFINE w == Whole
                   o == roots
        <4>1. w.jobs = o.jobs /\ w.days = o.days
          BY <1>4
        <4> HIDE DEF w, o
        <4>2. /\ \A t : HasTask(w, t) = HasTask(o, t)
              /\ \A a : HasAssignment(w, a) = HasAssignment(o, a)
              /\ \A d : HasDay(w, d) = HasDay(o, d)
          BY <4>1, Zenon DEF HasTask, HasAssignment, HasDay
        <4>3. ContextMatches(w, x) = ContextMatches(o, x)
          BY <4>2, Zenon DEF ContextMatches
        <4>4. DayScopeErrors(w, x) = DayScopeErrors(o, x)
          BY <4>2, Zenon DEF DayScopeErrors
        <4>5. DirectiveScopeErrors(w, x) = DirectiveScopeErrors(o, x)
          BY <4>1, <4>2, <4>3, <4>4, Zenon DEF DirectiveScopeErrors
        <4> QED
          BY <4>5 DEF w, o
      <3> QED
        BY <1>4, <3>1, <3>2 DEF ValidNewDirective
    <2>4. Service!CreateDirectiveRoot(x)
      BY <1>4, <2>1, <2>2, <2>3, ServiceRoots
         DEF CreateDirectiveRoot, Service!CreateDirectiveRoot, Whole
    <2> QED
      BY <2>4 DEF Service!Next
  <1> QED
    BY <1>5, <1>6, <1>7

(* A committed reduction is a submission to the service.                   *)
LEMMA ProcessService ==
    ASSUME Inv, Registered, UsesRecorded, NEW c \in Clients, ProcessReduction(c),
           ~MisjudgesEvidence(inbox[session[c]].input)
    PROVE  Service!Next
  <1>1. PICK i \in Inputs, x \in Contexts :
              LET r == NormalizeReduction(i, Reduce(Whole, i, x)) IN
              /\ Whole' = r.scope /\ outbox' = outbox \cup Emissions(Key(i), r.emitted)
              /\ IsEvent(i) => \A q \in Ledger : q.event.id # i.event.id /\ q.sid # i.sid
    BY ProcessWhole
  <1>2. Whole.receipts = Ledger
    BY DEF Whole, Inv, TypeOK, Scopes
  <1>3. CASE IsEvent(i)
    <2>1. i \in FieldInputs
      BY <1>3, EventKeys
    <2>2. ~Service!KnownToLedger(i)
      BY <1>1, <1>2, <1>3 DEF Service!KnownToLedger, Whole
    <2>3. Service!Submitted(i, x) = NormalizeReduction(i, Reduce(Whole, i, x))
      BY <2>2, ServiceReduction DEF Service!Submitted, Whole
    <2>4. Service!SubmitEvent(i, x)
      BY <1>1, <2>2, <2>3, ServiceInbox DEF Service!SubmitEvent, Whole
    <2> QED
      BY <2>1, <2>4 DEF Service!Next
  <1>4. CASE ~IsEvent(i)
    <2>1. i \in Signals
      BY <1>4, InputAssumption DEF InputAssumption, Inputs, IsEvent
    <2>2. NormalizeReduction(i, Reduce(Whole, i, x)) = Reduce(Whole, i, x)
      BY <2>1, SignalReceipt
    <2>3. Service!SubmitSignal(i, x)
      BY <1>1, <2>2, ServiceReduction, ServiceInbox DEF Service!SubmitSignal, Whole
    <2> QED
      BY <2>1, <2>3 DEF Service!Next
  <1> QED
    BY <1>3, <1>4

(* Every other step leaves the service's state as it is.                   *)
LEMMA StutterService ==
    ASSUME Inv, roots' = roots, outbox' = outbox, Ledger' = Ledger
    PROVE  UNCHANGED Service!vars
  BY DEF Service!vars, Whole

(* A commit of a report whose evidence is misjudged. *)
Misjudged == \E c \in Clients : /\ ProcessReduction(c)
                                /\ MisjudgesEvidence(inbox[session[c]].input)

LEMMA NextService ==
    Inv /\ Registered /\ UsesRecorded /\ [Next]_vars
        => [Service!Next \/ Misjudged]_(Service!vars)
  <1> SUFFICES ASSUME Inv, Registered, UsesRecorded, [Next]_vars
               PROVE  [Service!Next \/ Misjudged]_(Service!vars)
    OBVIOUS
  <1>1. CASE \/ \E d \in PlanDays : CreatePlanDayRoot(d)
             \/ \E j \in Jobs : CreateJobExecutionRoot(j)
             \/ \E x \in Directives : CreateDirectiveRoot(x)
    BY <1>1, CreateService DEF Inv
  <1>2. CASE \E c \in Clients : ProcessReduction(c)
    BY <1>2, ProcessService DEF Misjudged
  <1>3. CASE \E c \in Clients, i \in Inputs, x \in Contexts : AcceptNew(c, i, x)
    <2>1. Ledger' = Ledger /\ roots' = roots /\ outbox' = outbox
      BY <1>3, AcceptLedger DEF AcceptNew
    <2> QED
      BY <2>1, StutterService
  <1>4. CASE \E c \in Clients : ProcessCollision(c)
    <2>1. PICK c \in Clients : ProcessCollision(c)
      BY <1>4
    <2>2. PICK r, receipts, readable : /\ Pending(c) /\ receipts = {}
                                       /\ CompleteInbox(c, r, receipts, readable)
      BY <2>1, Zenon DEF ProcessCollision
    <2>3. Ledger' = Ledger
      BY <2>2, CompleteLedger
    <2>4. roots' = roots /\ outbox' = outbox
      BY <2>1 DEF ProcessCollision
    <2> QED
      BY <2>3, <2>4, StutterService
  <1>5. CASE roots' = roots /\ outbox' = outbox /\ inbox' = inbox
    <2>1. Ledger' = Ledger
      BY <1>5 DEF Ledger, Rows, KnownKeys
    <2> QED
      BY <1>5, <2>1, StutterService
  <1>6. \/ \E d \in PlanDays : CreatePlanDayRoot(d)
        \/ \E j \in Jobs : CreateJobExecutionRoot(j)
        \/ \E x \in Directives : CreateDirectiveRoot(x)
        \/ \E c \in Clients : ProcessReduction(c)
        \/ \E c \in Clients, i \in Inputs, x \in Contexts : AcceptNew(c, i, x)
        \/ \E c \in Clients : ProcessCollision(c)
        \/ roots' = roots /\ outbox' = outbox /\ inbox' = inbox
    BY DEF Next, ProcessInput, AcceptPending, AcceptConflict, AcceptCompleted,
           ProcessCompleted, ProcessRolledBack, Crash, vars, stored
  <1> QED
    BY <1>1, <1>2, <1>3, <1>4, <1>5, <1>6

(* The durable repository implements the atomic service of FieldState:     *)
(* process_input reduces only what _hydrate loads, in a transaction of its *)
(* own, and what it commits is what a reduction of everything stored would *)
(* leave, emit and record; acceptance, collisions, retries and crashes     *)
(* between the transactions are invisible to the service.  It fails only   *)
(* for a report whose evidence id an earlier report used that _hydrate     *)
(* cannot judge: a rejected one, or one that named nothing but a directive.*)
THEOREM DurableImplementsService == Spec => ImplementsFieldState
  <1>1. Inv /\ [Next]_vars => Inv'
    BY NextInv
  <1>2. Inv /\ Registered /\ UsesRecorded /\ [Next]_vars
            => [Service!Next \/ Misjudged]_(Service!vars)
    BY NextService
  <1>3. Init => Inv /\ Registered /\ UsesRecorded /\ Service!Init
    BY InitInv, InitRegistered, InitUses, InitService
  <1> QED
    BY <1>1, <1>2, <1>3, NextRegistered, NextUses, PTL
       DEF Spec, ImplementsFieldState, Misjudged

=============================================================================
