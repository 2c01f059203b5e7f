------------------------------ MODULE M2Scenarios ------------------------------
(***************************************************************************)
(* The instances that the model-checking modules share: one job, two       *)
(* workers with a plan day each, and inputs from one of five scenarios: a  *)
(* crew task with stages, tasks that need evidence, the directives of a    *)
(* plan day, the life of the plan day, and requests to the durable inbox.  *)
(***************************************************************************)
EXTENDS M2Types, TLC

(* An envelope with only its mandatory fields. *)
Envelope(id, type, actor) ==
    [id |-> id, type |-> type, actor |-> actor, day |-> None, job |-> None,
     task |-> None, asg |-> None, stage |-> None, dir |-> None, against |-> None,
     reason |-> None, text |-> FALSE, wait |-> FALSE, quantity |-> FALSE,
     severity |-> None, attachments |-> {}, satisfied |-> {}]

DayOf(w) == IF w = "ann" THEN "dayA" ELSE "dayB"

(* An event about a task, with the references every such event needs. *)
OnTask(id, type, actor, t, a) ==
    [Envelope(id, type, actor) EXCEPT
        !.day = DayOf(actor), !.job = "j1", !.task = t, !.asg = a]
OnDay(id, type, actor) == [Envelope(id, type, actor) EXCEPT !.day = DayOf(actor)]
OnDirective(id, type, actor, x) == [Envelope(id, type, actor) EXCEPT !.dir = x]

(* Each event is presented under a server id of its own. *)
Input(e) == [kind |-> "FIELD_EVENT", event |-> e, sid |-> e.id]

Signal(id, type, d, x) ==
    [kind |-> "SYSTEM_SIGNAL", id |-> id, type |-> type, day |-> d, dir |-> x,
     task |-> None, policyResult |-> "END_ON_SITE"]

Context == [ruleSupported |-> TRUE, now |-> 2, startEscalation |-> TRUE,
            siteProblem |-> "RECORD_ONLY", earlyFinish |-> TRUE,
            endOfDay |-> "END_ON_SITE"]

OneContext == {Context}
PolicyContexts ==
    {Context, [Context EXCEPT !.siteProblem = "HOLD_AND_ESCALATE"],
     [Context EXCEPT !.siteProblem = "REQUEST_STOP"],
     [Context EXCEPT !.ruleSupported = FALSE]}
RuleContexts == {Context, [Context EXCEPT !.ruleSupported = FALSE]}
TimedContexts == {Context, [Context EXCEPT !.now = 0, !.startEscalation = FALSE,
                              !.earlyFinish = FALSE, !.endOfDay = "RETURN_BASE"]}

-----------------------------------------------------------------------------
(* Definitions. *)

MCWorkers == {"ann", "bob"}
MCPlanDays == {"dayA", "dayB"}
MCDayDef ==
    [d \in MCPlanDays |-> IF d = "dayA"
        THEN [worker |-> "ann", startAt |-> 1, status |-> "ISSUED"]
        ELSE [worker |-> "bob", startAt |-> 1, status |-> "ACTIVE"]]

MCTaskDef ==
    "crew" :> [job |-> "j1", completion |-> "STAGE", kind |-> "CREW",
               postconditions |-> {}, evidenceKinds |-> {}, quantity |-> FALSE,
               authorized |-> TRUE]
    @@ "single" :> [job |-> "j1", completion |-> "TASK", kind |-> "SINGLE",
                    postconditions |-> {"clean"}, evidenceKinds |-> {"PHOTO"},
                    quantity |-> FALSE, authorized |-> TRUE]
    @@ "visit" :> [job |-> "j1", completion |-> "VISIT", kind |-> "SINGLE",
                   postconditions |-> {}, evidenceKinds |-> {}, quantity |-> TRUE,
                   authorized |-> TRUE]

MCStageTask == "g1" :> "crew" @@ "g2" :> "crew"

MCAsgDef ==
    "aCrew" :> [job |-> "j1", task |-> "crew", kind |-> "CREW",
                members |-> MCWorkers, lead |-> "ann", days |-> MCPlanDays]
    @@ "aSingle" :> [job |-> "j1", task |-> "single", kind |-> "SINGLE",
                     members |-> MCWorkers, lead |-> None, days |-> MCPlanDays]
    @@ "aVisit" :> [job |-> "j1", task |-> "visit", kind |-> "SINGLE",
                    members |-> {"ann"}, lead |-> None, days |-> {"dayA"}]

Directive(type, class, seq) ==
    [type |-> type, class |-> class, worker |-> "ann", dueAt |-> 1, job |-> None,
     task |-> None, asg |-> None, day |-> "dayA", proposed |-> None, seq |-> seq,
     supersedes |-> None, stop |-> FALSE]

MCDirDef ==
    "act1" :> [Directive("ACTION_REQUIRED", "ACTION", 1) EXCEPT !.proposed = "planA"]
    @@ "act2" :> [Directive("ACTION_REQUIRED", "ACTION", 2) EXCEPT !.proposed = "planB"]
    @@ "info3" :> [Directive("INFO_NOTICE", "INFO", 3) EXCEPT !.supersedes = "act1"]
    @@ "stop4" :> [Directive("STOP_DIRECTIVE", "STOP", 4) EXCEPT
                      !.job = "j1", !.task = "crew", !.asg = "aCrew", !.stop = TRUE]

-----------------------------------------------------------------------------
(* A crew task of two stages: completions by the lead and by another       *)
(* member, a dispute, unsafe reports, a blocked start, a technical wait    *)
(* and the exception against a STOP.                                       *)
StageEvent(id, type, actor, g) ==
    [OnTask(id, type, actor, "crew", "aCrew") EXCEPT !.stage = g]
UnsafeProblem(id, actor, g) ==
    [StageEvent(id, "SITE_PROBLEM_REPORTED", actor, g) EXCEPT
        !.severity = "UNSAFE", !.text = TRUE]

CrewInputs == {Input(e) : e \in {
    StageEvent("done1", "STAGE_COMPLETION_REPORTED", "ann", "g1"),
    StageEvent("again1", "STAGE_COMPLETION_REPORTED", "ann", "g1"),
    StageEvent("bobs1", "STAGE_COMPLETION_REPORTED", "bob", "g1"),
    StageEvent("done2", "STAGE_COMPLETION_REPORTED", "ann", "g2"),
    [StageEvent("dispute1", "COMPLETION_DISPUTED", "bob", "g1") EXCEPT
        !.against = "done1", !.text = TRUE],
    UnsafeProblem("unsafe1", "bob", "g1"),
    UnsafeProblem("unsafeAll", "bob", None),
    [OnTask("blocked", "WORK_START_BLOCKED", "bob", "crew", "aCrew") EXCEPT
        !.reason = "NO_ACCESS"],
    [OnTask("wait", "TECHNICAL_WAIT_REPORTED", "ann", "crew", "aCrew") EXCEPT
        !.wait = TRUE],
    [OnDirective("except4", "WORKER_ACTION_EXCEPTION", "ann", "stop4") EXCEPT
        !.reason = "CONFLICTING_FACT"]}}

(* Tasks that need evidence: a completion with a photo, without, with the  *)
(* photo altered, the same photo for another task, an event id and a       *)
(* server id used twice.                                                   *)
Photo(ref) == [id |-> "photo", kind |-> "PHOTO", ref |-> ref]
SingleEvent(id, type, actor) == OnTask(id, type, actor, "single", "aSingle")
CompleteSingle(id, actor, photos, satisfied) ==
    [SingleEvent(id, "TASK_COMPLETION_REPORTED", actor) EXCEPT
        !.attachments = photos, !.satisfied = satisfied]

EvidenceInputs == {Input(e) : e \in {
    CompleteSingle("full", "ann", {Photo("r1")}, {"clean"}),
    CompleteSingle("dirty", "ann", {Photo("r1")}, {}),
    CompleteSingle("altered", "bob", {Photo("r2")}, {"clean"}),
    CompleteSingle("full", "ann", {}, {"clean"}),
    [SingleEvent("dispute", "COMPLETION_DISPUTED", "bob") EXCEPT
        !.against = "full", !.reason = "OTHER"],
    [OnTask("visited", "VISIT_COMPLETION_REPORTED", "ann", "visit", "aVisit") EXCEPT
        !.attachments = {Photo("r1")}, !.quantity = TRUE],
    [Envelope("missing", "RESOURCE_MISSING_REPORTED", "ann") EXCEPT
        !.task = "single", !.reason = "TOOL"],
    [SingleEvent("problem", "SITE_PROBLEM_REPORTED", "bob") EXCEPT
        !.attachments = {Photo("r2")}]}}
    \cup {[Input(CompleteSingle("bare", "bob", {}, {"clean"})) EXCEPT !.sid = "full"]}

(* The directives of ann's day: two proposals, a notice that supersedes    *)
(* the first one and a STOP, acknowledged and excepted in any order, with  *)
(* two E1 timers for the first.                                            *)
DirectiveInputs == {Input(e) : e \in {
    OnDirective("ack1", "WORKER_ACKNOWLEDGED", "ann", "act1"),
    OnDirective("ack1again", "WORKER_ACKNOWLEDGED", "ann", "act1"),
    OnDirective("ack2", "WORKER_ACKNOWLEDGED", "ann", "act2"),
    OnDirective("bobAck2", "WORKER_ACKNOWLEDGED", "bob", "act2"),
    OnDirective("ack3", "WORKER_ACKNOWLEDGED", "ann", "info3"),
    OnDirective("ack4", "WORKER_ACKNOWLEDGED", "ann", "stop4"),
    [OnDirective("except1", "WORKER_ACTION_EXCEPTION", "ann", "act1") EXCEPT
        !.reason = "PHYSICALLY_UNABLE"]}}

DirectiveSignals == {
    Signal("e1first", "DIRECTIVE_E1_ELAPSED", None, "act1"),
    Signal("e1second", "DIRECTIVE_E1_ELAPSED", "dayA", "act1")}

(* An action and its exception, for the conflict rule of the contract. *)
ExceptionInputs == {i \in DirectiveInputs : i.event.id \in {"ack1", "except1"}}

(* The life of ann's day. *)
DayInputs == {Input(e) : e \in {
    OnDay("activate", "DAY_PLAN_ACTIVATED", "ann"),
    OnDay("close", "DAY_CLOSE_REPORTED", "ann"),
    [OnDay("sick", "UNAVAILABLE_TODAY_REPORTED", "ann") EXCEPT !.reason = "SICK"],
    [OnDay("bobSick", "UNAVAILABLE_TODAY_REPORTED", "bob") EXCEPT
        !.day = "dayA", !.reason = "SICK"],
    [OnDay("late", "START_DELAY_REPORTED", "ann") EXCEPT !.reason = "TRAFFIC"],
    [OnDay("stuck", "START_EXCEPTION_REPORTED", "ann") EXCEPT
        !.reason = "TRANSPORT_BLOCKED"]}}

(* Reports that change no root, from nothing to a stored day. *)
ReportInputs == {Input(e) : e \in {
    OnDay("close", "DAY_CLOSE_REPORTED", "ann"),
    [OnDay("fact", "SCOPE_FACT_REPORTED", "ann") EXCEPT !.text = TRUE],
    [OnDay("noTool", "RESOURCE_MISSING_REPORTED", "ann") EXCEPT !.reason = "TOOL"]}}

DaySignals == {
    Signal("window", "START_WINDOW_ELAPSED", "dayA", None),
    Signal("early", "EARLY_FINISH_EVALUATED", "dayA", None),
    Signal("endOfDay", "END_OF_DAY_POLICY_SATISFIED", "dayA", None),
    Signal("roll", "DAY_ROLLED_OVER", None, None)}

-----------------------------------------------------------------------------
(* Requests.  A device repeats an event under a fresh server id; another   *)
(* event is presented under an id that may be taken; an event id comes     *)
(* with another payload.                                                   *)
Under(e, sid) == [Input(e) EXCEPT !.sid = sid]

CloseDay == OnDay("close", "DAY_CLOSE_REPORTED", "ann")
RequestInputs == {
    Under(CloseDay, "s1"), Under(CloseDay, "s2"),
    Under([CloseDay EXCEPT !.text = TRUE], "s1"),
    Under(OnDay("activate", "DAY_PLAN_ACTIVATED", "ann"), "s2")}
RequestSignals == {Signal("endOfDay", "END_OF_DAY_POLICY_SATISFIED", "dayA", None)}

(* One input for each kind of authority that hydration has to find: STOPs, *)
(* unsafe reports, the disputed completion, the stream of a directive.     *)
HydrationInputs ==
    {i \in CrewInputs : i.event.id \in {"done1", "dispute1", "unsafe1", "except4"}}
    \cup {i \in DirectiveInputs : i.event.id \in {"ack1", "ack2"}}
HydrationSignals == {g \in DirectiveSignals : g.id = "e1first"}

(* A photo with a missing tool, for a task whose job is left to the route. *)
RoutedPhoto == Input(
    [Envelope("routed", "RESOURCE_MISSING_REPORTED", "ann") EXCEPT
        !.task = "single", !.reason = "TOOL", !.attachments = {Photo("r1")}])

(* Evidence used by one task under one owner, and one report that storage  *)
(* refuses after the reducer has accepted it.                              *)
OwnedEvidenceInputs ==
    {i \in EvidenceInputs : i.event.id \in {"full", "dirty", "dispute", "missing"}}
    \cup {RoutedPhoto}

(* One photo reported twice for a task, for the job alone, for the crew    *)
(* task and for a directive alone.                                         *)
ReusedEvidenceInputs ==
    {i \in EvidenceInputs : i.event.id \in {"full", "dirty"}}
    \cup {Input([e EXCEPT !.text = TRUE, !.attachments = {Photo("r1")}]) : e \in {
            [Envelope("jobFact", "SCOPE_FACT_REPORTED", "ann") EXCEPT !.job = "j1"],
            StageEvent("crewFact", "SCOPE_FACT_REPORTED", "ann", None),
            OnDirective("stopFact", "SCOPE_FACT_REPORTED", "ann", "stop4")}}

(* The same photo with the completions of two stages. *)
StagePhotoInputs == {Input(e) : e \in {
    [StageEvent("done1", "STAGE_COMPLETION_REPORTED", "ann", "g1") EXCEPT
        !.attachments = {Photo("r1")}],
    [StageEvent("done2", "STAGE_COMPLETION_REPORTED", "ann", "g2") EXCEPT
        !.attachments = {Photo("r1")}]}}

================================================================================
