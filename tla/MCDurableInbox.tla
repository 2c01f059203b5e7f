---------------------------- MODULE MCDurableInbox ----------------------------
(***************************************************************************)
(* DurableInbox on the instances of M2Scenarios.  A behaviour plays one    *)
(* scenario: concurrent requests with a crash, one input for each kind of  *)
(* authority that hydration looks up, evidence owned by one task with a    *)
(* report that storage refuses, or a photo reported for several owners.    *)
(***************************************************************************)
EXTENDS DurableInbox, M2Scenarios

CONSTANT Plays      \* the scenarios of this run

VARIABLE scenario   \* the scenario that is played

Scenarios ==
    [requests |-> [inputs |-> RequestInputs \cup RequestSignals, clients |-> Clients,
                   contexts |-> RuleContexts, directives |-> {}],
     hydration |-> [inputs |-> HydrationInputs \cup HydrationSignals,
                    clients |-> {CHOOSE c \in Clients : TRUE},
                    contexts |-> OneContext, directives |-> Directives],
     evidence |-> [inputs |-> OwnedEvidenceInputs, clients |-> Clients,
                   contexts |-> OneContext, directives |-> {}],
     reuse |-> [inputs |-> ReusedEvidenceInputs,
                clients |-> {CHOOSE c \in Clients : TRUE},
                contexts |-> OneContext, directives |-> {"stop4"}],
     stagePhoto |-> [inputs |-> StagePhotoInputs, clients |-> Clients,
                     contexts |-> OneContext, directives |-> {}]]

DurableInputs ==
    RequestInputs \cup HydrationInputs \cup OwnedEvidenceInputs \cup ReusedEvidenceInputs
DurableSignals == RequestSignals \cup HydrationSignals

ScenarioInit == scenario \in Plays /\ Init

(* The roots come first: every input finds the job and both days.          *)
(* (FieldState is checked for inputs that come before their roots.)        *)
ScenarioNext ==
    /\ UNCHANGED scenario
    /\ LET play == Scenarios[scenario] IN
       \/ \E d \in PlanDays : CreatePlanDayRoot(d)
       \/ \E j \in Jobs : CreateJobExecutionRoot(j)
       \/ \E x \in play.directives : CreateDirectiveRoot(x)
       \/ /\ roots.jobs = Jobs /\ roots.days = PlanDays
          /\ \E c \in play.clients, i \in play.inputs :
                \/ \E x \in play.contexts : AcceptNew(c, i, x)
                \/ AcceptPending(c, i)
                \/ AcceptConflict(c, i)
                \/ AcceptCompleted(c, i)
       \/ \E c \in play.clients : ProcessInput(c)
       \/ \E c \in play.clients : scenario = "requests" /\ Crash(c)

ScenarioSpec == ScenarioInit /\ [][ScenarioNext]_<<vars, scenario>>
FairScenarioSpec == ScenarioSpec /\ Fairness

(* AcceptedIsCompleted and AcceptedIsProcessable, in the scenarios whose   *)
(* evidence stays with its first owner: where it does not, storage refuses *)
(* some of what the reducer accepts.                                       *)
Storable == scenario \notin {"evidence", "reuse"}
StorableIsCompleted == Storable => AcceptedIsCompleted
StorableIsProcessable == Storable => AcceptedIsProcessable

=============================================================================
