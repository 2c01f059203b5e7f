----------------------------- MODULE MCFieldState -----------------------------
(***************************************************************************)
(* FieldState on the instances of M2Scenarios.  A behaviour plays one      *)
(* scenario: it takes the steps of FieldState whose inputs, contexts and   *)
(* directives belong to the scenario.                                      *)
(***************************************************************************)
EXTENDS FieldState, M2Scenarios

CONSTANT Plays      \* the scenarios of this run

VARIABLE scenario   \* the scenario that is played

Scenarios ==
    [crew |-> [inputs |-> CrewInputs, signals |-> {}, contexts |-> OneContext,
               directives |-> {"stop4"}],
     evidence |-> [inputs |-> EvidenceInputs, signals |-> {},
                   contexts |-> PolicyContexts, directives |-> {}],
     directives |-> [inputs |-> DirectiveInputs, signals |-> DirectiveSignals,
                     contexts |-> OneContext, directives |-> Directives],
     exception |-> [inputs |-> ExceptionInputs, signals |-> {},
                    contexts |-> OneContext, directives |-> Directives],
     day |-> [inputs |-> DayInputs, signals |-> DaySignals,
              contexts |-> TimedContexts, directives |-> {}],
     report |-> [inputs |-> ReportInputs, signals |-> {},
                 contexts |-> TimedContexts, directives |-> {}]]

WorkInputs == CrewInputs \cup EvidenceInputs
PlanInputs == DirectiveInputs \cup DayInputs \cup ReportInputs
PlanSignals == DirectiveSignals \cup DaySignals

(* Days and reports start from nothing.  The other scenarios start when  *)
(* the job and the days are materialised and no input has arrived: a       *)
(* reachable state of Spec.                                                *)
ScenarioInit ==
    /\ scenario \in Plays
    /\ IF scenario \in {"day", "report"} THEN Init
       ELSE /\ scope = [EmptyScope EXCEPT !.jobs = Jobs, !.days = PlanDays]
            /\ emitted = {}

ScenarioNext ==
    /\ UNCHANGED scenario
    /\ LET play == Scenarios[scenario] IN
       \/ \E d \in PlanDays : CreatePlanDayRoot(d)
       \/ \E j \in Jobs : CreateJobExecutionRoot(j)
       \/ \E x \in play.directives : CreateDirectiveRoot(x)
       \/ \E i \in play.inputs, c \in play.contexts : SubmitEvent(i, c)
       \/ \E g \in play.signals, c \in play.contexts : SubmitSignal(g, c)

ScenarioSpec == ScenarioInit /\ [][ScenarioNext]_<<vars, scenario>>

=============================================================================
