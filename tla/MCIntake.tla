------------------------------ MODULE MCIntake ------------------------------
(***************************************************************************)
(* Two jobs that share a conversation; two follow-ups with the same base,  *)
(* dormancy between them; the creation repeated and reused with another    *)
(* body.                                                                   *)
(***************************************************************************)
EXTENDS HandoffPublication, TLC

Facts(address, scope) ==
    NormalizeJobIntake([n \in {"ADDRESS"} |-> address], {"SCOPE"}, {"ADDRESS"}, scope)

Fact(v) == [value |-> v, knowledge |-> "KNOWN", verification |-> "UNVERIFIED",
            source |-> "sms"]

Op(kind, event, job, conv) ==
    [kind |-> kind, ns |-> "sms", event |-> event, job |-> job, conv |-> conv,
     facts |-> <<>>, base |-> <<>>, evidence |-> None, body |-> "x"]

Create == [Op("CREATE_JOB", "e1", "j1", "c1") EXCEPT !.facts = Facts("a", "sms")]
Bind   == Op("BIND_CONVERSATION", "e3", "j2", "c1")
Both   == [Op("RECORD_FOLLOW_UP", "e4", None, "c1") EXCEPT
              !.facts = [n \in {"ADDRESS", "SCOPE"} |-> Fact("b")],
              !.base = [n \in {"ADDRESS", "SCOPE"} |-> 1]]
One    == [Op("RECORD_FOLLOW_UP", "e5", "j1", "c1") EXCEPT
              !.facts = [n \in {"ADDRESS"} |-> Fact("a")],
              !.base = [n \in {"ADDRESS"} |-> 1]]
Reused == [Create EXCEPT !.body = "y"]
Sleep  == [Op("MARK_DORMANT", "e6", "j1", None) EXCEPT !.evidence = <<"sms", "e5">>]
Wake   == Op("WAKE_JOB", "e8", "j1", None)
NoKey  == Op("WAKE_JOB", None, "j1", None)

MCRequests ==
    {[op |-> o, at |-> 1] : o \in {Create, Bind, Both, One, Sleep, Wake, NoKey}}
    \cup {[op |-> Reused, at |-> 1], [op |-> Create, at |-> 2]}

MCDirect ==
    {[kind |-> "create_job", job |-> "j2", at |-> 1, facts |-> Facts("b", "desk")],
     [kind |-> "record_fact", job |-> "j1", at |-> 2, name |-> "SCOPE",
      content |-> Fact("a"), expected |-> 1]}

MCJobs == {"j1", "j2"}
MCFactNames == {"ADDRESS", "SCOPE"}
MCValues == {"a", "b"}
MCSources == {"sms", "desk"}
MCNamespaces == {"sms"}
MCConversations == {"c1"}
MCEventIds == {"e1", "e3", "e4", "e5", "e6", "e8", "e9"}

(* The first job exists; its creation may still be repeated.               *)
ReadyInit ==
    LET x == Executed(EmptyDb, [op |-> Create, at |-> 1])
    IN  /\ db = x.db
        /\ returned = {[op |-> Create, result |-> x.result]}
        /\ draft = [p \in Publishers |-> None]
        /\ published = <<>>

ReadySpec == ReadyInit /\ [][Next]_vars

PublisherSymmetry == Permutations(Publishers)

ASSUME NormalizedAssumption ==
    \A c \in {Create} : \A n \in DOMAIN c.facts : c.facts[n] \in FactInput
=============================================================================
