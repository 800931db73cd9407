------------------------------ MODULE Inputs ------------------------------
(***************************************************************************)
(* The measured inputs of the controller manager from Prometheus: node     *)
(* power, one grouped query per reconcile (nodepower.go), and the facility *)
(* readings of a poller that runs beside the reconcile loop (facility.go), *)
(* with the client of pkg/controller/inputs.  Prometheus changes its       *)
(* answers between any two queries.                                        *)
(*                                                                         *)
(* A value is the version of Prometheus it was read from; 0 is unknown.    *)
(***************************************************************************)
EXTENDS Naturals, Sequences, FiniteSets

CONSTANTS
    Nodes,      \* planned nodes
    Modes,      \* of the node power query: "auto", "labels", "target_info", "pernode"
    Singles,    \* facility inputs with one value, in the order of FacilityInputs
    Keyed,      \* facility inputs with a value per key, which come after them
    FacKeys,    \* zones, racks or nodes
    Answers,    \* answers to a node power query
    FacAnswers, \* answers to a facility query
    MaxVer      \* bound on the changes of Prometheus

ASSUME InputsAssumption ==
    /\ Modes \subseteq {"auto", "labels", "target_info", "pernode"}
    /\ MaxVer \in Nat \ {0}

Forms == {"labels", "target_info"}
FacilityInputs == 1..Len(Singles \o Keyed)
IsSingle(i) == i <= Len(Singles)

VARIABLES
    ver,       \* the version of Prometheus
    serve,     \* serve[f]: its answer to the node power query of form f
    serveFac,  \* serveFac[i]: its answer to the query of facility input i
    mode,      \* nodePowerSpec.ResourceAttributes, or a custom per-node query
    autoForm,  \* nodePowerAutoForm
    phase,     \* of the reconcile: "idle", "first", "second", "read"
    begun,     \* auxiliary: ver when the reconcile began
    todo,      \* nodes the reconcile has not read
    first,     \* r1 of groupedNodePower while the second form is asked
    round,     \* nodePowerRound.values, and in per-node mode the values so far
    reading,   \* reading[n]: the power and the facility the twin of n was built from
    planned,   \* the facility the policy planned with
    asking,    \* the facility input this poll asks next, 0 between polls
    polled,    \* auxiliary: ver when the poll began
    partial,   \* the poll's readings so far
    fm,        \* facilityMetrics.readings
    twinFac    \* twinFacility

promVars == <<ver, serve, serveFac>>
reconcileVars == <<autoForm, phase, begun, todo, first, round, reading, planned, twinFac>>
pollVars == <<asking, polled, partial, fm>>
inputVars == <<promVars, mode, reconcileVars, pollVars>>

-----------------------------------------------------------------------------
(* Answers.  An answer is an error, or samples: the value of the key label *)
(* ("" without one) and a value that is positive, zero or not finite.      *)

Finite(s) == s.v # "nan"
Labelled(s) == s.key # ""

\* Client.Query: anything but a vector or a scalar with readable samples is an error.
Answered(a) == ~a.err

(* ByLabel: samples without the label or a finite value are skipped, and   *)
(* two with one key are an error.                                          *)
ByLabel(a) ==
    LET S == a.samples
        good == {j \in DOMAIN S : Labelled(S[j]) /\ Finite(S[j])}
        dup == \E i, j \in good : i # j /\ S[i].key = S[j].key
        keys == {S[j].key : j \in good}
    IN  [err     |-> ~Answered(a) \/ dup,
         missing |-> \E j \in DOMAIN S : ~Labelled(S[j]),
         values  |-> IF ~Answered(a) \/ dup THEN [k \in {} |-> ""]
                     ELSE [k \in keys |-> S[CHOOSE j \in good : S[j].key = k].v]]

\* Single: exactly one sample, and finite.
Single(a) == Answered(a) /\ Len(a.samples) = 1 /\ Finite(a.samples[1])

\* perNodePower: the sum of the finite series of the node.
PerNode(a, n) == Answered(a) /\ \E j \in DOMAIN a.samples : a.samples[j] = [key |-> n, v |-> "watts"]

None == [k \in {} |-> ""]
NoRead == [err |-> TRUE, missing |-> FALSE, values |-> None]

autoFormWorks(form, r) ==
    ~r.err /\ DOMAIN r.values # {} /\ (form = "labels" => ~r.missing)

Other(form) == IF form = "labels" THEN "target_info" ELSE "labels"
FirstForm == IF mode # "auto" THEN mode ELSE IF autoForm = "" THEN "labels" ELSE autoForm

Unread == [n \in Nodes |-> 0]

\* The versions that the values of an answer read now stand for; a power
\* that is not positive is no data.
Versions(r) ==
    [n \in Nodes |-> IF n \in DOMAIN r.values /\ r.values[n] = "watts" THEN ver ELSE 0]

-----------------------------------------------------------------------------
(* The reconcile.                                                          *)

Idle == phase = "idle"
NoFacility == [i \in FacilityInputs |-> [k \in FacKeys |-> 0]]
NoReading == [power |-> 0, facility |-> NoFacility]

(* reconcileWithCatalogAndFacility: the snapshot and a new round, which    *)
(* the policy and every twin of this reconcile share.                      *)
BeginReconcile ==
    /\ Idle
    /\ twinFac' = fm /\ planned' = fm
    /\ begun' = ver
    /\ round' = Unread /\ first' = [read |-> NoRead, vers |-> Unread]
    /\ todo' = Nodes
    /\ phase' = IF mode = "pernode" THEN "read" ELSE "first"
    /\ UNCHANGED <<promVars, mode, autoForm, reading, pollVars>>

\* Once a form has worked the other is not asked again.
NeverLooksBack(r) == mode # "auto" \/ autoForm # "" \/ autoFormWorks(FirstForm, r)

Settles(r) == mode # "auto" \/ autoFormWorks(FirstForm, r)

\* groupedNodePower's first query; the form that worked last runs first.
QueryFirst ==
    /\ phase = "first"
    /\ LET r == ByLabel(serve[FirstForm])
       IN  IF Settles(r)
           THEN /\ round' = Versions(r) /\ phase' = "read"
                /\ autoForm' = IF mode = "auto" THEN FirstForm ELSE autoForm
                /\ UNCHANGED first
           ELSE /\ first' = [read |-> r, vers |-> Versions(r)] /\ phase' = "second"
                /\ UNCHANGED <<round, autoForm>>
    /\ UNCHANGED <<promVars, mode, begun, todo, reading, planned, twinFac, pollVars>>

\* When neither form works the larger answer is read.
LargerAnswer(r) ==
    IF Cardinality(DOMAIN r.values) > Cardinality(DOMAIN first.read.values) THEN Versions(r) ELSE first.vers

KeptForm(r) == IF autoFormWorks(Other(FirstForm), r) THEN Other(FirstForm) ELSE autoForm

QuerySecond ==
    /\ phase = "second" /\ phase' = "read"
    /\ LET r == ByLabel(serve[Other(FirstForm)])
       IN  /\ round' = IF autoFormWorks(Other(FirstForm), r) THEN Versions(r) ELSE LargerAnswer(r)
           /\ autoForm' = KeptForm(r)
    /\ first' = [read |-> NoRead, vers |-> Unread]
    /\ UNCHANGED <<promVars, mode, begun, todo, reading, planned, twinFac, pollVars>>

currentTwinFacility == twinFac

\* resolveNodePower and the facility of one twin.
ReadNode ==
    /\ phase = "read"
    /\ \E n \in todo :
        LET power == IF mode # "pernode" THEN round[n]
                     ELSE IF PerNode(serve["labels"], n) THEN ver ELSE 0
        IN  /\ reading' = [reading EXCEPT ![n] = [power |-> power, facility |-> currentTwinFacility]]
            /\ round' = [round EXCEPT ![n] = power]
            /\ todo' = todo \ {n}
    /\ UNCHANGED <<promVars, mode, autoForm, phase, begun, first, planned, twinFac, pollVars>>

EndReconcile ==
    /\ phase = "read" /\ todo = {}
    /\ phase' = "idle"
    /\ UNCHANGED <<promVars, mode, autoForm, begun, todo, first, round, reading, planned, twinFac, pollVars>>

Reconcile == BeginReconcile \/ QueryFirst \/ QuerySecond \/ ReadNode \/ EndReconcile

-----------------------------------------------------------------------------
(* The facility poller.                                                    *)

BeginPoll ==
    /\ asking = 0
    /\ asking' = 1 /\ polled' = ver /\ partial' = NoFacility
    /\ UNCHANGED <<promVars, mode, reconcileVars, fm>>

Known(S) == [k \in FacKeys |-> IF k \in S THEN ver ELSE 0]

\* A reading the poll could not get stays what it was.
KeepsEarlier(i) ==
    IF IsSingle(i) THEN IF Single(serveFac[i]) THEN Known(FacKeys) ELSE fm[i]
    ELSE Known(DOMAIN ByLabel(serveFac[i]).values)

\* readFacilityKeyed, or queryPrometheusScalar: what could not be read is unknown.
FacilityRead(i) ==
    IF IsSingle(i) THEN Known(IF Single(serveFac[i]) THEN FacKeys ELSE {})
    ELSE Known(DOMAIN ByLabel(serveFac[i]).values)

\* fetchFacilityMetrics: one query per input, then the store of all of them.
PollInput ==
    /\ asking # 0
    /\ LET sofar == [partial EXCEPT ![asking] = FacilityRead(asking)]
           last == asking = Len(Singles \o Keyed)
       IN  /\ partial' = IF last THEN NoFacility ELSE sofar
           /\ fm' = IF last THEN sofar ELSE fm
           /\ asking' = IF last THEN 0 ELSE asking + 1
    /\ UNCHANGED <<promVars, mode, reconcileVars, polled>>

Poll == BeginPoll \/ PollInput

\* Prometheus answers one of the queries in another way.
PromChanges ==
    /\ ver < MaxVer /\ ver' = ver + 1
    /\ \/ \E f \in Forms, a \in Answers : serve' = [serve EXCEPT ![f] = a] /\ UNCHANGED serveFac
       \/ \E i \in FacilityInputs, a \in FacAnswers : serveFac' = [serveFac EXCEPT ![i] = a] /\ UNCHANGED serve
    /\ UNCHANGED <<mode, reconcileVars, pollVars>>

InputsInit ==
    /\ ver = 1
    /\ serve \in [Forms -> Answers] /\ serveFac \in [FacilityInputs -> FacAnswers]
    /\ mode \in Modes /\ autoForm = ""
    /\ phase = "idle" /\ begun = 1 /\ todo = {}
    /\ first = [read |-> NoRead, vers |-> Unread] /\ round = Unread
    /\ reading = [n \in Nodes |-> NoReading] /\ planned = NoFacility
    /\ asking = 0 /\ polled = 1 /\ partial = NoFacility
    /\ fm = NoFacility /\ twinFac = NoFacility

InputsNext == Reconcile \/ Poll \/ PromChanges

-----------------------------------------------------------------------------
(* Properties.                                                             *)

(* One facility snapshot serves a reconcile: the twins read what the       *)
(* policy planned with, whatever the poller stores meanwhile (the comment  *)
(* in reconcileWithCatalog).                                               *)
OneSnapshot == phase = "read" => \A n \in Nodes \ todo : reading[n].facility = planned

\* The reconcile's power readings, and the facility's, as views of Prometheus.
PowerView == INSTANCE OneAnswer WITH Keys <- Nodes, grouped <- mode # "pernode",
    world <- ver, asked <- begun, view <- round

FacilityView == INSTANCE OneAnswer WITH Keys <- FacilityInputs \X FacKeys, grouped <- FALSE,
    world <- ver, asked <- polled, view <- [ik \in FacilityInputs \X FacKeys |-> fm[ik[1]][ik[2]]]

(* The grouped query is one answer of this reconcile: no node's power is   *)
(* of an earlier one, or of another answer than its neighbour's            *)
(* (nodePowerRound, groupedNodePower). A facility reading is of the last   *)
(* poll or unknown, never of an earlier poll (facilitySnapshot), and one   *)
(* snapshot serves a reconcile's policy and its twins (OneSnapshot).       *)
ReadingsAreOneAnswer == PowerView!Spec /\ FacilityView!Spec /\ []OneSnapshot

Reads(form, r) == autoFormWorks(form, r) /\ \A n \in Nodes : n \in DOMAIN r.values /\ r.values[n] = "watts"

\* Prometheus has come to rest, and a form names every node while the other
\* does not work.
OneFormServes ==
    /\ ver = MaxVer /\ mode = "auto"
    /\ \E f \in Forms : Reads(f, ByLabel(serve[f])) /\ ~autoFormWorks(Other(f), ByLabel(serve[Other(f)]))

(* Under auto, the nodes are read whichever form serves them, also when    *)
(* the form that worked before stops working or answers with less.         *)
FormIsFound == OneFormServes ~> (Idle /\ \A n \in Nodes : reading[n].power = MaxVer)
============================================================================
