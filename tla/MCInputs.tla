----------------------------- MODULE MCInputs -----------------------------
(* The source of the controller manager's node power (resolveNodePower):   *)
(* Prometheus with the facility poller beside it, or the HTTP endpoint.    *)
EXTENDS Inputs, PowerReader

VARIABLE source

Sample(k, v) == [key |-> k, v |-> v]
Of(samples) == [err |-> FALSE, samples |-> samples]
Down == [err |-> TRUE, samples |-> <<>>]

FullAnswer == Of(<<Sample("n1", "watts"), Sample("n2", "watts")>>)
NodeAnswers == {Down, FullAnswer,
    Of(<<Sample("n1", "watts"), Sample("", "watts")>>),   \* a series without the node label
    Of(<<Sample("n1", "zero"), Sample("n2", "watts")>>)}

FacilityAnswers == {Down, Of(<<Sample("n1", "watts")>>),
    Of(<<Sample("n1", "watts"), Sample("n1", "watts")>>)} \* two series for one value

OneSingle == <<"it power">>
OneKeyed == <<"rack power">>

OneComponent == [s \in Series |-> "cpu"]

vars == <<source, inputVars, powerVars>>

Init ==
    /\ InputsInit /\ PowerInit
    /\ source \in {"prometheus", "http"}
    /\ source = "http" => mode = "auto" /\ serve = [f \in Forms |-> Down] /\ serveFac = [i \in FacilityInputs |-> Down]

Next ==
    \/ source = "prometheus" /\ InputsNext /\ UNCHANGED <<source, powerVars>>
    \/ source = "http" /\ PowerNext /\ UNCHANGED <<source, inputVars>>

(* Both loops run on tickers, and a query ends at its timeout.             *)
FromPrometheus(A) == source = "prometheus" /\ A /\ UNCHANGED <<source, powerVars>>
Spec == Init /\ [][Next]_vars /\ WF_vars(FromPrometheus(Reconcile)) /\ WF_vars(FromPrometheus(Poll))
============================================================================
