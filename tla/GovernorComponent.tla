------------------------- MODULE GovernorComponent -------------------------
(***************************************************************************)
(* The control state of one governor component, the CPU's or the GPU's,    *)
(* and its methods as operators from record to record                      *)
(* (governorComponent of cmd/agent/governor_control.go).  The fields that  *)
(* only one mechanism has are the business of the module that models it.   *)
(* A status is a record with a field result, and expect is the set of what *)
(* the node reads while the setting holds.  Times are ticks counted up to  *)
(* the limit they are compared with.                                       *)
(***************************************************************************)
EXTENDS Naturals, Sequences, FiniteSets

CONSTANTS
    Reapply,     \* governorReapplyEvery, in ticks
    Window,      \* governorDriftWindow
    DriftLimit,  \* governorDriftLimit
    Retry        \* governorRetryAfter

ASSUME ComponentAssumption ==
    Reapply \in Nat /\ Window \in Nat /\ DriftLimit \in Nat /\ Retry \in Nat

Results == {"applied", "unverified", "unsupported", "not-applied", "refused",
            "drift", "contended", "disabled", "restored", "error"}

NoRetry == Retry + 1
DriftTimes == Seq(0..Window)
RetryTimes == 0..NoRetry
ApplyTimes == 0..Reapply

startIntent(k, i) ==
    [k EXCEPT !.intent = i, !.expect = {}, !.verified = FALSE,
              !.drifted = FALSE, !.contended = FALSE, !.drifts = <<>>,
              !.retry = NoRetry]

\* A write the driver did not take, never tried again.
DropsRetry(k, st, wrote) ==
    [k EXCEPT !.sinceApply = 0, !.changed = k.changed \/ wrote,
              !.status = st, !.good = st, !.verified = k.expect = {},
              !.drifted = FALSE, !.retry = NoRetry,
              !.refused = k.refused \/ st.result = "refused"]

(* applyNow, after the writes: st is the outcome's status and wrote says   *)
(* whether anything was written.                                           *)
applyNow(k, st, wrote) ==
    [k EXCEPT !.sinceApply = 0,
              !.changed = k.changed \/ wrote,
              !.status = st, !.good = st,
              !.verified = k.expect = {},
              !.drifted = FALSE,
              !.refused = k.refused \/ st.result = "refused",
              !.retry = IF st.result \in {"unsupported", "not-applied"} THEN Retry ELSE NoRetry]

\* checkNow while the setting holds.
checkHolds(k) ==
    [k EXCEPT !.verified = TRUE, !.drifted = FALSE,
              !.status = IF k.status.result = "drift" THEN k.good ELSE k.status]

\* checkNow when the very first check after a write fails: the driver dropped it.
checkDropped(k) ==
    [k EXCEPT !.status = [k.good EXCEPT !.result = "not-applied"], !.retry = Retry]

\* Reported as contended, and written all the same.
ContendedInName(k) ==
    [k EXCEPT !.drifted = TRUE, !.drifts = Append(k.drifts, 0),
              !.status = [k.good EXCEPT !.result = "contended"]]

\* The drifts still in the window: the list is oldest first.
recentDrifts(k) ==
    SubSeq(k.drifts, 1 + Cardinality({j \in DOMAIN k.drifts : k.drifts[j] >= Window}), Len(k.drifts))

(* checkNow's new drift: the third within the window means another writer  *)
(* holds the setting.                                                      *)
checkDrift(k) ==
    LET drifts == Append(recentDrifts(k), 0)
        limit == Len(drifts) >= DriftLimit
    IN  [k EXCEPT !.drifted = TRUE,
                  !.drifts = drifts,
                  !.contended = limit,
                  !.status = [k.good EXCEPT !.result = IF limit THEN "contended" ELSE "drift"]]

\* release's reset of the state of an intent that is gone.
endIntent(k, none) == [k EXCEPT !.intent = none, !.expect = {}]

\* The other writer of a contended setting owns it now.
Released(k) == IF k.contended THEN [k EXCEPT !.changed = FALSE, !.contended = FALSE] ELSE k

\* release after a restore with status st: the baseline is back, the driver
\* refused it, or it is tried again later.
releaseDone(k, none, st) ==
    [endIntent(k, none) EXCEPT
        !.drifts = <<>>, !.drifted = FALSE,
        !.sinceApply = 0, !.status = st, !.good = st,
        !.changed = st.result # "restored",
        !.refused = k.refused \/ st.result = "refused",
        !.retry = IF st.result \in {"restored", "refused"} THEN NoRetry ELSE Retry]

Older(age, limit) == IF age < limit THEN age + 1 ELSE age

\* The passing of a tick, as the times of the component feel it.
Aged(k) ==
    [k EXCEPT !.retry = IF @ \in 1..Retry THEN @ - 1 ELSE @,
              !.sinceApply = Older(@, Reapply),
              !.drifts = [j \in DOMAIN @ |-> Older(@[j], Window)]]
============================================================================
