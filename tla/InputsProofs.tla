---------------------------- MODULE InputsProofs ----------------------------
(***************************************************************************)
(* The readers of Prometheus implement OneAnswer for every set of nodes,   *)
(* every list of facility inputs, every answer Prometheus may give and     *)
(* every interleaving of the reconcile, the poller and the changes.  The   *)
(* rates of PowerReader are what the components drew, for every set of     *)
(* series and components, every window, lag and power, and every order of  *)
(* ticks, restarts, documents and reads.  What the telemetry of an         *)
(* emulating simulator exports is true, for every list of nodes and every  *)
(* order of ticks, exports, late requests, faults, crashes and restarts.   *)
(***************************************************************************)
EXTENDS Inputs, PowerReader, Export, Totals, SequenceTheorems

InputsSpec == InputsInit /\ [][InputsNext]_inputVars

\* What was read since version `since`, or unknown.
Since(v, since) == {0} \cup (since..v)

\* The values of one answer.
OneVersion(view) == \A m, n \in Nodes : view[m] # 0 /\ view[n] # 0 => view[m] = view[n]

(* What a reconcile holds was read since it began, what it keeps of the    *)
(* first form is of one answer, and its snapshot is the one it planned     *)
(* with.                                                                   *)
ReconcileInv ==
    /\ begun \in Nat /\ begun <= ver
    /\ todo \subseteq Nodes /\ (phase \in {"first", "second"} => todo = Nodes)
    /\ round \in [Nodes -> Since(ver, begun)]
    /\ first.vers \in [Nodes -> Since(ver, begun)] /\ OneVersion(first.vers)
    /\ reading = [n \in Nodes |-> reading[n]]
    /\ twinFac = planned

(* What a poll has gathered was read since it began.                       *)
PollInv ==
    /\ polled \in Nat /\ polled <= ver
    /\ partial \in [FacilityInputs -> [FacKeys -> Since(ver, polled)]]

IInv == ver \in Nat /\ ReconcileInv /\ PollInv /\ OneSnapshot

-----------------------------------------------------------------------------
(* An answer read now is of one version, and that version is the present.  *)
LEMMA AnswerIsNow ==
    ASSUME ver \in Nat, NEW since \in Nat, since <= ver, NEW r
    PROVE  Versions(r) \in [Nodes -> Since(ver, since)] /\ OneVersion(Versions(r))
  BY DEF Versions, Since, OneVersion

(* What the facility inputs answer now is of the present version.          *)
LEMMA KnownIsNow ==
    ASSUME ver \in Nat, NEW since \in Nat, since <= ver, NEW S
    PROVE  Known(S) \in [FacKeys -> Since(ver, since)]
  BY DEF Known, Since

(* Nothing read is of one version.                                         *)
LEMMA UnreadIsSince ==
    ASSUME NEW v, NEW since
    PROVE  Unread \in [Nodes -> Since(v, since)] /\ OneVersion(Unread)
  BY DEF Unread, Since, OneVersion

(* So is a poll that has read nothing.                                     *)
LEMMA NoFacilityIsSince ==
    ASSUME NEW v, NEW since
    PROVE  NoFacility \in [FacilityInputs -> [FacKeys -> Since(v, since)]]
  BY DEF NoFacility, Since

(* Nothing has been read at first.                                         *)
LEMMA InitInv == InputsInit => IInv
  <1> SUFFICES ASSUME InputsInit PROVE IInv
    OBVIOUS
  <1>1. ver = 1 /\ begun = 1 /\ polled = 1 /\ todo = {} /\ phase = "idle"
        /\ first.vers = Unread /\ round = Unread /\ twinFac = planned /\ partial = NoFacility
        /\ reading = [n \in Nodes |-> NoReading]
    BY DEF InputsInit
  <1>2. ReconcileInv
    BY <1>1, UnreadIsSince DEF ReconcileInv
  <1>3. PollInv
    BY <1>1, NoFacilityIsSince DEF PollInv
  <1> QED
    BY <1>1, <1>2, <1>3 DEF IInv, OneSnapshot

-----------------------------------------------------------------------------
(* Steps of the reconcile.                                                 *)

(* A reconcile that begins forgets what the last one read, and takes the   *)
(* poll's snapshot.                                                        *)
LEMMA BeginKeeps == ASSUME IInv, BeginReconcile PROVE IInv'
  <1>1. /\ twinFac' = fm /\ planned' = fm /\ begun' = ver /\ round' = Unread /\ first'.vers = Unread
        /\ todo' = Nodes /\ ver' = ver /\ reading' = reading /\ UNCHANGED pollVars
    BY DEF BeginReconcile, promVars
  <1>2. ReconcileInv'
    BY <1>1, UnreadIsSince DEF IInv, ReconcileInv
  <1> QED
    BY <1>1, <1>2 DEF IInv, PollInv, pollVars, OneSnapshot

(* The first form's answer is of the present version.                      *)
LEMMA FirstKeeps == ASSUME IInv, QueryFirst PROVE IInv'
  <1> DEFINE r == ByLabel(serve[FirstForm])
  <1>1. /\ phase = "first" /\ ver' = ver
        /\ UNCHANGED <<begun, todo, reading, planned, twinFac, pollVars>>
    BY DEF QueryFirst, promVars
  <1>2. \/ round' = Versions(r) /\ first' = first
        \/ first'.vers = Versions(r) /\ round' = round
    BY DEF QueryFirst
  <1>3. Versions(r) \in [Nodes -> Since(ver, begun)] /\ OneVersion(Versions(r))
    BY AnswerIsNow DEF IInv, ReconcileInv
  <1>4. todo = Nodes
    BY <1>1 DEF IInv, ReconcileInv
  <1> HIDE DEF r
  <1>5. ReconcileInv'
    BY <1>1, <1>2, <1>3, <1>4 DEF IInv, ReconcileInv
  <1> QED
    BY <1>1, <1>4, <1>5 DEF IInv, PollInv, pollVars, OneSnapshot

(* The round takes one of the two answers, never a mix.                    *)
LEMMA SecondKeeps == ASSUME IInv, QuerySecond PROVE IInv'
  <1> DEFINE r == ByLabel(serve[Other(FirstForm)])
  <1>1. /\ phase = "second" /\ phase' = "read" /\ ver' = ver /\ first'.vers = Unread
        /\ UNCHANGED <<begun, todo, reading, planned, twinFac, pollVars>>
    BY DEF QuerySecond, promVars
  <1>2. round' = Versions(r) \/ round' = first.vers
    BY DEF QuerySecond, LargerAnswer
  <1>3. Versions(r) \in [Nodes -> Since(ver, begun)]
    BY AnswerIsNow DEF IInv, ReconcileInv
  <1>4. todo = Nodes
    BY <1>1 DEF IInv, ReconcileInv
  <1> HIDE DEF r
  <1>5. ReconcileInv'
    BY <1>1, <1>2, <1>3, <1>4, UnreadIsSince DEF IInv, ReconcileInv
  <1> QED
    BY <1>1, <1>4, <1>5 DEF IInv, PollInv, pollVars, OneSnapshot

(* A node's reading comes from the round, or from its own query.           *)
LEMMA ReadKeeps == ASSUME IInv, ReadNode PROVE IInv'
  <1>1. PICK n \in todo : \E got :
            /\ got = (IF mode # "pernode" THEN round[n] ELSE IF PerNode(serve["labels"], n) THEN ver ELSE 0)
            /\ reading' = [reading EXCEPT ![n] = [power |-> got, facility |-> twinFac]]
            /\ round' = [round EXCEPT ![n] = got]
            /\ todo' = todo \ {n}
    BY DEF ReadNode, currentTwinFacility
  <1>2. PICK got :
            /\ got = (IF mode # "pernode" THEN round[n] ELSE IF PerNode(serve["labels"], n) THEN ver ELSE 0)
            /\ reading' = [reading EXCEPT ![n] = [power |-> got, facility |-> twinFac]]
            /\ round' = [round EXCEPT ![n] = got]
            /\ todo' = todo \ {n}
    BY <1>1
  <1>3. /\ phase = "read" /\ phase' = "read" /\ ver' = ver
        /\ UNCHANGED <<begun, first, planned, twinFac, pollVars>>
    BY DEF ReadNode, promVars
  <1>4. got \in Since(ver, begun)
    BY <1>2 DEF IInv, ReconcileInv, Since
  <1>5. ReconcileInv'
    BY <1>2, <1>3, <1>4 DEF IInv, ReconcileInv
  <1>6. OneSnapshot'
    BY <1>2, <1>3 DEF IInv, ReconcileInv, OneSnapshot
  <1> QED
    BY <1>3, <1>5, <1>6 DEF IInv, PollInv, pollVars

(* The end of a reconcile reads nothing.                                   *)
LEMMA EndKeeps == ASSUME IInv, EndReconcile PROVE IInv'
  BY DEF EndReconcile, IInv, ReconcileInv, PollInv, OneSnapshot, promVars, pollVars

-----------------------------------------------------------------------------
(* Steps of the poller, and of Prometheus.                                 *)

(* A facility input is read now.                                           *)
LEMMA FacilityReadType ==
    ASSUME ver \in Nat, NEW since \in Nat, since <= ver, NEW i
    PROVE  FacilityRead(i) \in [FacKeys -> Since(ver, since)]
  BY KnownIsNow DEF FacilityRead

(* A poll that reads one more input stays within its own time.             *)
LEMMA GatheredType ==
    ASSUME IInv
    PROVE  [partial EXCEPT ![asking] = FacilityRead(asking)] \in [FacilityInputs -> [FacKeys -> Since(ver, polled)]]
  BY FacilityReadType DEF IInv, PollInv

(* A poll changes what it gathers, and the snapshot when it is done.       *)
LEMMA PollKeeps == ASSUME IInv, Poll PROVE IInv'
  <1>1. UNCHANGED <<ver, reconcileVars>>
    BY DEF Poll, BeginPoll, PollInput, promVars
  <1>2. ver' \in Nat /\ ReconcileInv' /\ OneSnapshot'
    BY <1>1 DEF IInv, ReconcileInv, OneSnapshot, reconcileVars
  <1>3. CASE BeginPoll
    BY <1>1, <1>2, <1>3, NoFacilityIsSince DEF BeginPoll, IInv, PollInv
  <1>4. CASE PollInput
    <2>1. partial' \in [FacilityInputs -> [FacKeys -> Since(ver, polled)]]
      BY <1>4, GatheredType, NoFacilityIsSince DEF PollInput
    <2> QED
      BY <1>1, <1>2, <1>4, <2>1 DEF PollInput, IInv, PollInv
  <1> QED
    BY <1>3, <1>4 DEF Poll

(* What was read since a time still was when Prometheus changes.           *)
LEMMA ChangeKeeps == ASSUME IInv, PromChanges PROVE IInv'
  <1>1. ver' = ver + 1 /\ UNCHANGED <<reconcileVars, pollVars>>
    BY DEF PromChanges
  <1>2. \A since \in Nat : Since(ver, since) \subseteq Since(ver', since)
    BY <1>1 DEF IInv, Since
  <1>3. ReconcileInv'
    BY <1>1, <1>2 DEF IInv, ReconcileInv, reconcileVars
  <1>4. PollInv'
    BY <1>1, <1>2 DEF IInv, PollInv, pollVars
  <1> QED
    BY <1>1, <1>3, <1>4 DEF IInv, OneSnapshot, reconcileVars

(* Every step keeps the invariant.                                         *)
LEMMA NextKeeps == IInv /\ [InputsNext]_inputVars => IInv'
  <1> SUFFICES ASSUME IInv, [InputsNext]_inputVars PROVE IInv'
    OBVIOUS
  <1>1. CASE Reconcile
    BY <1>1, BeginKeeps, FirstKeeps, SecondKeeps, ReadKeeps, EndKeeps DEF Reconcile
  <1>2. CASE Poll
    BY <1>2, PollKeeps
  <1>3. CASE PromChanges
    BY <1>3, ChangeKeeps
  <1>4. CASE UNCHANGED inputVars
    BY <1>4 DEF inputVars, promVars, reconcileVars, pollVars, IInv, ReconcileInv, PollInv, OneSnapshot
  <1> QED
    BY <1>1, <1>2, <1>3, <1>4 DEF InputsNext

(* The invariant holds always.                                             *)
LEMMA AlwaysIInv == InputsSpec => []IInv
  BY InitInv, NextKeeps, PTL DEF InputsSpec

-----------------------------------------------------------------------------
(* The refinements, step by step.                                          *)

(* Every step is one of the abstract reader of node power, or none.        *)
LEMMA PowerStep ==
    IInv /\ [InputsNext]_inputVars => [PowerView!Next]_<<mode # "pernode", ver, begun, round>>
  <1> SUFFICES ASSUME IInv, [InputsNext]_inputVars
               PROVE  PowerView!Next \/ UNCHANGED <<mode # "pernode", ver, begun, round>>
    OBVIOUS
  <1> USE DEF PowerView!Next
  <1>1. CASE BeginReconcile
    BY <1>1 DEF BeginReconcile, promVars, PowerView!Begin, PowerView!Unknown, Unread
  <1>2. ASSUME NEW view \in [Nodes -> Since(ver, begun)], mode # "pernode" => OneVersion(view),
               round' = view, UNCHANGED <<mode, ver, begun>>
        PROVE  PowerView!Replace
    BY <1>2 DEF PowerView!Replace, PowerView!Views, Since, OneVersion
  <1>3. CASE QueryFirst
    <2>1. \/ round' = Versions(ByLabel(serve[FirstForm]))
          \/ round' = round
      BY <1>3 DEF QueryFirst
    <2>2. UNCHANGED <<mode, ver, begun>>
      BY <1>3 DEF QueryFirst, promVars
    <2> QED
      BY <1>2, <2>1, <2>2, AnswerIsNow DEF IInv, ReconcileInv
  <1>4. CASE QuerySecond
    <2>1. \/ round' = Versions(ByLabel(serve[Other(FirstForm)]))
          \/ round' = first.vers
      BY <1>4 DEF QuerySecond, LargerAnswer
    <2>2. UNCHANGED <<mode, ver, begun>>
      BY <1>4 DEF QuerySecond, promVars
    <2> QED
      BY <1>2, <2>1, <2>2, AnswerIsNow DEF IInv, ReconcileInv
  <1>5. CASE ReadNode
    <2>1. PICK n \in todo : round' = [round EXCEPT ![n] =
              IF mode # "pernode" THEN round[n] ELSE IF PerNode(serve["labels"], n) THEN ver ELSE 0]
      BY <1>5 DEF ReadNode
    <2>2. UNCHANGED <<mode, ver, begun>>
      BY <1>5 DEF ReadNode, promVars
    <2>3. CASE mode # "pernode"
      <3>1. round' = round
        BY <2>1, <2>3 DEF IInv, ReconcileInv
      <3> QED
        BY <2>2, <3>1
    <2>4. CASE mode = "pernode"
      <3>1. round' \in [Nodes -> Since(ver, begun)]
        BY <2>1, <2>4 DEF IInv, ReconcileInv, Since
      <3> QED
        BY <1>2, <2>2, <2>4, <3>1
    <2> QED
      BY <2>3, <2>4
  <1>6. CASE EndReconcile \/ Poll \/ UNCHANGED inputVars
    BY <1>6 DEF EndReconcile, Poll, BeginPoll, PollInput, inputVars, promVars, reconcileVars
  <1>7. CASE PromChanges
    BY <1>7 DEF PromChanges, reconcileVars, PowerView!Changes
  <1> QED
    BY <1>1, <1>3, <1>4, <1>5, <1>6, <1>7 DEF InputsNext, Reconcile

FacilityShown == [ik \in FacilityInputs \X FacKeys |-> fm[ik[1]][ik[2]]]

(* Every step is one of the abstract reader of the facility, or none.      *)
LEMMA FacilityStep ==
    IInv /\ [InputsNext]_inputVars => [FacilityView!Next]_<<FALSE, ver, polled, FacilityShown>>
  <1> SUFFICES ASSUME IInv, [InputsNext]_inputVars
               PROVE  FacilityView!Next \/ UNCHANGED <<ver, polled, FacilityShown>>
    OBVIOUS
  <1> USE DEF FacilityView!Next
  <1>1. CASE BeginPoll
    BY <1>1 DEF BeginPoll, promVars, FacilityView!Begin
  <1>2. CASE PollInput
    <2> DEFINE sofar == [partial EXCEPT ![asking] = FacilityRead(asking)]
    <2>1. fm' = fm \/ fm' = sofar
      BY <1>2 DEF PollInput
    <2>2. UNCHANGED <<ver, polled>>
      BY <1>2 DEF PollInput, promVars
    <2>3. sofar \in [FacilityInputs -> [FacKeys -> Since(ver, polled)]]
      BY GatheredType
    <2> HIDE DEF sofar
    <2>4. CASE fm' = fm
      BY <2>2, <2>4 DEF FacilityShown
    <2>5. CASE fm' = sofar
      <3>1. FacilityShown' \in [FacilityInputs \X FacKeys -> Since(ver, polled)]
        BY <2>3, <2>5 DEF FacilityShown
      <3> QED
        BY <2>2, <3>1 DEF FacilityView!Replace, FacilityView!Views, Since, FacilityShown
    <2> QED
      BY <2>1, <2>4, <2>5
  <1>3. CASE PromChanges
    BY <1>3 DEF PromChanges, pollVars, FacilityView!Changes
  <1>4. CASE Reconcile \/ UNCHANGED inputVars
    BY <1>4 DEF Reconcile, BeginReconcile, QueryFirst, QuerySecond, ReadNode, EndReconcile,
                inputVars, promVars, pollVars, FacilityShown
  <1> QED
    BY <1>1, <1>2, <1>3, <1>4 DEF InputsNext, Poll

(* Node power and the facility readings are each what one round of queries *)
(* answered, or unknown, and one snapshot of the facility serves the       *)
(* policy and the twins of a reconcile (nodePowerRound, groupedNodePower,  *)
(* fetchFacilityMetrics, facilitySnapshot), for every set of constants.    *)
THEOREM ReadersGiveOneAnswer == InputsSpec => ReadingsAreOneAnswer
  <1>1. InputsInit => PowerView!Init
    BY DEF InputsInit, PowerView!Init, PowerView!Unknown, Unread
  <1>2. InputsInit => FacilityView!Init
    <2> SUFFICES ASSUME InputsInit PROVE FacilityView!Init
      OBVIOUS
    <2>1. fm = NoFacility /\ ver = 1 /\ polled = 1
      BY Zenon DEF InputsInit
    <2>2. [ik \in FacilityInputs \X FacKeys |-> fm[ik[1]][ik[2]]] = [ik \in FacilityInputs \X FacKeys |-> 0]
      BY <2>1 DEF NoFacility
    <2> QED
      BY <2>1, <2>2, Zenon DEF FacilityView!Init, FacilityView!Unknown
  <1>3. IInv => OneSnapshot
    BY DEF IInv
  <1>4. InputsSpec => PowerView!Spec
    BY <1>1, PowerStep, AlwaysIInv, PTL DEF InputsSpec, PowerView!Spec
  <1>5. InputsSpec => FacilityView!Spec
    BY <1>2, FacilityStep, AlwaysIInv, PTL DEF InputsSpec, FacilityView!Spec, FacilityShown
  <1> QED
    BY <1>3, <1>4, <1>5, AlwaysIInv, PTL DEF ReadingsAreOneAnswer

-----------------------------------------------------------------------------
(* Energy counters and their rates.                                        *)

PowerSpec == PowerInit /\ [][PowerNext]_powerVars

-----------------------------------------------------------------------------
(* The inductive invariant.  A point does not say which lifetime of the    *)
(* counter it is from; that the lifetimes follow one another is a fact     *)
(* about all the points there are, in the documents that may still arrive  *)
(* and in the reader.                                                      *)

Points == [start : Int, time : Int, energy : Int]
Documents == [points : [Series -> Points], gauges : [Gauges -> Int]]
KeptPoints == [start : Int, time : Int, energy : Int, rate : Int, at : Int]

PowerType ==
    /\ power \in Seq([Comps -> Levels])
    /\ born \in [Series -> Int]
    /\ docs \in Seq(Documents)
    /\ kept \in [Series -> KeptPoints]

(* What a component drew in the ticks a+1..b.                              *)
Drawn(pw, k, a, b) == MapThenSumSet(LAMBDA t : pw[t][k], (a + 1)..b)

(* birth[t]: when the counter that ended tick t had started.               *)
Births(birth, t, last) ==
    /\ birth[t] = last
    /\ \A u \in 0..t : birth[u] <= u
    /\ \A u, v \in 0..t : u <= v => birth[u] <= birth[v]

(* A point p of a series was true when it was written: its energy is what  *)
(* the component used since a start of the counter, which is the one that  *)
(* tick began or the one it ended with.                                    *)
TruePoint(pw, birth, s, p) ==
    LET t == p.time - 1
    IN  /\ p.time \in 1..(Len(pw) + 1)
        /\ \E b \in 0..t :
             /\ b <= birth[t] /\ (t > 0 => birth[t - 1] <= b)
             /\ p.energy = Drawn(pw, CompOf[s], b, t)
             /\ p.start = IF s \in Starts THEN b + 1 ELSE 0

(* The same of all the points of a series there are: those of the          *)
(* documents ds and the one kept.                                          *)
SeriesTrue(birth, s, pw, last, ds, r) ==
    /\ Births(birth, Len(pw), last)
    /\ \A j \in DOMAIN ds : ds[j].points[s] # NoPoint => TruePoint(pw, birth, s, ds[j].points[s])
    /\ r # NoKept => TruePoint(pw, birth, s, r)

(* RateIsTrue of one series.                                               *)
TrueRate(pw, s, r) ==
    r.rate # Cold =>
        \E d \in 1..Bound :
            /\ d <= r.time - 1
            /\ IF s \in Starts THEN r.rate * d = Drawn(pw, CompOf[s], (r.time - 1) - d, r.time - 1)
               ELSE r.rate * d <= Drawn(pw, CompOf[s], (r.time - 1) - d, r.time - 1)

PointsAreTrue ==
    \A s \in Series : \E birth \in [0..Len(power) -> 0..Len(power)] :
        SeriesTrue(birth, s, power, born[s], docs, kept[s])

RatesTrue == \A s \in Series : TrueRate(power, s, kept[s])

PowerInv == PowerType /\ PointsAreTrue /\ RatesTrue

-----------------------------------------------------------------------------
(* The energy of an interval.                                              *)

(* A total depends on the values of the members alone.                     *)
LEMMA PartAgree ==
    ASSUME NEW S, IsFiniteSet(S), NEW T, IsFiniteSet(T), NEW f, NEW h, NEW U, U \subseteq S, U \subseteq T,
           \A x \in U : f[x] = h[x]
    PROVE  Part(f, S, U) = Part(h, T, U)
  <1> DEFINE G == {s \in SUBSET U : Part(f, S, s) = Part(h, T, s)}
  <1>1. ASSUME NEW s \in SUBSET U, \A u \in SUBSET s : u # s => u \in G
        PROVE  s \in G
    <2>1. CASE s = {}
      <3>1. Part(f, S, {}) = 0 /\ Part(h, T, {}) = 0
        BY PartDef
      <3> QED
        BY <2>1, <3>1
    <2>2. CASE s # {}
      <3>1. Pick(s) \in s
        BY <2>2, PickIn
      <3>2. Part(f, S, s \ {Pick(s)}) = Part(h, T, s \ {Pick(s)})
        BY <1>1, <3>1
      <3>3. s \in SUBSET S /\ s \in SUBSET T
        OBVIOUS
      <3>4. Part(f, S, s) = f[Pick(s)] + Part(f, S, s \ {Pick(s)})
        BY <2>2, <3>3, PartDef
      <3>5. Part(h, T, s) = h[Pick(s)] + Part(h, T, s \ {Pick(s)})
        BY <2>2, <3>3, PartDef
      <3> QED
        BY <3>1, <3>2, <3>4, <3>5
    <2> QED
      BY <2>1, <2>2
  <1>2. IsFiniteSet(U)
    BY FS_Subset
  <1>3. \A s \in SUBSET U : s \in G
    <2> HIDE DEF G
    <2> QED
      BY <1>1, <1>2, FiniteInduction
  <1> QED
    BY <1>3

(* The total of two sets without a common member.                          *)
LEMMA PartUnion ==
    ASSUME NEW S, IsFiniteSet(S), NEW f \in [S -> Int], NEW A, NEW B, A \subseteq S, B \subseteq S, A \cap B = {}
    PROVE  Part(f, S, A \cup B) = Part(f, S, A) + Part(f, S, B)
  <1> DEFINE G == {s \in SUBSET A : Part(f, S, s \cup B) = Part(f, S, s) + Part(f, S, B)}
  <1>0. Part(f, S, B) \in Int
    BY PartInt
  <1>1. ASSUME NEW s \in SUBSET A, \A u \in SUBSET s : u # s => u \in G
        PROVE  s \in G
    <2>1. CASE s = {}
      <3>1. Part(f, S, {}) = 0 /\ s \cup B = B
        BY <2>1, PartDef
      <3> QED
        BY <1>0, <2>1, <3>1
    <2>2. CASE s # {}
      <3>1. PICK x \in s : TRUE
        BY <2>2
      <3> DEFINE r == s \ {x}
      <3>2. (s \cup B) \ {x} = r \cup B /\ x \in s \cup B /\ s \cup B \in SUBSET S /\ s \in SUBSET S /\ r \in SUBSET S
        BY <3>1
      <3>3. Part(f, S, s \cup B) = f[x] + Part(f, S, r \cup B)
        BY <3>1, <3>2, PartSplit
      <3>4. Part(f, S, s) = f[x] + Part(f, S, r)
        BY <3>1, <3>2, PartSplit
      <3>5. Part(f, S, r \cup B) = Part(f, S, r) + Part(f, S, B)
        BY <1>1, <3>1
      <3>6. Part(f, S, r) \in Int /\ f[x] \in Int
        BY <3>1, <3>2, PartInt
      <3>7. Part(f, S, s \cup B) = Part(f, S, s) + Part(f, S, B)
        <4> HIDE DEF r, G
        <4> QED
          BY <1>0, <3>3, <3>4, <3>5, <3>6
      <3> QED
        BY <3>7
    <2> QED
      BY <2>1, <2>2
  <1>2. IsFiniteSet(A)
    BY FS_Subset
  <1>3. \A s \in SUBSET A : s \in G
    <2> HIDE DEF G
    <2> QED
      BY <1>1, <1>2, FiniteInduction
  <1> QED
    BY <1>3

(* A total of multiples is a multiple.                                     *)
LEMMA PartMultiple ==
    ASSUME NEW S, IsFiniteSet(S), NEW f \in [S -> Int], NEW q \in [S -> Int], NEW d \in Int,
           \A x \in S : f[x] = d * q[x]
    PROVE  \A s \in SUBSET S : Part(f, S, s) = d * Part(q, S, s)
  <1> DEFINE G == {s \in SUBSET S : Part(f, S, s) = d * Part(q, S, s)}
  <1>1. ASSUME NEW s \in SUBSET S, \A u \in SUBSET s : u # s => u \in G
        PROVE  s \in G
    <2>1. CASE s = {}
      <3>1. Part(f, S, {}) = 0 /\ Part(q, S, {}) = 0
        BY PartDef
      <3> QED
        BY <2>1, <3>1
    <2>2. CASE s # {}
      <3>1. PICK x \in s : TRUE
        BY <2>2
      <3> DEFINE a == q[x]
                 b == Part(q, S, s \ {x})
      <3>2. a \in Int /\ b \in Int
        BY <3>1, PartInt
      <3>3. Part(f, S, s) = f[x] + Part(f, S, s \ {x}) /\ Part(q, S, s) = a + b
        BY <3>1, PartSplit
      <3>4. f[x] = d * a /\ Part(f, S, s \ {x}) = d * b
        BY <1>1, <3>1
      <3>5. Part(f, S, s) = d * Part(q, S, s)
        <4>1. d * (a + b) = d * a + d * b
          <5> HIDE DEF a, b
          <5> QED
            BY <3>2
        <4> QED
          BY <3>3, <3>4, <4>1
      <3> QED
        BY <3>5
    <2> QED
      BY <2>1, <2>2
  <1>2. \A s \in SUBSET S : s \in G
    <2> HIDE DEF G
    <2> QED
      BY <1>1, FiniteInduction
  <1> QED
    BY <1>2

(* The energy of an interval as a part of a longer one.                    *)
LEMMA DrawnIsPart ==
    ASSUME NEW S, IsFiniteSet(S), NEW pw, NEW k, NEW a \in Int, NEW b \in Int, (a + 1)..b \subseteq S
    PROVE  Drawn(pw, k, a, b) = Part([t \in S |-> pw[t][k]], S, (a + 1)..b)
  <1> DEFINE I == (a + 1)..b
             f == [t \in I |-> pw[t][k]]
             F == [t \in S |-> pw[t][k]]
             Is(g) == g = [s \in SUBSET I |-> IF s = {} THEN 0 ELSE pw[Pick(s)][k] + g[s \ {Pick(s)}]]
  <1>1. IsFiniteSet(I)
    BY FS_Interval
  <1>2. \A g : Is(g) <=> Sums(f, I, g)
    <2>1. \A g : [s \in SUBSET I |-> IF s = {} THEN 0 ELSE pw[Pick(s)][k] + g[s \ {Pick(s)}]]
               = [s \in SUBSET I |-> IF s = {} THEN 0 ELSE f[Pick(s)] + g[s \ {Pick(s)}]]
      <3>1. \A s \in SUBSET I : s # {} => f[Pick(s)] = pw[Pick(s)][k]
        <4>1. \A s \in SUBSET I : s # {} => Pick(s) \in I
          BY PickIn
        <4> HIDE DEF I
        <4> QED
          BY <4>1
      <3> HIDE DEF f, I
      <3> QED
        BY <3>1
    <2> HIDE DEF f, I
    <2> QED
      BY <2>1 DEF Sums
  <1>3. Drawn(pw, k, a, b) = (CHOOSE g : Is(g))[I]
    BY Zenon DEF Drawn, MapThenSumSet, MapThenFoldSet, Pick
  <1> HIDE DEF Is
  <1>4. Sums(f, I, CHOOSE g : Is(g))
    <2> HIDE DEF f, I
    <2>1. \E g : Sums(f, I, g)
      BY <1>1, SumsExist
    <2> QED
      BY <1>2, <2>1
  <1>5. (CHOOSE g : Is(g))[I] = Part(f, I, I)
    <2> DEFINE g == CHOOSE h : Is(h)
               h == CHOOSE e : Sums(f, I, e)
    <2>1. Sums(f, I, h)
      <3> HIDE DEF f, I
      <3> QED
        BY <1>1, SumsExist
    <2> HIDE DEF f, I
    <2>2. Sums(f, I, g)
      BY <1>4
    <2>3. Part(f, I, I) = h[I]
      BY DEF Part
    <2> HIDE DEF g, h
    <2>4. g[I] = h[I]
      BY <1>1, <2>1, <2>2, SumsUnique
    <2> QED
      BY <2>3, <2>4 DEF g
  <1>6. Part(f, I, I) = Part(F, S, I)
    <2>1. I \subseteq S /\ \A x \in I : f[x] = F[x]
      OBVIOUS
    <2> HIDE DEF f, F, I
    <2> QED
      BY <1>1, <2>1, PartAgree
  <1> QED
    BY <1>3, <1>5, <1>6

(* The interval a..c of the past, split at b.                              *)
Ordered(pw, k, a, b, c) ==
    /\ pw \in Seq([Comps -> Levels]) /\ k \in Comps
    /\ a \in Nat /\ b \in Nat /\ c \in Nat /\ a <= b /\ b <= c /\ c <= Len(pw)

(* Intervals add up, and energy is a natural number.                       *)
LEMMA DrawnAdds ==
    \A pw, k, a, b, c : Ordered(pw, k, a, b, c) =>
        /\ Drawn(pw, k, a, c) = Drawn(pw, k, a, b) + Drawn(pw, k, b, c)
        /\ Drawn(pw, k, a, b) \in Nat /\ Drawn(pw, k, b, c) \in Nat
  <1> SUFFICES ASSUME NEW pw \in Seq([Comps -> Levels]), NEW k \in Comps, NEW a \in Nat, NEW b \in Nat, NEW c \in Nat,
                      a <= b, b <= c, c <= Len(pw)
               PROVE  /\ Drawn(pw, k, a, c) = Drawn(pw, k, a, b) + Drawn(pw, k, b, c)
                      /\ Drawn(pw, k, a, b) \in Nat /\ Drawn(pw, k, b, c) \in Nat
    BY DEF Ordered
  <1> DEFINE S == (a + 1)..c
             f == [t \in S |-> pw[t][k]]
             A == (a + 1)..b
             B == (b + 1)..c
  <1>1. IsFiniteSet(S) /\ A \subseteq S /\ B \subseteq S /\ A \cap B = {} /\ A \cup B = S
    <2>1. IsFiniteSet(S)
      BY FS_Interval
    <2>2. A \subseteq S /\ B \subseteq S /\ A \cap B = {}
      OBVIOUS
    <2>3. A \cup B = S
      OBVIOUS
    <2> QED
      BY <2>1, <2>2, <2>3
  <1>2. f \in [S -> Int] /\ \A x \in S : f[x] >= 0
    <2>1. \A t \in S : t \in 1..Len(pw)
      OBVIOUS
    <2>2. \A t \in 1..Len(pw) : pw[t] \in [Comps -> Levels]
      OBVIOUS
    <2>3. \A t \in 1..Len(pw) : pw[t][k] \in Int /\ pw[t][k] >= 0
      <3>1. \A l \in Levels : l \in Int /\ l >= 0
        BY PowerAssumption
      <3> QED
        BY <2>2, <3>1
    <2> HIDE DEF S
    <2> QED
      BY <2>1, <2>3
  <1>3. /\ Drawn(pw, k, a, c) = Part(f, S, S)
        /\ Drawn(pw, k, a, b) = Part(f, S, A)
        /\ Drawn(pw, k, b, c) = Part(f, S, B)
    <2>1. (a + 1)..c \subseteq S
      OBVIOUS
    <2> HIDE DEF S
    <2>2. Drawn(pw, k, a, c) = Part(f, S, (a + 1)..c)
      BY <1>1, <2>1, DrawnIsPart
    <2>3. Drawn(pw, k, a, b) = Part(f, S, A)
      BY <1>1, DrawnIsPart
    <2>4. Drawn(pw, k, b, c) = Part(f, S, B)
      BY <1>1, DrawnIsPart
    <2> QED
      BY <2>2, <2>3, <2>4 DEF S
  <1> HIDE DEF S, f, A, B
  <1>4. Part(f, S, S) = Part(f, S, A) + Part(f, S, B)
    BY <1>1, <1>2, PartUnion
  <1>5. Part(f, S, A) \in Int /\ Part(f, S, B) \in Int
    BY <1>1, <1>2, PartInt
  <1>6. Part(f, S, A) >= 0 /\ Part(f, S, B) >= 0
    BY <1>1, <1>2, PartSign
  <1> QED
    BY <1>3, <1>4, <1>5, <1>6

(* Energy is a multiple of every interval in the window.                   *)
LEMMA DrawnMultiple ==
    ASSUME NEW pw \in Seq([Comps -> Levels]), NEW k \in Comps, NEW a \in Nat, NEW b \in Nat, b <= Len(pw),
           NEW d \in 1..Bound
    PROVE  \E q \in Int : Drawn(pw, k, a, b) = d * q
  <1> DEFINE S == (a + 1)..b
             f == [t \in S |-> pw[t][k]]
             h == [t \in S |-> f[t] \div d]
  <1>1. IsFiniteSet(S) /\ S \subseteq 1..Len(pw)
    BY FS_Interval
  <1>2. d \in Int /\ d > 0
    BY PowerAssumption
  <1>3. \A l \in Levels : l \in Int /\ l \div d \in Int /\ l = d * (l \div d)
    <2>1. \A l \in Levels : l \in Nat /\ l % d = 0
      BY PowerAssumption
    <2>2. \A l \in Nat : l % d = 0 => l \div d \in Int /\ l = d * (l \div d)
      BY <1>2
    <2>3. TAKE l \in Levels
    <2>4. l \in Nat /\ l % d = 0
      BY <2>1
    <2> QED
      BY <2>2, <2>4
  <1>4. \A t \in S : f[t] \in Levels
    <2>1. \A t \in 1..Len(pw) : pw[t] \in [Comps -> Levels]
      OBVIOUS
    <2> HIDE DEF S
    <2> QED
      BY <1>1, <2>1
  <1>5. f \in [S -> Int] /\ h \in [S -> Int] /\ \A t \in S : f[t] = d * h[t]
    <2>1. f \in [S -> Int]
      <3>1. \A t \in S : pw[t][k] \in Int
        BY <1>3, <1>4
      <3> HIDE DEF S
      <3> QED
        BY <3>1
    <2> HIDE DEF f, S
    <2> QED
      BY <1>3, <1>4, <2>1
  <1>6. Drawn(pw, k, a, b) = Part(f, S, S)
    <2>1. (a + 1)..b \subseteq S /\ S = (a + 1)..b
      OBVIOUS
    <2> HIDE DEF S
    <2>2. Drawn(pw, k, a, b) = Part(f, S, (a + 1)..b)
      BY <1>1, <2>1, DrawnIsPart
    <2> QED
      BY <2>1, <2>2
  <1> HIDE DEF f, h, S
  <1>7. Part(f, S, S) = d * Part(h, S, S)
    <2>1. \A s \in SUBSET S : Part(f, S, s) = d * Part(h, S, s)
      BY <1>1, <1>2, <1>5, PartMultiple
    <2> QED
      BY <2>1
  <1>8. Part(h, S, S) \in Int
    BY <1>1, <1>5, PartInt
  <1> QED
    BY <1>6, <1>7, <1>8

(* pw2 has the first n ticks of pw.                                        *)
Extends(pw, pw2, n) == n \in Nat /\ \A t \in 1..n : pw2[t] = pw[t]

(* What was drawn does not change as time goes on.                         *)
LEMMA DrawnStays ==
    \A pw, pw2, n, k, a, b : Extends(pw, pw2, n) /\ a \in Nat /\ b \in Nat /\ b <= n =>
        Drawn(pw2, k, a, b) = Drawn(pw, k, a, b)
  <1> SUFFICES ASSUME NEW pw, NEW pw2, NEW n \in Nat, \A t \in 1..n : pw2[t] = pw[t],
                      NEW k, NEW a \in Nat, NEW b \in Nat, b <= n
               PROVE  Drawn(pw2, k, a, b) = Drawn(pw, k, a, b)
    BY DEF Extends
  <1> DEFINE S == (a + 1)..b
  <1>0. IsFiniteSet(S)
    <2>1. a + 1 \in Int /\ b \in Int
      OBVIOUS
    <2> QED
      BY <2>1, FS_Interval
  <1>1. IsFiniteSet(S) /\ S = (a + 1)..b /\ (a + 1)..b \subseteq S /\ S \subseteq 1..n
    BY <1>0
  <1> HIDE DEF S
  <1>2. [t \in S |-> pw2[t][k]] = [t \in S |-> pw[t][k]]
    BY <1>1
  <1>3. Drawn(pw, k, a, b) = Part([t \in S |-> pw[t][k]], S, (a + 1)..b)
    BY <1>1, DrawnIsPart
  <1>4. Drawn(pw2, k, a, b) = Part([t \in S |-> pw2[t][k]], S, (a + 1)..b)
    BY <1>1, DrawnIsPart
  <1> QED
    BY <1>2, <1>3, <1>4
-----------------------------------------------------------------------------
(* Points and rates.                                                       *)

(* The component of a series is one of the node.                           *)
LEMMA CompOfSeries == \A s \in Series : CompOf[s] \in Comps
  BY DEF Comps

(* A point that was true stays true while time goes on and the counter of  *)
(* the present tick starts again.                                          *)
LEMMA PointStays ==
    ASSUME NEW pw \in Seq([Comps -> Levels]), NEW pw2 \in Seq([Comps -> Levels]), Len(pw) <= Len(pw2),
           \A t \in 1..Len(pw) : pw2[t] = pw[t],
           NEW birth \in [0..Len(pw) -> Int], NEW birth2 \in [0..Len(pw2) -> Int],
           \A t \in 0..Len(pw) : birth[t] <= birth2[t],
           \A t \in 0..(Len(pw) - 1) : birth2[t] = birth[t],
           NEW s, NEW p, p.time \in Int, TruePoint(pw, birth, s, p)
    PROVE  TruePoint(pw2, birth2, s, p)
  <1> DEFINE t == p.time - 1
             k == CompOf[s]
  <1>1. t \in 0..Len(pw) /\ Len(pw) \in Nat /\ Len(pw2) \in Nat
    BY DEF TruePoint
  <1>2. PICK b \in 0..t :
             /\ b <= birth[t] /\ (t > 0 => birth[t - 1] <= b)
             /\ p.energy = Drawn(pw, k, b, t)
             /\ p.start = IF s \in Starts THEN b + 1 ELSE 0
    BY DEF TruePoint
  <1> HIDE DEF k
  <1>3. Drawn(pw2, k, b, t) = Drawn(pw, k, b, t)
    <2> DEFINE n == Len(pw)
    <2>1. Extends(pw, pw2, n) /\ b \in Nat /\ t \in Nat /\ t <= n
      BY <1>1 DEF Extends
    <2> HIDE DEF n, t
    <2> QED
      BY <2>1, DrawnStays
  <1>4. b <= birth2[t] /\ (t > 0 => birth2[t - 1] <= b)
    <2>1. birth[t] <= birth2[t] /\ birth[t] \in Int /\ birth2[t] \in Int /\ b \in Int
      BY <1>1
    <2>2. t > 0 => birth2[t - 1] = birth[t - 1]
      BY <1>1
    <2> HIDE DEF t
    <2> QED
      BY <1>2, <2>1, <2>2
  <1>5. p.time \in 1..(Len(pw2) + 1)
    BY <1>1
  <1> QED
    BY <1>2, <1>3, <1>4, <1>5 DEF TruePoint, k

(* A rate that was true stays true while time goes on.                     *)
LEMMA RateStays ==
    ASSUME NEW pw, NEW pw2, NEW n \in Nat, Extends(pw, pw2, n),
           NEW s, NEW r, r.time \in 1..(n + 1), TrueRate(pw, s, r)
    PROVE  TrueRate(pw2, s, r)
  <1> SUFFICES ASSUME r.rate # Cold
               PROVE  \E d \in 1..Bound :
                        /\ d <= r.time - 1
                        /\ IF s \in Starts THEN r.rate * d = Drawn(pw2, CompOf[s], (r.time - 1) - d, r.time - 1)
                           ELSE r.rate * d <= Drawn(pw2, CompOf[s], (r.time - 1) - d, r.time - 1)
    BY DEF TrueRate
  <1> DEFINE e == r.time - 1
             k == CompOf[s]
  <1>1. PICK d \in 1..Bound :
            /\ d <= e
            /\ IF s \in Starts THEN r.rate * d = Drawn(pw, k, e - d, e) ELSE r.rate * d <= Drawn(pw, k, e - d, e)
    BY DEF TrueRate
  <1>2. e \in Nat /\ e <= n /\ e - d \in Nat
    BY <1>1
  <1> HIDE DEF k
  <1>3. Drawn(pw2, k, e - d, e) = Drawn(pw, k, e - d, e)
    <2> DEFINE a == e - d
    <2>1. a \in Nat
      BY <1>2
    <2> HIDE DEF a, e
    <2>2. Drawn(pw2, k, a, e) = Drawn(pw, k, a, e)
      BY <1>2, <2>1, DrawnStays
    <2> QED
      BY <2>2 DEF a
  <1> QED
    BY <1>1, <1>3 DEF k

(* Two points, at the ends of ticks t1 < t2, of lifetimes from b1 <= b2.   *)
Follow(pw, k, b1, t1, b2, t2) ==
    /\ pw \in Seq([Comps -> Levels]) /\ k \in Comps
    /\ b1 \in Nat /\ t1 \in Nat /\ b2 \in Nat /\ t2 \in Nat
    /\ b1 <= t1 /\ t1 < t2 /\ b2 <= t2 /\ b1 <= b2 /\ t2 <= Len(pw) /\ t2 - t1 <= Bound

(* What their counters differ by.                                          *)
Gain(pw, k, b1, t1, b2, t2) == Drawn(pw, k, b2, t2) - Drawn(pw, k, b1, t1)

(* What two points of lifetimes that follow one another tell: the energy   *)
(* drawn in between, or less if the counter started again.                 *)
LEMMA Between ==
    ASSUME NEW pw, NEW k, NEW b1, NEW t1, NEW b2, NEW t2, Follow(pw, k, b1, t1, b2, t2)
    PROVE  /\ Gain(pw, k, b1, t1, b2, t2) \in Int /\ Drawn(pw, k, t1, t2) \in Nat
           /\ Gain(pw, k, b1, t1, b2, t2) <= Drawn(pw, k, t1, t2)
           /\ b1 = b2 => Gain(pw, k, b1, t1, b2, t2) = Drawn(pw, k, t1, t2)
           /\ Gain(pw, k, b1, t1, b2, t2) \div (t2 - t1) \in Int
           /\ (Gain(pw, k, b1, t1, b2, t2) \div (t2 - t1)) * (t2 - t1) = Gain(pw, k, b1, t1, b2, t2)
  <1> DEFINE x == Gain(pw, k, b1, t1, b2, t2)
             d == t2 - t1
  <1> DEFINE D(a, b) == Drawn(pw, k, a, b)
  <1>a. /\ pw \in Seq([Comps -> Levels]) /\ k \in Comps
        /\ b1 \in Nat /\ t1 \in Nat /\ b2 \in Nat /\ t2 \in Nat
        /\ b1 <= t1 /\ t1 < t2 /\ b2 <= t2 /\ b1 <= b2 /\ t2 <= Len(pw) /\ t2 - t1 <= Bound
    BY DEF Follow
  <1> USE <1>a
  <1>0. t1 <= Len(pw) /\ t1 <= t2 /\ Len(pw) \in Nat /\ t1 <= t1
    OBVIOUS
  <1>1. \A a, b, c \in Nat : a <= b /\ b <= c /\ c <= Len(pw) =>
            D(a, c) = D(a, b) + D(b, c) /\ D(a, b) \in Nat /\ D(b, c) \in Nat
    <2>1. TAKE a, b, c \in Nat
    <2>2. HAVE a <= b /\ b <= c /\ c <= Len(pw)
    <2>3. Ordered(pw, k, a, b, c)
      BY <2>2 DEF Ordered
    <2> QED
      BY <2>3, DrawnAdds
  <1>2. x <= D(t1, t2) /\ (b1 = b2 => x = D(t1, t2)) /\ D(t1, t2) \in Nat /\ x \in Int
    <2> HIDE DEF D
    <2>0. x = D(b2, t2) - D(b1, t1)
      BY DEF D, Gain
    <2> HIDE DEF x
    <2>1. CASE b2 <= t1
      <3>1. D(b2, t2) = D(b2, t1) + D(t1, t2) /\ D(b2, t1) \in Nat /\ D(t1, t2) \in Nat
        BY <1>0, <1>1, <2>1
      <3>2. D(b1, t1) = D(b1, b2) + D(b2, t1) /\ D(b1, b2) \in Nat
        BY <1>0, <1>1, <2>1
      <3>3. b1 = b2 => D(b1, t1) = D(b2, t1)
        OBVIOUS
      <3> QED
        BY <2>0, <3>1, <3>2, <3>3
    <2>2. CASE t1 < b2
      <3>1. D(t1, t2) = D(t1, b2) + D(b2, t2) /\ D(t1, b2) \in Nat /\ D(b2, t2) \in Nat
        <4>1. t1 <= b2
          BY <2>2
        <4> QED
          BY <1>0, <1>1, <4>1
      <3>2. D(b1, t1) \in Nat
        BY <1>0, <1>1
      <3>3. b1 # b2
        BY <2>2
      <3> QED
        BY <2>0, <3>1, <3>2, <3>3
    <2> QED
      BY <2>1, <2>2
  <1>3. d \in 1..Bound /\ d > 0 /\ d \in Int
    BY PowerAssumption
  <1> HIDE DEF d
  <1>4. PICK q1 \in Int : D(b1, t1) = d * q1
    BY <1>0, <1>3, DrawnMultiple, Zenon
  <1>5. PICK q2 \in Int : D(b2, t2) = d * q2
    BY <1>0, <1>3, DrawnMultiple, Zenon
  <1>6. x \div d \in Int /\ (x \div d) * d = x
    <2> DEFINE q == q2 - q1
    <2>1. q \in Int /\ x = d * q
      <3>1. d * q2 - d * q1 = d * (q2 - q1)
        BY <1>3
      <3> QED
        BY <1>3, <1>4, <1>5, <3>1 DEF Gain
    <2> HIDE DEF q, x
    <2>2. (d * q) \div d = q /\ q * d = d * q
      BY <1>3, <2>1
    <2> QED
      BY <2>1, <2>2
  <1> QED
    BY <1>2, <1>6 DEF d

(* Two points of a series within the window, r before p.                   *)
TwoPoints(pw, birth, s, r, p, d, x) ==
    /\ pw \in Seq([Comps -> Levels]) /\ s \in Series
    /\ birth \in [0..Len(pw) -> Int] /\ \A u, v \in 0..Len(pw) : u <= v => birth[u] <= birth[v]
    /\ p.time \in Int /\ p.energy \in Int /\ r.time \in Int /\ r.energy \in Int
    /\ TruePoint(pw, birth, s, p) /\ TruePoint(pw, birth, s, r)
    /\ r.start # 0 /\ p.start # 0 => p.start = r.start
    /\ r.time < p.time /\ p.time - r.time <= Bound
    /\ d = p.time - r.time /\ x = p.energy - r.energy

(* The rate of two points of a series, of one lifetime when the points say *)
(* so.                                                                     *)
LEMMA RateOfTwo ==
    ASSUME NEW pw, NEW birth, NEW s, NEW p, NEW r, NEW d, NEW x, TwoPoints(pw, birth, s, r, p, d, x)
    PROVE  /\ d \in 1..Bound /\ d <= p.time - 1 /\ x \div d \in Int
           /\ IF s \in Starts THEN (x \div d) * d = Drawn(pw, CompOf[s], (p.time - 1) - d, p.time - 1)
              ELSE (x \div d) * d <= Drawn(pw, CompOf[s], (p.time - 1) - d, p.time - 1)
  <1>0. /\ pw \in Seq([Comps -> Levels]) /\ s \in Series
        /\ birth \in [0..Len(pw) -> Int] /\ \A u, v \in 0..Len(pw) : u <= v => birth[u] <= birth[v]
        /\ p.time \in Int /\ p.energy \in Int /\ r.time \in Int /\ r.energy \in Int
        /\ TruePoint(pw, birth, s, p) /\ TruePoint(pw, birth, s, r)
        /\ r.start # 0 /\ p.start # 0 => p.start = r.start
        /\ r.time < p.time /\ p.time - r.time <= Bound
        /\ d = p.time - r.time /\ x = p.energy - r.energy
    BY DEF TwoPoints
  <1> USE <1>0
  <1> DEFINE k == CompOf[s]
             n == Len(pw)
             t1 == r.time - 1
             t2 == p.time - 1
  <1>1. k \in Comps /\ n \in Nat /\ Bound \in Nat
    BY CompOfSeries, PowerAssumption
  <1>2. p.time \in 1..(n + 1) /\ r.time \in 1..(n + 1)
    BY DEF TruePoint
  <1>3. /\ t1 \in 0..n /\ t2 \in 0..n /\ t1 < t2 /\ d = t2 - t1 /\ t2 - d = t1
        /\ d \in 1..Bound /\ d <= t2 /\ d \in Int /\ d <= Bound
    <2> DEFINE P == p.time
               R == r.time
    <2>1. /\ P \in 1..(n + 1) /\ R \in 1..(n + 1) /\ R < P /\ d = P - R /\ P - R <= Bound
          /\ t1 = R - 1 /\ t2 = P - 1
      BY <1>2
    <2> HIDE DEF P, R, n, t1, t2
    <2>2. t1 \in 0..n /\ t2 \in 0..n
      BY <1>1, <2>1
    <2>a. P \in Int /\ R \in Int /\ d \in Int /\ t1 \in Int /\ t2 \in Int
      BY <1>1, <2>1
    <2>3. t1 < t2 /\ d = t2 - t1 /\ t2 - d = t1 /\ d \in Int
      BY <2>1, <2>a
    <2>4. d \in 1..Bound /\ d <= t2 /\ d <= Bound
      BY <1>1, <2>1
    <2> QED
      BY <2>2, <2>3, <2>4
  <1>4. PICK b1 \in 0..t1 : /\ b1 <= birth[t1] /\ r.energy = Drawn(pw, k, b1, t1)
                            /\ r.start = IF s \in Starts THEN b1 + 1 ELSE 0
    BY DEF TruePoint
  <1>5. PICK b2 \in 0..t2 : /\ (t2 > 0 => birth[t2 - 1] <= b2) /\ p.energy = Drawn(pw, k, b2, t2)
                            /\ p.start = IF s \in Starts THEN b2 + 1 ELSE 0
    BY DEF TruePoint
  <1>6. b1 \in Nat /\ b2 \in Nat /\ b1 <= t1 /\ b2 <= t2
    BY <1>3
  <1>7. s \in Starts => b1 = b2
    BY <1>4, <1>5, <1>6
  <1>8. x = Gain(pw, k, b1, t1, b2, t2)
    BY <1>4, <1>5 DEF Gain
  <1> HIDE DEF t1, t2, n, k
  <1>9. b1 <= b2
    <2>1. t2 > 0 /\ t2 - 1 \in 0..n /\ t1 <= t2 - 1
      BY <1>1, <1>3
    <2>2. birth[t1] <= birth[t2 - 1] /\ birth[t1] \in Int /\ birth[t2 - 1] \in Int
      BY <1>3, <2>1 DEF n
    <2>3. birth[t2 - 1] <= b2 /\ b1 <= birth[t1]
      BY <1>4, <1>5, <2>1
    <2> QED
      BY <1>6, <2>2, <2>3
  <1>10. /\ x \in Int /\ x <= Drawn(pw, k, t1, t2) /\ (b1 = b2 => x = Drawn(pw, k, t1, t2))
         /\ Drawn(pw, k, t1, t2) \in Nat
         /\ x \div d \in Int /\ (x \div d) * d = x
    <2>1. t1 \in Nat /\ t2 \in Nat /\ t1 < t2 /\ t2 <= Len(pw) /\ t2 - t1 <= Bound
      BY <1>1, <1>3 DEF n
    <2>2. Follow(pw, k, b1, t1, b2, t2)
      BY <1>1, <1>6, <1>9, <2>1 DEF Follow
    <2>3. d = t2 - t1
      BY <1>3
    <2> DEFINE g == Gain(pw, k, b1, t1, b2, t2)
               e == t2 - t1
    <2>4. /\ g \in Int /\ Drawn(pw, k, t1, t2) \in Nat /\ g <= Drawn(pw, k, t1, t2)
          /\ b1 = b2 => g = Drawn(pw, k, t1, t2)
          /\ g \div e \in Int /\ (g \div e) * e = g
      BY <2>2, Between
    <2>5. x = g /\ d = e
      BY <1>8, <2>3
    <2> HIDE DEF g, e
    <2> QED
      BY <2>4, <2>5
  <1>12. Drawn(pw, CompOf[s], (p.time - 1) - d, p.time - 1) = Drawn(pw, k, t1, t2)
    <2>1. (p.time - 1) - d = t1
      BY <1>3 DEF t2
    <2> QED
      BY <2>1 DEF t2, k
  <1>13. d \in 1..Bound /\ d <= p.time - 1
    BY <1>3 DEF t2
  <1> QED
    BY <1>7, <1>10, <1>12, <1>13
(* Only the start, the time and the energy of a point matter.              *)
LEMMA SamePoint ==
    ASSUME NEW pw, NEW birth, NEW s, NEW p, NEW r, TruePoint(pw, birth, s, p),
           r.start = p.start, r.time = p.time, r.energy = p.energy
    PROVE  TruePoint(pw, birth, s, r)
  BY DEF TruePoint

(* KeepPoint keeps true points, and the rate it computes is true.          *)
LEMMA KeepIsTrue ==
    ASSUME power \in Seq([Comps -> Levels]), NEW s \in Series,
           NEW birth \in [0..now -> 0..now], \A u, v \in 0..now : u <= v => birth[u] <= birth[v],
           NEW old \in KeptPoints, NEW p \in Points,
           old # NoKept => TruePoint(power, birth, s, old),
           TrueRate(power, s, old), TruePoint(power, birth, s, p)
    PROVE  /\ KeepPoint(old, p) \in KeptPoints
           /\ TruePoint(power, birth, s, KeepPoint(old, p))
           /\ TrueRate(power, s, KeepPoint(old, p))
  <1> DEFINE f == First(p)
             cold == [old EXCEPT !.rate = Cold]
             d == p.time - old.time
             x == p.energy - old.energy
             fresh == [First(p) EXCEPT !.rate = x \div d]
             Good(r) == r \in KeptPoints /\ TruePoint(power, birth, s, r) /\ TrueRate(power, s, r)
  <1>0. now \in Int /\ Cold \in Int
    BY DEF now, Cold
  <1>1. Good(f)
    <2>1. f.start = p.start /\ f.time = p.time /\ f.energy = p.energy /\ f.rate = Cold
      BY DEF First
    <2>2. f \in KeptPoints
      BY <1>0 DEF First, Points, KeptPoints
    <2> HIDE DEF f
    <2>3. TruePoint(power, birth, s, f)
      BY <2>1, SamePoint
    <2>4. TrueRate(power, s, f)
      BY <2>1 DEF TrueRate
    <2> QED
      BY <2>2, <2>3, <2>4
  <1>2. old # NoKept => Good(old) /\ Good(cold)
    <2> HAVE old # NoKept
    <2>1. TruePoint(power, birth, s, old)
      OBVIOUS
    <2>2. cold.start = old.start /\ cold.time = old.time /\ cold.energy = old.energy /\ cold.rate = Cold
      BY DEF KeptPoints
    <2>3. cold \in KeptPoints
      BY <1>0 DEF KeptPoints
    <2> HIDE DEF cold
    <2>4. TruePoint(power, birth, s, cold)
      BY <2>1, <2>2, SamePoint
    <2>5. TrueRate(power, s, cold)
      BY <2>2 DEF TrueRate
    <2> QED
      BY <2>1, <2>3, <2>4, <2>5
  <1>3. ASSUME old # NoKept, ~(old.start # 0 /\ p.start # 0 /\ p.start # old.start), ~(p.time <= old.time),
               ~(p.energy < old.energy \/ p.time - old.time > Bound)
        PROVE  Good(fresh)
    <2>1. /\ p.time \in Int /\ p.energy \in Int /\ p.start \in Int
          /\ old.time \in Int /\ old.energy \in Int /\ old.start \in Int
      BY DEF Points, KeptPoints
    <2>2. TruePoint(power, birth, s, old)
      BY <1>3
    <2>3. Bound \in Nat
      BY PowerAssumption
    <2>4. old.time < p.time /\ p.time - old.time <= Bound /\ (old.start # 0 /\ p.start # 0 => p.start = old.start)
      BY <1>3, <2>1, <2>3
    <2>5. birth \in [0..Len(power) -> Int] /\ \A u, v \in 0..Len(power) : u <= v => birth[u] <= birth[v]
      BY DEF now
    <2>6. d = p.time - old.time /\ x = p.energy - old.energy
      OBVIOUS
    <2>7. fresh.start = p.start /\ fresh.time = p.time /\ fresh.energy = p.energy /\ fresh.rate = x \div d
      BY DEF First
    <2>8. x \div d \in Int => fresh \in KeptPoints
      BY <1>0, <2>1 DEF First, KeptPoints
    <2> HIDE DEF d, x, fresh
    <2>9. /\ d \in 1..Bound /\ d <= p.time - 1 /\ x \div d \in Int
          /\ IF s \in Starts THEN (x \div d) * d = Drawn(power, CompOf[s], (p.time - 1) - d, p.time - 1)
             ELSE (x \div d) * d <= Drawn(power, CompOf[s], (p.time - 1) - d, p.time - 1)
      <3>1. TwoPoints(power, birth, s, old, p, d, x)
        BY <2>1, <2>2, <2>4, <2>5, <2>6 DEF TwoPoints
      <3> QED
        BY <3>1, RateOfTwo
    <2>10. TruePoint(power, birth, s, fresh)
      BY <2>7, SamePoint
    <2>11. TrueRate(power, s, fresh)
      BY <2>7, <2>9 DEF TrueRate
    <2> QED
      BY <2>8, <2>9, <2>10, <2>11
  <1>4. Good(KeepPoint(old, p))
    <2> HIDE DEF Good
    <2>1. \/ KeepPoint(old, p) = f
          \/ old # NoKept /\ (KeepPoint(old, p) = old \/ KeepPoint(old, p) = cold)
          \/ /\ old # NoKept /\ ~(old.start # 0 /\ p.start # 0 /\ p.start # old.start)
             /\ ~(p.time <= old.time) /\ ~(p.energy < old.energy \/ p.time - old.time > Bound)
             /\ KeepPoint(old, p) = fresh
      BY DEF KeepPoint, Advance
    <2> HIDE DEF f, cold, fresh
    <2> QED
      BY <1>1, <1>2, <1>3, <2>1
  <1> QED
    BY <1>4

-----------------------------------------------------------------------------
(* Every step keeps the invariant.                                         *)

(* RatesTrue is RateIsTrue, with the power made a parameter.               *)
LEMMA RatesAre == RatesTrue => RateIsTrue
  BY DEF RatesTrue, RateIsTrue, TrueRate, Energy, Drawn

(* The points of a document have their type.                               *)
LEMMA PointTypes ==
    ASSUME NEW ds \in Seq(Documents), NEW s \in Series
    PROVE  \A j \in DOMAIN ds : ds[j].points[s] \in Points /\ ds[j].points[s].time \in Int
  <1>1. TAKE j \in DOMAIN ds
  <1>2. ds[j] \in Documents
    OBVIOUS
  <1>3. ds[j].points[s] \in Points
    BY <1>2 DEF Documents
  <1>4. \A p \in Points : p.time \in Int
    BY DEF Points
  <1> QED
    BY <1>3, <1>4

(* A tick from n to m.                                                     *)
TickFrom(birth, n, m, b) == n \in Nat /\ m = n + 1 /\ birth \in [0..n -> 0..n] /\ Births(birth, n, b)

(* The births after a step: those of earlier ticks stay.                   *)
After(birth, new, n, m, b) ==
    /\ new \in [0..m -> 0..m] /\ Births(new, m, b)
    /\ \A t \in 0..n : birth[t] <= new[t]
    /\ \A t \in 0..(n - 1) : new[t] = birth[t]

(* The births of a series after a tick.                                    *)
LEMMA BirthsTick ==
    ASSUME NEW n, NEW m, NEW birth, NEW b, TickFrom(birth, n, m, b)
    PROVE  \E new : After(birth, new, n, m, b)
  <1>0. n \in Nat /\ m = n + 1 /\ birth \in [0..n -> 0..n] /\ Births(birth, n, b)
    BY DEF TickFrom
  <1> USE <1>0
  <1> DEFINE new == [t \in 0..(n + 1) |-> IF t <= n THEN birth[t] ELSE b]
  <1>1. b \in 0..n /\ birth[n] = b
    BY DEF Births
  <1>2. new \in [0..(n + 1) -> 0..(n + 1)]
    BY <1>1
  <1>3. (\A t \in 0..n : new[t] = birth[t] /\ birth[t] \in 0..n) /\ new[n + 1] = b
    OBVIOUS
  <1> HIDE DEF new
  <1>4. \A t \in 0..(n + 1) : t \in 0..n \/ t = n + 1
    OBVIOUS
  <1>5. \A u \in 0..(n + 1) : new[u] <= u
    BY <1>1, <1>3, <1>4 DEF Births
  <1>6. \A u, v \in 0..(n + 1) : u <= v => new[u] <= new[v]
    <2>1. TAKE u, v \in 0..(n + 1)
    <2>2. HAVE u <= v
    <2>3. CASE v \in 0..n
      <3>1. u \in 0..n
        BY <2>2, <2>3
      <3> QED
        BY <1>3, <2>2, <2>3, <3>1 DEF Births
    <2>4. CASE v = n + 1
      <3>1. new[v] = b
        BY <1>3, <2>4
      <3>2. u \in 0..n => new[u] = birth[u] /\ birth[u] <= birth[n]
        BY <1>3 DEF Births
      <3>3. u = n + 1 => new[u] = b
        BY <1>3
      <3> QED
        BY <1>1, <1>4, <3>1, <3>2, <3>3
    <2> QED
      BY <1>4, <2>3, <2>4
  <1>7. /\ \A t \in 0..n : birth[t] <= new[t]
        /\ \A t \in 0..(n - 1) : new[t] = birth[t]
    BY <1>3
  <1> QED
    BY <1>2, <1>3, <1>5, <1>6, <1>7 DEF Births, After

(* The last birth moves when the counter starts again.                     *)
LEMMA BirthsRestart ==
    ASSUME NEW n \in Nat, NEW birth \in [0..n -> 0..n], NEW b, Births(birth, n, b),
           NEW c \in 0..n, b <= c
    PROVE  \E new : After(birth, new, n, n, c)
  <1> DEFINE new == [birth EXCEPT ![n] = c]
  <1>1. b \in 0..n /\ birth[n] = b
    BY DEF Births
  <1>2. new \in [0..n -> 0..n]
    OBVIOUS
  <1>3. (\A t \in 0..n : t # n => new[t] = birth[t]) /\ new[n] = c /\ \A t \in 0..n : birth[t] \in 0..n
    OBVIOUS
  <1> HIDE DEF new
  <1>5. \A u \in 0..n : new[u] <= u
    BY <1>1, <1>3 DEF Births
  <1>6. \A u, v \in 0..n : u <= v => new[u] <= new[v]
    <2>1. TAKE u, v \in 0..n
    <2>2. HAVE u <= v
    <2>3. CASE v # n
      <3>1. u # n
        BY <2>2, <2>3
      <3> QED
        BY <1>3, <2>2, <2>3, <3>1 DEF Births
    <2>4. CASE v = n
      <3>1. new[v] = c
        BY <1>3, <2>4
      <3>2. u # n => new[u] = birth[u] /\ birth[u] <= birth[n]
        BY <1>3 DEF Births
      <3>3. b \in Int /\ c \in Int /\ birth[n] = b /\ birth[u] \in Int
        BY <1>1, <1>3, <2>1
      <3>4. CASE u = n
        BY <1>3, <2>4, <3>3, <3>4
      <3>5. CASE u # n
        BY <3>1, <3>2, <3>3, <3>5
      <3> QED
        BY <3>4, <3>5
    <2> QED
      BY <2>3, <2>4
  <1>7. /\ \A t \in 0..n : birth[t] <= new[t]
        /\ \A t \in 0..(n - 1) : new[t] = birth[t]
    <2>1. \A t \in 0..(n - 1) : t \in 0..n /\ t # n
      OBVIOUS
    <2>2. \A t \in 0..n : birth[t] \in Int /\ b \in Int /\ c \in Int
      BY <1>1, <1>3
    <2>3. \A t \in 0..n : birth[t] <= new[t]
      <3>1. TAKE t \in 0..n
      <3>2. CASE t = n
        BY <1>1, <1>3, <2>2, <3>2
      <3>3. CASE t # n
        <4>1. new[t] = birth[t]
          BY <1>3, <3>3
        <4> QED
          BY <2>2, <4>1
      <3> QED
        BY <3>2, <3>3
    <2> QED
      BY <1>3, <2>1, <2>3
  <1> QED
    BY <1>2, <1>3, <1>5, <1>6, <1>7 DEF Births, After

(* What a series has said stays true when time goes on and when its        *)
(* counter starts again.                                                   *)
LEMMA SeriesStays ==
    ASSUME NEW pw \in Seq([Comps -> Levels]), NEW pw2 \in Seq([Comps -> Levels]), Len(pw) <= Len(pw2),
           \A t \in 1..Len(pw) : pw2[t] = pw[t],
           NEW birth \in [0..Len(pw) -> 0..Len(pw)], NEW birth2 \in [0..Len(pw2) -> 0..Len(pw2)],
           \A t \in 0..Len(pw) : birth[t] <= birth2[t],
           \A t \in 0..(Len(pw) - 1) : birth2[t] = birth[t],
           NEW s \in Series, NEW last, NEW last2, NEW ds \in Seq(Documents), NEW r \in KeptPoints,
           SeriesTrue(birth, s, pw, last, ds, r), Births(birth2, Len(pw2), last2)
    PROVE  SeriesTrue(birth2, s, pw2, last2, ds, r)
  <1>1. birth \in [0..Len(pw) -> Int] /\ birth2 \in [0..Len(pw2) -> Int]
    OBVIOUS
  <1>2. ASSUME NEW p, p.time \in Int, TruePoint(pw, birth, s, p)
        PROVE  TruePoint(pw2, birth2, s, p)
    BY <1>1, <1>2, PointStays
  <1>3. \A j \in DOMAIN ds : ds[j].points[s].time \in Int
    BY PointTypes
  <1>4. r.time \in Int
    BY DEF KeptPoints
  <1> QED
    BY <1>2, <1>3, <1>4 DEF SeriesTrue

(* Nothing has been said yet.                                              *)
LEMMA PowerInitInv == PowerInit => PowerInv
  <1> SUFFICES ASSUME PowerInit PROVE PowerInv
    OBVIOUS
  <1> USE DEF PowerInit
  <1>1. PowerType
    <2>1. docs[1] \in Documents
      BY DEF Documents, Points, NoPoint
    <2> QED
      BY <2>1 DEF PowerType, KeptPoints, NoKept, Cold, Documents, Points, NoPoint
  <1>2. PointsAreTrue
    <2> SUFFICES ASSUME NEW s \in Series
                 PROVE  \E birth \in [0..Len(power) -> 0..Len(power)] :
                            SeriesTrue(birth, s, power, born[s], docs, kept[s])
      BY DEF PointsAreTrue
    <2> DEFINE b == [t \in 0..0 |-> 0]
    <2>1. Len(power) = 0
      OBVIOUS
    <2>2. SeriesTrue(b, s, power, born[s], docs, kept[s])
      BY <2>1 DEF SeriesTrue, Births
    <2>3. b \in [0..Len(power) -> 0..Len(power)]
      BY <2>1
    <2> QED
      BY <2>2, <2>3
  <1>3. RatesTrue
    BY DEF RatesTrue, TrueRate, NoKept
  <1> QED
    BY <1>1, <1>2, <1>3 DEF PowerInv

(* A tick adds to the power of the past and changes none of it.            *)
LEMMA TickKeeps == ASSUME PowerInv, PowerTick PROVE PowerInv'
  <1> DEFINE n == Len(power)
  <1>0. PICK l \in [Comps -> Levels] : power' = Append(power, l)
    BY DEF PowerTick
  <1>1. born' = born /\ docs' = docs /\ kept' = kept
    BY DEF PowerTick, readerVars
  <1>2. /\ power \in Seq([Comps -> Levels]) /\ power' \in Seq([Comps -> Levels])
        /\ n \in Nat /\ Len(power') = n + 1 /\ \A t \in 1..n : power'[t] = power[t]
    BY <1>0 DEF PowerInv, PowerType
  <1>3. PowerType'
    BY <1>1, <1>2 DEF PowerInv, PowerType
  <1>4. docs \in Seq(Documents) /\ kept \in [Series -> KeptPoints]
    BY DEF PowerInv, PowerType
  <1>5. ASSUME NEW s \in Series
        PROVE  /\ \E new \in [0..Len(power') -> 0..Len(power')] : SeriesTrue(new, s, power', born[s], docs, kept[s])
               /\ kept[s] # NoKept => kept[s].time \in 1..(n + 1)
    <2>1. PICK birth \in [0..n -> 0..n] : SeriesTrue(birth, s, power, born[s], docs, kept[s])
      BY DEF PowerInv, PointsAreTrue
    <2>2. Births(birth, n, born[s])
      BY <2>1 DEF SeriesTrue
    <2> HIDE DEF n
    <2> DEFINE m == Len(power')
    <2>a. n \in Nat /\ m = n + 1
      BY <1>2
    <2> HIDE DEF m
    <2>b. PICK new : After(birth, new, n, m, born[s])
      <3>1. TickFrom(birth, n, m, born[s])
        BY <2>2, <2>a DEF TickFrom
      <3> QED
        BY <3>1, BirthsTick
    <2>3. /\ new \in [0..m -> 0..m] /\ Births(new, m, born[s])
          /\ \A t \in 0..n : birth[t] <= new[t]
          /\ \A t \in 0..(n - 1) : new[t] = birth[t]
      BY <2>b DEF After
    <2>4. SeriesTrue(new, s, power', born[s], docs, kept[s])
      <3>1. Len(power) = n /\ Len(power') = m /\ n <= m /\ kept[s] \in KeptPoints
        BY <1>2, <1>4, <2>a DEF n, m
      <3> QED
        BY <1>2, <1>4, <2>1, <2>3, <3>1, SeriesStays
    <2>5. kept[s] # NoKept => kept[s].time \in 1..(n + 1)
      BY <2>1 DEF SeriesTrue, TruePoint, n
    <2> QED
      BY <2>3, <2>4, <2>5 DEF m
  <1>6. PointsAreTrue'
    BY <1>1, <1>5 DEF PointsAreTrue
  <1>7. ASSUME NEW s \in Series PROVE TrueRate(power', s, kept[s])
    <2>1. TrueRate(power, s, kept[s])
      BY DEF PowerInv, RatesTrue
    <2>2. CASE kept[s] = NoKept
      BY <2>2 DEF TrueRate, NoKept
    <2>3. CASE kept[s] # NoKept
      <3>1. Extends(power, power', n) /\ n \in Nat /\ kept[s].time \in 1..(n + 1)
        BY <1>2, <1>5, <2>3 DEF Extends
      <3> HIDE DEF n
      <3> QED
        BY <2>1, <3>1, RateStays
    <2> QED
      BY <2>2, <2>3
  <1>8. RatesTrue'
    BY <1>1, <1>7 DEF RatesTrue
  <1> QED
    BY <1>3, <1>6, <1>8 DEF PowerInv

(* A restart moves the birth of the present tick.                          *)
LEMMA RestartKeeps == ASSUME PowerInv, ProducerRestart PROVE PowerInv'
  <1> DEFINE n == Len(power)
  <1>0. PICK r \in Series : born[r] < n /\ born' = [born EXCEPT ![r] = n]
    BY DEF ProducerRestart, now
  <1>1. power' = power /\ docs' = docs /\ kept' = kept
    BY DEF ProducerRestart, readerVars
  <1>2. /\ power \in Seq([Comps -> Levels]) /\ n \in Nat
        /\ born \in [Series -> Int] /\ born' \in [Series -> Int]
    BY <1>0 DEF PowerInv, PowerType
  <1>3. PowerType'
    BY <1>1, <1>2 DEF PowerInv, PowerType
  <1>4. docs \in Seq(Documents) /\ kept \in [Series -> KeptPoints]
    BY DEF PowerInv, PowerType
  <1>5. ASSUME NEW s \in Series
        PROVE  \E new \in [0..n -> 0..n] : SeriesTrue(new, s, power, born'[s], docs, kept[s])
    <2>1. PICK birth \in [0..n -> 0..n] : SeriesTrue(birth, s, power, born[s], docs, kept[s])
      BY DEF PowerInv, PointsAreTrue
    <2>2. Births(birth, n, born[s])
      BY <2>1 DEF SeriesTrue
    <2> HIDE DEF n
    <2>3. born'[s] \in 0..n /\ born[s] <= born'[s]
      <3>1. born[s] \in 0..n
        BY <1>2, <2>2 DEF Births
      <3>2. born'[s] = IF s = r THEN n ELSE born[s]
        BY <1>0, <1>2
      <3> QED
        BY <1>2, <3>1, <3>2
    <2>a. PICK new : After(birth, new, n, n, born'[s])
      BY <1>2, <2>2, <2>3, BirthsRestart
    <2>4. /\ new \in [0..n -> 0..n] /\ Births(new, n, born'[s])
          /\ \A t \in 0..n : birth[t] <= new[t]
          /\ \A t \in 0..(n - 1) : new[t] = birth[t]
      BY <2>a DEF After
    <2>5. SeriesTrue(new, s, power, born'[s], docs, kept[s])
      <3>1. Len(power) = n /\ n <= n /\ kept[s] \in KeptPoints /\ \A t \in 1..n : power[t] = power[t]
        BY <1>2, <1>4 DEF n
      <3> QED
        BY <1>2, <1>4, <2>1, <2>4, <3>1, SeriesStays
    <2> QED
      BY <2>4, <2>5
  <1>6. PointsAreTrue'
    BY <1>1, <1>5 DEF PointsAreTrue
  <1>7. RatesTrue'
    BY <1>1 DEF PowerInv, RatesTrue
  <1> QED
    BY <1>3, <1>6, <1>7 DEF PowerInv

(* A point that a producer writes is true.                                 *)
LEMMA PointNowTrue ==
    ASSUME PowerType, NEW s \in Series, NEW birth \in [0..now -> 0..now], Births(birth, now, born[s])
    PROVE  PointNow(s) \in Points /\ TruePoint(power, birth, s, PointNow(s))
  <1>1. power \in Seq([Comps -> Levels]) /\ now \in Nat /\ now = Len(power)
    BY DEF PowerType, now
  <1>2. born[s] \in 0..now /\ birth[now] = born[s] /\ (now > 0 => birth[now - 1] <= born[s])
    BY <1>1 DEF Births
  <1> DEFINE e == Drawn(power, CompOf[s], born[s], now)
             p == PointNow(s)
  <1>3. e \in Nat
    <2>1. Ordered(power, CompOf[s], born[s], now, now)
      BY <1>1, <1>2, CompOfSeries DEF Ordered
    <2> QED
      BY <2>1, DrawnAdds
  <1>4. p = [start |-> IF s \in Starts THEN born[s] + 1 ELSE 0, time |-> now + 1, energy |-> e]
    BY DEF PointNow, Energy, Drawn
  <1> HIDE DEF e, p
  <1>5. p \in Points
    BY <1>1, <1>2, <1>3, <1>4 DEF Points
  <1>6. /\ p.time - 1 = now /\ p.time \in 1..(Len(power) + 1)
        /\ p.energy = Drawn(power, CompOf[s], born[s], now)
        /\ p.start = IF s \in Starts THEN born[s] + 1 ELSE 0
    BY <1>1, <1>4 DEF e
  <1>7. TruePoint(power, birth, s, p)
    <2>1. /\ born[s] <= birth[now] /\ (now > 0 => birth[now - 1] <= born[s])
          /\ p.energy = Drawn(power, CompOf[s], born[s], now)
          /\ p.start = IF s \in Starts THEN born[s] + 1 ELSE 0
      BY <1>1, <1>2, <1>6
    <2> HIDE DEF now
    <2>2. \E b \in 0..now :
             /\ b <= birth[now] /\ (now > 0 => birth[now - 1] <= b)
             /\ p.energy = Drawn(power, CompOf[s], b, now)
             /\ p.start = IF s \in Starts THEN b + 1 ELSE 0
      BY <1>2, <2>1
    <2> QED
      BY <1>6, <2>2 DEF TruePoint
  <1> QED
    BY <1>5, <1>7 DEF p

(* A document has true points; older documents go.                         *)
LEMMA PublishKeeps == ASSUME PowerInv, Publish PROVE PowerInv'
  <1>0. PICK present \in SUBSET Series :
            docs' = SubSeq(Append(docs, DocNow(present)),
                           Max({1, Len(Append(docs, DocNow(present))) - Lag}), Len(Append(docs, DocNow(present))))
    BY DEF Publish
  <1>1. power' = power /\ born' = born /\ kept' = kept
    BY DEF Publish, readerVars
  <1> DEFINE doc == DocNow(present)
             d == Append(docs, doc)
             m == Max({1, Len(d) - Lag})
  <1>2. PowerType /\ power \in Seq([Comps -> Levels]) /\ now \in Nat /\ docs \in Seq(Documents)
    BY DEF PowerInv, PowerType, now
  <1>3. ASSUME NEW s \in Series, NEW birth \in [0..now -> 0..now], SeriesTrue(birth, s, power, born[s], docs, kept[s])
        PROVE  PointNow(s) \in Points /\ TruePoint(power, birth, s, PointNow(s))
    BY <1>2, <1>3, PointNowTrue DEF SeriesTrue, now
  <1>4. doc \in Documents
    <2>1. \A s \in Series : PointNow(s) \in Points
      BY <1>3 DEF PowerInv, PointsAreTrue, now
    <2>2. NoPoint \in Points
      BY DEF NoPoint, Points
    <2>3. \A k \in Gauges : (IF now = 0 THEN 0 ELSE power[now][k]) \in Int
      <3>1. \A k \in Gauges : k \in Comps
        BY DEF Comps
      <3>2. now # 0 => power[now] \in [Comps -> Levels]
        BY <1>2 DEF now
      <3>3. \A l \in Levels : l \in Int
        BY PowerAssumption
      <3> QED
        BY <3>1, <3>2, <3>3
    <2> QED
      BY <2>1, <2>2, <2>3 DEF DocNow, Documents
  <1>5. d \in Seq(Documents) /\ Len(d) = Len(docs) + 1 /\ Len(d) \in Nat
    <2> HIDE DEF doc
    <2> QED
      BY <1>2, <1>4
  <1>6. m \in 1..Len(d)
    <2>1. Lag \in Nat /\ Len(docs) \in Nat
      BY <1>2, PowerAssumption
    <2> DEFINE a == Len(d) - Lag
    <2>2. a \in Int /\ a <= Len(d) /\ 1 <= Len(d)
      BY <1>5, <2>1
    <2> HIDE DEF a, d
    <2>3. \E y \in {1, a} : \A z \in {1, a} : y >= z
      BY <2>2
    <2>4. Max({1, a}) \in {1, a} /\ \A z \in {1, a} : Max({1, a}) >= z
      BY <2>3 DEF Max
    <2>5. Max({1, a}) \in 1..Len(d)
      BY <1>5, <2>2, <2>4
    <2> QED
      BY <2>5 DEF a
  <1>7. docs' \in Seq(Documents) /\ \A j \in DOMAIN docs' : \E i \in DOMAIN d : docs'[j] = d[i]
    <2> HIDE DEF doc, d, m
    <2>1. docs' = SubSeq(d, m, Len(d))
      BY <1>0 DEF doc, d, m
    <2>2. DOMAIN d = 1..Len(d)
      BY <1>5
    <2>3. SubSeq(d, m, Len(d)) \in Seq(Documents)
      BY <1>5, <1>6
    <2>4. \A j \in 1..((Len(d) - m) + 1) : SubSeq(d, m, Len(d))[j] = d[(m + j) - 1]
      BY <1>5, <1>6
    <2>5. DOMAIN docs' = 1..((Len(d) - m) + 1)
      BY <1>5, <1>6, <2>1
    <2>6. \A j \in 1..((Len(d) - m) + 1) : (m + j) - 1 \in 1..Len(d)
      BY <1>5, <1>6
    <2> QED
      BY <2>1, <2>2, <2>3, <2>4, <2>5, <2>6
  <1>8. \A i \in DOMAIN d : d[i] = doc \/ \E j \in DOMAIN docs : d[i] = docs[j]
    <2> HIDE DEF doc
    <2> QED
      BY <1>2, <1>4
  <1>9. PowerType'
    BY <1>1, <1>2, <1>7 DEF PowerType
  <1>10. ASSUME NEW s \in Series
         PROVE  \E birth \in [0..Len(power) -> 0..Len(power)] : SeriesTrue(birth, s, power, born[s], docs', kept[s])
    <2>1. PICK birth \in [0..Len(power) -> 0..Len(power)] : SeriesTrue(birth, s, power, born[s], docs, kept[s])
      BY DEF PowerInv, PointsAreTrue
    <2>2. \A j \in DOMAIN docs : docs[j].points[s] # NoPoint => TruePoint(power, birth, s, docs[j].points[s])
      BY <2>1 DEF SeriesTrue
    <2>3. doc.points[s] # NoPoint => TruePoint(power, birth, s, doc.points[s])
      <3>1. TruePoint(power, birth, s, PointNow(s))
        BY <1>3, <2>1 DEF now
      <3>2. doc.points[s] = IF s \in present THEN PointNow(s) ELSE NoPoint
        BY DEF DocNow
      <3> HIDE DEF doc
      <3> QED
        BY <3>1, <3>2
    <2> HIDE DEF doc, d
    <2>4. \A j \in DOMAIN docs' : docs'[j] = doc \/ \E i \in DOMAIN docs : docs'[j] = docs[i]
      BY <1>7, <1>8
    <2>5. \A j \in DOMAIN docs' : docs'[j].points[s] # NoPoint => TruePoint(power, birth, s, docs'[j].points[s])
      BY <2>2, <2>3, <2>4
    <2>6. SeriesTrue(birth, s, power, born[s], docs', kept[s])
      BY <2>1, <2>5 DEF SeriesTrue
    <2> QED
      BY <2>6
  <1>11. PointsAreTrue'
    BY <1>1, <1>10 DEF PointsAreTrue
  <1>12. RatesTrue'
    BY <1>1 DEF PowerInv, RatesTrue
  <1> QED
    BY <1>9, <1>11, <1>12 DEF PowerInv

(* A read keeps true points, from whichever document answers.              *)
LEMMA FetchKeeps == ASSUME PowerInv, FetchOTLP PROVE PowerInv'
  <1>0. PICK j \in DOMAIN docs : kept' = KeepAll(docs[j])
    BY DEF FetchOTLP
  <1>1. power' = power /\ born' = born /\ docs' = docs
    BY DEF FetchOTLP
  <1>2. /\ power \in Seq([Comps -> Levels]) /\ docs \in Seq(Documents) /\ kept \in [Series -> KeptPoints]
        /\ \A s \in Series : TrueRate(power, s, kept[s])
    BY DEF PowerInv, PowerType, RatesTrue
  <1>3. ASSUME NEW s \in Series
        PROVE  /\ \E birth \in [0..Len(power) -> 0..Len(power)] :
                      SeriesTrue(birth, s, power, born[s], docs, kept'[s])
               /\ kept'[s] \in KeptPoints /\ TrueRate(power, s, kept'[s])
    <2> DEFINE p == docs[j].points[s]
    <2>1. PICK birth \in [0..Len(power) -> 0..Len(power)] : SeriesTrue(birth, s, power, born[s], docs, kept[s])
      BY DEF PowerInv, PointsAreTrue
    <2>2. kept'[s] = IF p = NoPoint THEN NoKept ELSE KeepPoint(kept[s], p)
      BY <1>0 DEF KeepAll
    <2>3. p \in Points /\ kept[s] \in KeptPoints
      BY <1>2, PointTypes
    <2>4. p # NoPoint => TruePoint(power, birth, s, p)
      BY <2>1 DEF SeriesTrue
    <2>5. kept[s] # NoKept => TruePoint(power, birth, s, kept[s])
      BY <2>1 DEF SeriesTrue
    <2>6. /\ kept'[s] \in KeptPoints
          /\ kept'[s] # NoKept => TruePoint(power, birth, s, kept'[s])
          /\ TrueRate(power, s, kept'[s])
      <3>1. CASE p = NoPoint
        BY <2>2, <3>1 DEF KeptPoints, NoKept, Cold, TrueRate
      <3>2. CASE p # NoPoint
        <4>1. birth \in [0..now -> 0..now] /\ \A u, v \in 0..now : u <= v => birth[u] <= birth[v]
          BY <2>1 DEF SeriesTrue, Births, now
        <4> HIDE DEF p
        <4>2. /\ KeepPoint(kept[s], p) \in KeptPoints
              /\ TruePoint(power, birth, s, KeepPoint(kept[s], p))
              /\ TrueRate(power, s, KeepPoint(kept[s], p))
          BY <1>2, <2>3, <2>4, <2>5, <3>2, <4>1, KeepIsTrue
        <4> QED
          BY <2>2, <3>2, <4>2
      <3> QED
        BY <3>1, <3>2
    <2>7. SeriesTrue(birth, s, power, born[s], docs, kept'[s])
      BY <2>1, <2>6 DEF SeriesTrue
    <2> QED
      BY <2>6, <2>7
  <1>4. PowerType'
    <2>1. kept' = [s \in Series |-> kept'[s]]
      BY <1>0 DEF KeepAll
    <2>2. kept' \in [Series -> KeptPoints]
      BY <1>3, <2>1
    <2> QED
      BY <1>1, <2>2 DEF PowerInv, PowerType
  <1>5. PointsAreTrue'
    BY <1>1, <1>3 DEF PointsAreTrue
  <1>6. RatesTrue'
    BY <1>1, <1>3 DEF RatesTrue
  <1> QED
    BY <1>4, <1>5, <1>6 DEF PowerInv

(* A read that leaves the reader as it is.                                 *)
LEMMA SameKeeps == ASSUME PowerInv, UNCHANGED <<power, born, docs, kept>> PROVE PowerInv'
  BY DEF PowerInv, PowerType, PointsAreTrue, RatesTrue

(* Every step keeps the invariant.                                         *)
LEMMA PowerNextInv == PowerInv /\ [PowerNext]_powerVars => PowerInv'
  <1> SUFFICES ASSUME PowerInv, [PowerNext]_powerVars PROVE PowerInv'
    OBVIOUS
  <1>1. CASE Publish
    BY <1>1, PublishKeeps
  <1>2. CASE ProducerRestart
    BY <1>2, RestartKeeps
  <1>3. CASE PowerTick
    BY <1>3, TickKeeps
  <1>4. CASE FetchOTLP
    BY <1>4, FetchKeeps
  <1>5. CASE FetchLegacy
    BY <1>5, SameKeeps DEF FetchLegacy
  <1>6. CASE FetchFails
    BY <1>6, SameKeeps DEF FetchFails
  <1>7. CASE UNCHANGED powerVars
    BY <1>7, SameKeeps DEF powerVars, readerVars
  <1> QED
    BY <1>1, <1>2, <1>3, <1>4, <1>5, <1>6, <1>7 DEF PowerNext

(* A rate the reader returns is the mean of what the component drew over   *)
(* an interval within the window and one lifetime of its counter, or less  *)
(* when a producer restarts and does not say so (Watts).                   *)
THEOREM RatesAreTrue == PowerSpec => []RateIsTrue
  <1>1. PowerInv => RateIsTrue
    BY RatesAre DEF PowerInv
  <1> QED
    BY <1>1, PowerInitInv, PowerNextInv, PTL DEF PowerSpec

-----------------------------------------------------------------------------
(* Export: what leaves the simulator is true.  A request that is sent says *)
(* no more than the tree it was read from; requests and samples are        *)
(* ordered in energy as they are in time; and while the changes of the     *)
(* governor are calm, a request that is still due names either the state   *)
(* in force and the one it left, or that one.                              *)

XRequests ==
    [reqs : Seq(SUBSET Resources), at : Nat, j : Nat, now : Presets \cup {NoValue},
     left : Presets \cup {NoValue}, try : Nat, final : BOOLEAN]
XReceivers ==
    [at : [Resources -> Nat], j : [Resources -> Nat], gov : SUBSET (Presets \cup {NoValue}),
     taken : Nat, net : XRequests \cup {NoValue}]
XGhosts == [acked : SUBSET Nat, cut : SUBSET Nat, calm : BOOLEAN, shown : BOOLEAN, lives : Nat]
XTypeOK ==
    /\ host \in [j : Nat, gov : Presets, ticks : Nat]
    /\ latest = NoValue \/ latest \in [j : Nat, now : Presets, left : Presets \cup {NoValue}]
    /\ emu \in [pc : {"idle", "tick", "publish", "run"}, recs : {<<>>, <<"hw">>}]
    /\ push = NoValue \/ push \in XRequests
    /\ clk \in Nat /\ counted \in Nat /\ events \in Nat
    /\ recv \in XReceivers /\ ghost \in XGhosts

(* Only a process that is down has left a line a crash cut.                *)
JournalInv ==
    /\ journal \in [lines : Seq(Nat), torn : {"no", "short", "crash"}]
    /\ journal.torn = "crash" => life = "down"
    /\ EventsAreKept

(* A run's record, and the last line of one that ended.                    *)
RunInv ==
    /\ run \in [st : {"none", "active", "ended", "cut"}, cum : Nat, wrote : BOOLEAN, since : Nat, line : Nat, bad : BOOLEAN]
    /\ LastLineIsFinal

(* The snapshot is of the tree, and the mirror follows the snapshots.      *)
MirrorInv ==
    /\ mirror \in [j : Int, last : Nat \cup {NoValue}, first : Nat \cup {NoValue}]
    /\ latest # NoValue => latest.j = host.j
    /\ emu.pc = "publish" => latest # NoValue
    /\ mirror.last # NoValue => latest # NoValue /\ mirror.last <= latest.j
    /\ mirror.first = NoValue => mirror.last = NoValue /\ mirror.j = 0
    /\ mirror.first # NoValue => mirror.last # NoValue
    /\ MirrorAgrees

XSent(p) == p # NoValue /\ p.reqs # <<>>
(* A request later than a sample says no less energy.                      *)
SaysMore(p, at, j) == XSent(p) /\ p.at >= at => p.j >= j
SentInv ==
    /\ counted <= recv.taken
    /\ recv.net # NoValue => XSent(recv.net)
    /\ \A p \in {push, recv.net} : XSent(p) => p.at <= clk /\ p.j <= host.j
    /\ \A r \in Resources : recv.at[r] <= clk /\ recv.j[r] <= host.j
    /\ \A p \in {push, recv.net}, r \in Resources : SaysMore(p, recv.at[r], recv.j[r])
    /\ \A p, q \in {push, recv.net} : XSent(q) => SaysMore(p, q.at, q.j)

XDue(p) == XSent(p) /\ p.at >= recv.at[Governed]
NamesBoth(p) == p.now = host.gov /\ p.left = latest.left
GovernorInv ==
    /\ clk = 0 => recv.gov = {} /\ \A p \in {push, recv.net} : ~XSent(p)
    /\ latest # NoValue => latest.now = host.gov /\ latest.left # latest.now
    /\ ghost.calm /\ ghost.shown =>
        recv.gov \subseteq {host.gov} /\ \A p \in {push, recv.net} : XDue(p) => p.now = host.gov
    /\ ghost.calm /\ ~ghost.shown /\ clk # 0 =>
        /\ latest # NoValue /\ recv.gov \subseteq {latest.left}
        /\ \A p \in {push, recv.net} : XDue(p) => NamesBoth(p) \/ p.now = latest.left
        /\ \A p, q \in {push, recv.net} : XDue(p) /\ NamesBoth(p) /\ XSent(q) /\ q.at >= p.at => NamesBoth(q)

ExportInv == XTypeOK /\ JournalInv /\ RunInv /\ MirrorInv /\ SentInv /\ GovernorInv

(* The resources are finitely many, and the node whose governor is         *)
(* followed is one of them.                                                *)
LEMMA ResourcesAre == IsFiniteSet(Resources) /\ Governed \in Resources
  <1> DEFINE D == 1 .. Len(XNodes)
             f == [i \in D |-> XNodes[i].name]
             T == {XNodes[i].name : i \in D}
  <1>1. D = DOMAIN XNodes /\ Len(XNodes) \in Nat /\ 1 \in D
    BY ExportAssumption
  <1>2. IsFiniteSet(D)
    BY <1>1, FS_Interval
  <1>3. f \in Surjection(D, T)
    BY DEF Surjection
  <1>4. IsFiniteSet(T)
    <2> HIDE DEF D, T, f
    <2> QED
      BY <1>2, <1>3, FS_Surjection
  <1>5. IsFiniteSet(T \cup {Facility})
    BY <1>4, FS_AddElement
  <1> QED
    BY <1>1, <1>5 DEF Resources, Governed

(* The requests of an export are sets of resources.                        *)
LEMMA RequestsAre == metricsRequests \in Seq(SUBSET Resources)
  <1> DEFINE n == Cardinality(Exporting)
             chunks == IF n = 0 THEN 1 ELSE (n + MaxNodes - 1) \div MaxNodes
             before(i) == Cardinality({k \in Exporting : k < i})
             chunk(k) == {XNodes[i].name : i \in {x \in Exporting : before(x) \div MaxNodes = k - 1}}
                         \cup (IF k = 1 THEN {Facility} ELSE {})
  <1>1. n \in Nat
    <2>1. IsFiniteSet(DOMAIN XNodes)
      <3>1. DOMAIN XNodes = 1 .. Len(XNodes) /\ Len(XNodes) \in Nat
        BY ExportAssumption
      <3> QED
        BY <3>1, FS_Interval
    <2>2. IsFiniteSet(Exporting)
      BY <2>1, FS_Subset DEF Exporting
    <2> QED
      BY <2>2, FS_CardinalityType
  <1>2. chunks \in Nat
    <2> HIDE DEF n
    <2>1. MaxNodes \in Nat \ {0}
      BY ExportAssumption
    <2>2. ASSUME NEW a \in Nat, NEW b \in Nat \ {0} PROVE a \div b \in Nat
      OBVIOUS
    <2> QED
      BY <1>1, <2>1, <2>2
  <1>3. \A k \in 1 .. chunks : chunk(k) \in SUBSET Resources
    <2> HIDE DEF chunks, before
    <2> QED
      BY DEF Exporting, Resources
  <1>4. metricsRequests = [k \in 1 .. chunks |-> chunk(k)]
    BY DEF metricsRequests
  <1> HIDE DEF chunks, chunk
  <1> QED
    BY <1>2, <1>3, <1>4

(* The initial states have the invariant.                                  *)
LEMMA ExportStarts == XInit => ExportInv
  <1> SUFFICES ASSUME XInit PROVE ExportInv
    OBVIOUS
  <1>1. host \in [j : Nat, gov : Presets, ticks : Nat]
    BY ExportAssumption DEF XInit
  <1>2. emu \in [pc : {"idle", "tick", "publish", "run"}, recs : {<<>>, <<"hw">>}] /\ emu.pc = "idle"
    <2>1. emu = EmuIdle
      BY DEF XInit
    <2> QED
      BY <2>1 DEF EmuIdle
  <1>3. /\ recv \in XReceivers
        /\ recv.gov = {} /\ recv.net = NoValue /\ recv.taken = 0
        /\ \A r \in Resources : recv.at[r] = 0 /\ recv.j[r] = 0
    BY DEF XInit, XReceivers
  <1>4. ghost \in XGhosts
    BY DEF XInit, XGhosts
  <1>5. XTypeOK
    BY <1>1, <1>2, <1>3, <1>4 DEF XInit, XTypeOK
  <1>6. JournalInv
    BY DEF XInit, JournalInv, EventsAreKept
  <1>7. RunInv
    <2>1. run \in [st : {"none", "active", "ended", "cut"}, cum : Nat, wrote : BOOLEAN, since : Nat, line : Nat, bad : BOOLEAN]
      <3>1. run = NoRun
        BY DEF XInit
      <3> QED
        BY <3>1 DEF NoRun
    <2>2. run.st = "none"
      BY DEF XInit, NoRun
    <2> QED
      BY <2>1, <2>2 DEF RunInv, LastLineIsFinal
  <1>8. MirrorInv
    BY <1>2 DEF XInit, NoMirror, MirrorInv, MirrorAgrees
  <1>9. ~XSent(push) /\ ~XSent(recv.net)
    BY <1>3 DEF XInit, XSent
  <1>10. SentInv
    BY <1>1, <1>3, <1>9 DEF XInit, SentInv, SaysMore
  <1>11. GovernorInv
    BY <1>3, <1>9 DEF XInit, GovernorInv, XDue
  <1> QED
    BY <1>5, <1>6, <1>7, <1>8, <1>10, <1>11 DEF ExportInv

-----------------------------------------------------------------------------
(* The events file.                                                        *)

(* An event that is taken while the process is up is a whole line, or on a *)
(* line that was cut short in this process.                                *)
LEMMA EmitKeeps ==
    ASSUME XTypeOK, JournalInv, life # "down", Emit(events + 1)
    PROVE  /\ journal' \in [lines : Seq(Nat), torn : {"no", "short"}]
           /\ EventsAreKept'
           /\ events' \in Nat
           /\ ghost' \in XGhosts
           /\ ghost'.calm = ghost.calm /\ ghost'.shown = ghost.shown
  <1> DEFINE line == events + 1
  <1>1. /\ line \in Nat /\ events' = line
        /\ journal \in [lines : Seq(Nat), torn : {"no", "short"}]
    BY DEF Emit, XTypeOK, JournalInv
  <1>2. PICK o \in Outcomes(journal, line) :
            /\ journal' = o.file
            /\ ghost' = [ghost EXCEPT !.acked = IF o.ok THEN @ \cup {line} ELSE @,
                                      !.cut = IF o.ok /\ journal.torn = "short" THEN @ \cup {line} ELSE @]
    BY DEF Emit
  <1> HIDE DEF line
  <1>3. ghost \in [acked : SUBSET Nat, cut : SUBSET Nat, calm : BOOLEAN, shown : BOOLEAN, lives : Nat]
    BY DEF XTypeOK, XGhosts
  <1>4. ghost.acked \subseteq ToSet(journal.lines) \cup ghost.cut
    BY DEF JournalInv, EventsAreKept
  <1>5. CASE o.ok /\ o.file = Written(journal, line)
    <2>1. CASE journal.torn = "no"
      <3>1. journal' = [journal EXCEPT !.lines = Append(@, line)]
        BY <1>2, <1>5, <2>1 DEF Written
      <3>2. journal'.lines = Append(journal.lines, line) /\ journal' \in [lines : Seq(Nat), torn : {"no", "short"}]
        <4>1. Append(journal.lines, line) \in Seq(Nat)
          BY <1>1
        <4> QED
          BY <1>1, <3>1, <4>1
      <3>3. ToSet(journal'.lines) = ToSet(journal.lines) \cup {line}
        <4> DEFINE s == journal.lines
        <4>1. s \in Seq(Nat) /\ line \in Nat
          BY <1>1
        <4> HIDE DEF s
        <4>2. /\ DOMAIN Append(s, line) = 1 .. Len(s) + 1 /\ DOMAIN s = 1 .. Len(s) /\ Len(s) \in Nat
              /\ Append(s, line)[Len(s) + 1] = line
              /\ \A i \in 1 .. Len(s) : Append(s, line)[i] = s[i]
          BY <4>1
        <4>3. ToSet(Append(s, line)) = ToSet(s) \cup {line}
          BY <4>2 DEF ToSet
        <4> QED
          BY <3>2, <4>3 DEF s
      <3>4. ghost' = [ghost EXCEPT !.acked = ghost.acked \cup {line}, !.cut = ghost.cut]
        BY <1>2, <1>5, <2>1
      <3>5. ghost'.acked = ghost.acked \cup {line} /\ ghost'.cut = ghost.cut
            /\ ghost'.calm = ghost.calm /\ ghost'.shown = ghost.shown
            /\ ghost' \in XGhosts
        BY <1>1, <1>3, <3>4 DEF XGhosts
      <3> QED
        BY <1>1, <1>4, <3>2, <3>3, <3>5 DEF EventsAreKept, XGhosts
    <2>2. CASE journal.torn = "short"
      <3>1. journal' = [journal EXCEPT !.torn = "no"]
        BY <1>2, <1>5, <2>2 DEF Written
      <3>2. journal'.lines = journal.lines /\ journal' \in [lines : Seq(Nat), torn : {"no", "short"}]
        BY <1>1, <3>1
      <3>3. ghost' = [ghost EXCEPT !.acked = ghost.acked \cup {line}, !.cut = ghost.cut \cup {line}]
        BY <1>2, <1>5, <2>2
      <3>4. ghost'.acked = ghost.acked \cup {line} /\ ghost'.cut = ghost.cut \cup {line}
            /\ ghost'.calm = ghost.calm /\ ghost'.shown = ghost.shown
            /\ ghost' \in XGhosts
        BY <1>1, <1>3, <3>3 DEF XGhosts
      <3> QED
        BY <1>1, <1>4, <3>2, <3>4 DEF EventsAreKept, XGhosts
    <2> QED
      BY <1>1, <2>1, <2>2
  <1>6. CASE ~o.ok /\ o.file \in {journal, [journal EXCEPT !.torn = "short"]}
    <2>1. journal'.lines = journal.lines /\ journal' \in [lines : Seq(Nat), torn : {"no", "short"}]
      BY <1>1, <1>2, <1>6
    <2>2. ghost' = [ghost EXCEPT !.acked = ghost.acked, !.cut = ghost.cut]
      BY <1>2, <1>6
    <2>3. ghost' = ghost
      BY <1>3, <2>2
    <2> QED
      BY <1>1, <1>3, <1>4, <2>1, <2>3 DEF EventsAreKept, XGhosts
  <1>7. \/ o = [ok |-> TRUE, file |-> Written(journal, line)]
        \/ o = [ok |-> FALSE, file |-> journal]
        \/ o = [ok |-> FALSE, file |-> [journal EXCEPT !.torn = "short"]]
    BY <1>2 DEF Outcomes
  <1> QED
    BY <1>5, <1>6, <1>7

-----------------------------------------------------------------------------
(* The receiver.                                                           *)

(* q is the request p or what is left of it.                               *)
SameExport(q, p) ==
    XSent(q) => XSent(p) /\ q.at = p.at /\ q.j = p.j /\ q.now = p.now /\ q.left = p.left
(* t is the receiver after it has taken the resources rs of p.             *)
TakenAs(t, p, rs) ==
    /\ t \in XReceivers
    /\ \A r \in Resources : /\ t.at[r] = IF r \in rs THEN p.at ELSE recv.at[r]
                            /\ t.j[r] = IF r \in rs THEN p.j ELSE recv.j[r]
    /\ t.gov = IF Governed \in rs THEN (recv.gov \cup {p.now}) \ {p.left} ELSE recv.gov
    /\ t.taken = recv.taken + Cardinality(rs)
SeenAs(p, rs) ==
    /\ ghost' \in XGhosts /\ ghost'.acked = ghost.acked /\ ghost'.cut = ghost.cut /\ ghost'.calm = ghost.calm
    /\ ghost'.shown <=> ghost.shown \/ (Governed \in rs /\ p.now = host.gov)
Delivery ==
    \E p \in {push, recv.net}, rs \in SUBSET Resources :
        /\ XSent(p) /\ \A r \in rs : p.at >= recv.at[r]
        /\ TakenAs(recv', p, rs) /\ SeenAs(p, rs)
        /\ counted' \in Nat /\ counted' <= counted + Cardinality(rs)
        /\ SameExport(push', push) /\ (push' = NoValue \/ push' \in XRequests)
        /\ SameExport(recv'.net, push) \/ SameExport(recv'.net, recv.net)
        /\ recv'.net # NoValue => XSent(recv'.net)
        /\ UNCHANGED <<life, host, latest, emu, mirror, clk, journal, run, events>>

(* What Taking returns.                                                    *)
LEMMA TakingIs ==
    ASSUME recv \in XReceivers, NEW p \in XRequests, NEW rs \in SUBSET Resources
    PROVE  TakenAs(Taking(p, rs), p, rs) /\ Taking(p, rs).net = recv.net /\ Cardinality(rs) \in Nat
  <1> DEFINE at1 == [r \in Resources |-> IF r \in rs THEN p.at ELSE recv.at[r]]
             j1 == [r \in Resources |-> IF r \in rs THEN p.j ELSE recv.j[r]]
             gov1 == IF Governed \in rs THEN (recv.gov \cup {p.now}) \ {p.left} ELSE recv.gov
             taken1 == recv.taken + Cardinality(rs)
  <1>1. Cardinality(rs) \in Nat
    BY ResourcesAre, FS_Subset, FS_CardinalityType
  <1>2. Taking(p, rs) = [recv EXCEPT !.at = at1, !.j = j1, !.gov = gov1, !.taken = taken1]
    BY DEF Taking
  <1>3. at1 \in [Resources -> Nat] /\ j1 \in [Resources -> Nat] /\ gov1 \in SUBSET (Presets \cup {NoValue})
        /\ taken1 \in Nat
    BY <1>1 DEF XReceivers, XRequests
  <1>4. \A r \in Resources : /\ at1[r] = IF r \in rs THEN p.at ELSE recv.at[r]
                             /\ j1[r] = IF r \in rs THEN p.j ELSE recv.j[r]
    OBVIOUS
  <1>5. gov1 = IF Governed \in rs THEN (recv.gov \cup {p.now}) \ {p.left} ELSE recv.gov
    OBVIOUS
  <1>6. taken1 = recv.taken + Cardinality(rs)
    OBVIOUS
  <1> HIDE DEF at1, j1, gov1, taken1
  <1>7. /\ Taking(p, rs).at = at1 /\ Taking(p, rs).j = j1 /\ Taking(p, rs).gov = gov1
        /\ Taking(p, rs).taken = taken1 /\ Taking(p, rs).net = recv.net
        /\ Taking(p, rs) \in XReceivers
    BY <1>2, <1>3 DEF XReceivers
  <1> QED
    BY <1>1, <1>4, <1>5, <1>6, <1>7 DEF TakenAs

(* A step of Takes is a delivery.                                          *)
LEMMA TakesDelivers ==
    ASSUME recv \in XReceivers, ghost \in XGhosts, NEW p \in XRequests, NEW rs \in SUBSET Resources,
           Takes(p, rs)
    PROVE  TakenAs(recv', p, rs) /\ SeenAs(p, rs) /\ recv'.net = recv.net
  <1>1. recv' = Taking(p, rs) /\ Shows(p, rs)
    BY DEF Takes
  <1>2. TakenAs(recv', p, rs) /\ recv'.net = recv.net
    BY <1>1, TakingIs
  <1>3. SeenAs(p, rs)
    BY <1>1 DEF Shows, SeenAs, XGhosts
  <1> QED
    BY <1>2, <1>3

(* So is a step that takes nothing, of no resources.                       *)
LEMMA NothingDelivers ==
    ASSUME recv' \in XReceivers, ghost \in XGhosts, NEW p,
           recv'.at = recv.at, recv'.j = recv.j, recv'.gov = recv.gov, recv'.taken = recv.taken,
           recv \in XReceivers, UNCHANGED ghost
    PROVE  TakenAs(recv', p, {}) /\ SeenAs(p, {})
  <1>1. Cardinality({}) = 0 /\ recv.taken + 0 = recv.taken
    BY FS_EmptySet DEF XReceivers
  <1>2. TakenAs(recv', p, {})
    BY <1>1 DEF TakenAs
  <1>3. SeenAs(p, {})
    BY DEF SeenAs
  <1> QED
    BY <1>2, <1>3

(* What is left of a request is of the same export.                        *)
LEMMA LeftOver ==
    ASSUME NEW p \in XRequests, XSent(p), NEW q,
           q \in {AfterThis(p), [p EXCEPT !.try = @ + 1]}
    PROVE  SameExport(q, p) /\ (q = NoValue \/ q \in XRequests)
  <1>1. CASE q = [p EXCEPT !.try = @ + 1]
    BY <1>1 DEF SameExport, XRequests, XSent
  <1>2. CASE q = NoValue
    BY <1>2 DEF SameExport, XSent
  <1>3. CASE q = [p EXCEPT !.reqs = Tail(@), !.try = 1]
    <2>1. Tail(p.reqs) \in Seq(SUBSET Resources)
      BY DEF XRequests, XSent
    <2> QED
      BY <1>3, <2>1 DEF SameExport, XRequests, XSent
  <1> QED
    BY <1>1, <1>2, <1>3 DEF AfterThis

(* The next request of an export is a set of resources.                    *)
LEMMA HeadIs ==
    ASSUME NEW p \in XRequests, p.reqs # <<>>
    PROVE  Head(p.reqs) \in SUBSET Resources
  <1>1. p.reqs \in Seq(SUBSET Resources)
    BY DEF XRequests
  <1> QED
    BY <1>1

(* A POST is a delivery, of nothing where nothing was taken.               *)
LEMMA PostsDeliver ==
    ASSUME XTypeOK, SentInv, Posts
    PROVE  Delivery
  <1> DEFINE req == Head(push.reqs)
             rs == Newer(push, req)
             Kept(q) == SameExport(q, push) /\ (q = NoValue \/ q \in XRequests)
  <1>1. push \in XRequests /\ XSent(push) /\ push.reqs # <<>> /\ push # NoValue
    BY DEF Posts, XTypeOK, XSent
  <1>2. req \in SUBSET Resources /\ rs \in SUBSET req /\ \A r \in rs : push.at >= recv.at[r]
    BY <1>1, HeadIs DEF Newer
  <1>3. recv \in XReceivers /\ ghost \in XGhosts /\ counted \in Nat /\ Cardinality({}) = 0
        /\ \A part \in SUBSET Resources : Cardinality(part) \in Nat
    BY ResourcesAre, FS_Subset, FS_CardinalityType, FS_EmptySet DEF XTypeOK
  <1>4. UNCHANGED <<life, host, latest, emu, mirror, clk, journal, run, events>>
    BY DEF Posts
  <1>5. \A q : q = AfterThis(push) \/ q = [push EXCEPT !.try = @ + 1] => Kept(q)
    BY <1>1, LeftOver
  <1>6. SameExport(recv.net, recv.net) /\ SameExport(push, push) /\ (recv.net # NoValue => XSent(recv.net))
    BY DEF SameExport, SentInv
  <1>7. ASSUME NEW part \in SUBSET rs, Takes(push, part), counted' \in Nat, counted' <= counted + Cardinality(part), Kept(push')
        PROVE  Delivery
    <2>1. part \in SUBSET Resources /\ \A r \in part : push.at >= recv.at[r]
      BY <1>2
    <2>2. TakenAs(recv', push, part) /\ SeenAs(push, part) /\ recv'.net = recv.net
      BY <1>1, <1>3, <1>7, <2>1, TakesDelivers
    <2> HIDE DEF rs, req
    <2> QED
      BY <1>1, <1>4, <1>6, <1>7, <2>1, <2>2 DEF Delivery
  <1>8. ASSUME UNCHANGED ghost, counted' = counted, Kept(push'),
               recv' = recv \/ recv' = [recv EXCEPT !.net = push]
        PROVE  Delivery
    <2>1. /\ recv' \in XReceivers /\ recv'.at = recv.at /\ recv'.j = recv.j /\ recv'.gov = recv.gov
          /\ recv'.taken = recv.taken /\ (recv'.net = recv.net \/ recv'.net = push)
      BY <1>1, <1>3, <1>8 DEF XReceivers
    <2>2. TakenAs(recv', push, {}) /\ SeenAs(push, {})
      BY <1>3, <1>8, <2>1, NothingDelivers
    <2>3. counted' \in Nat /\ counted' <= counted + Cardinality({})
      BY <1>3, <1>8
    <2> HIDE DEF rs, req
    <2> QED
      BY <1>1, <1>4, <1>6, <1>8, <2>1, <2>2, <2>3 DEF Delivery
  <1> DEFINE Taken == /\ Takes(push, rs)
                      /\ recordExport(IF rs = req THEN Cardinality(req) ELSE 0)
                      /\ push' = AfterThis(push)
             Partly == /\ \E part \in SUBSET rs : part # rs /\ Takes(push, part) /\ recordExport(Cardinality(part))
                       /\ push' = AfterThis(push)
             Refused == NothingTaken /\ recordExport(0) /\ push' = AfterThis(push)
             Again == /\ \/ NothingTaken
                         \/ Takes(push, rs)
                         \/ recv' = [recv EXCEPT !.net = push] /\ UNCHANGED ghost
                      /\ recordExport(0)
                      /\ push' = [push EXCEPT !.try = @ + 1] \/ push' = AfterThis(push)
  <1>9. Taken \/ Partly \/ Refused \/ Again
    BY DEF Posts
  <1> HIDE DEF rs, Kept
  <1>10. CASE Taken
    <2>1. counted' = counted + (IF rs = req THEN Cardinality(req) ELSE 0)
      BY <1>10 DEF recordExport
    <2>2. counted' \in Nat /\ counted' <= counted + Cardinality(rs)
      BY <1>2, <1>3, <2>1
    <2> QED
      BY <1>5, <1>7, <1>10, <2>2
  <1>11. CASE Partly
    <2>1. PICK part \in SUBSET rs : Takes(push, part) /\ recordExport(Cardinality(part))
      BY <1>11
    <2>2. counted' \in Nat /\ counted' <= counted + Cardinality(part)
      BY <1>2, <1>3, <2>1 DEF recordExport
    <2> QED
      BY <1>5, <1>7, <1>11, <2>1, <2>2
  <1>12. CASE Refused
    BY <1>3, <1>5, <1>8, <1>12 DEF recordExport, NothingTaken
  <1>13. CASE Again
    <2>1. counted' = counted /\ Kept(push')
      BY <1>3, <1>5, <1>13 DEF recordExport
    <2>2. CASE Takes(push, rs)
      <3>1. counted' \in Nat /\ counted' <= counted + Cardinality(rs)
        BY <1>2, <1>3, <2>1
      <3> QED
        BY <1>7, <2>1, <2>2, <3>1
    <2>3. CASE ~Takes(push, rs)
      BY <1>8, <1>13, <2>1, <2>3 DEF NothingTaken
    <2> QED
      BY <2>2, <2>3
  <1> QED
    BY <1>9, <1>10, <1>11, <1>12, <1>13

(* So is the arrival of a request whose sender gave up.                    *)
LEMMA ArrivalDelivers ==
    ASSUME XTypeOK, SentInv, ArrivesLate
    PROVE  Delivery
  <1> DEFINE p == recv.net
             rs == Newer(p, Head(p.reqs))
             t == Taking(p, rs)
  <1>1. p \in XRequests /\ XSent(p) /\ p.reqs # <<>>
    BY DEF ArrivesLate, XTypeOK, XReceivers, SentInv, XSent
  <1>2. rs \in SUBSET Resources /\ \A r \in rs : p.at >= recv.at[r]
    BY <1>1, HeadIs DEF Newer
  <1>3. recv' = [t EXCEPT !.net = NoValue] /\ Shows(p, rs) /\ counted' = counted /\ push' = push
        /\ UNCHANGED <<life, host, latest, emu, mirror, clk, journal, run, events>>
    BY DEF ArrivesLate
  <1>4. recv \in XReceivers /\ ghost \in XGhosts /\ counted \in Nat
    BY DEF XTypeOK
  <1> HIDE DEF rs, p
  <1>5. TakenAs(t, p, rs) /\ Cardinality(rs) \in Nat
    BY <1>1, <1>2, <1>4, TakingIs
  <1> HIDE DEF t
  <1>6. recv' \in XReceivers /\ recv'.at = t.at /\ recv'.j = t.j /\ recv'.gov = t.gov /\ recv'.taken = t.taken
        /\ recv'.net = NoValue
    BY <1>3, <1>5 DEF TakenAs, XReceivers
  <1>7. TakenAs(recv', p, rs)
    BY <1>5, <1>6 DEF TakenAs
  <1>8. SeenAs(p, rs)
    BY <1>3, <1>4 DEF Shows, SeenAs, XGhosts
  <1>9. SameExport(push', push) /\ (push' = NoValue \/ push' \in XRequests) /\ SameExport(recv'.net, recv.net)
    BY <1>3, <1>6 DEF SameExport, XSent, XTypeOK
  <1>10. counted' \in Nat /\ counted' <= counted + Cardinality(rs)
    BY <1>3, <1>4, <1>5
  <1>11. p \in {push, recv.net}
    BY DEF p
  <1> QED
    BY <1>1, <1>2, <1>3, <1>6, <1>7, <1>8, <1>9, <1>10, <1>11 DEF Delivery

(* A delivery keeps the order of samples and requests.                     *)
LEMMA DeliveryKeepsOrder ==
    ASSUME XTypeOK, SentInv, Delivery
    PROVE  SentInv' /\ CountersGrow
  <1>1. PICK p \in {push, recv.net}, rs \in SUBSET Resources :
        /\ XSent(p) /\ \A r \in rs : p.at >= recv.at[r]
        /\ TakenAs(recv', p, rs)
        /\ counted' \in Nat /\ counted' <= counted + Cardinality(rs)
        /\ SameExport(push', push)
        /\ SameExport(recv'.net, push) \/ SameExport(recv'.net, recv.net)
        /\ recv'.net # NoValue => XSent(recv'.net)
        /\ UNCHANGED <<host, clk>>
    BY DEF Delivery
  <1>2. clk \in Nat /\ host.j \in Nat /\ recv.taken \in Nat /\ Cardinality(rs) \in Nat /\ counted \in Nat
        /\ \A r \in Resources : recv.at[r] \in Nat /\ recv.j[r] \in Nat
    BY ResourcesAre, FS_Subset, FS_CardinalityType DEF XTypeOK, XReceivers
  <1>3. \A q \in {push, recv.net} : XSent(q) => q.at \in Nat /\ q.j \in Nat
    BY DEF XTypeOK, XReceivers, XRequests, XSent
  <1>4. \A x \in {push', recv'.net} : XSent(x) => \E q \in {push, recv.net} : XSent(q) /\ x.at = q.at /\ x.j = q.j
    BY <1>1 DEF SameExport
  <1>5. \A q \in {push, recv.net} : XSent(q) => q.at <= clk /\ q.j <= host.j
    BY DEF SentInv
  <1>6. \A q, x \in {push, recv.net} : XSent(x) /\ XSent(q) /\ q.at >= x.at => q.j >= x.j
    BY DEF SentInv, SaysMore
  <1>7. \A r \in Resources : recv.at[r] <= clk /\ recv.j[r] <= host.j
    BY DEF SentInv
  <1>8. \A q \in {push, recv.net}, r \in Resources : XSent(q) /\ q.at >= recv.at[r] => q.j >= recv.j[r]
    BY DEF SentInv, SaysMore
  <1>9. \A r \in Resources : \/ r \in rs /\ recv'.at[r] = p.at /\ recv'.j[r] = p.j
                             \/ recv'.at[r] = recv.at[r] /\ recv'.j[r] = recv.j[r]
    BY <1>1 DEF TakenAs
  <1>10. (counted <= recv.taken)'
    <2>1. recv'.taken = recv.taken + Cardinality(rs) /\ counted <= recv.taken
      BY <1>1 DEF TakenAs, SentInv
    <2> QED
      BY <1>1, <1>2, <2>1
  <1>11. \A x \in {push', recv'.net} : XSent(x) => x.at <= clk' /\ x.j <= host'.j
    BY <1>1, <1>4, <1>5
  <1>12. \A r \in Resources : recv'.at[r] <= clk' /\ recv'.j[r] <= host'.j
    BY <1>1, <1>5, <1>7, <1>9
  <1>13. \A x \in {push', recv'.net}, r \in Resources : SaysMore(x, recv'.at[r], recv'.j[r])
    BY <1>1, <1>4, <1>6, <1>8, <1>9 DEF SaysMore
  <1>14. \A x, y \in {push', recv'.net} : XSent(y) => SaysMore(x, y.at, y.j)
    BY <1>4, <1>6 DEF SaysMore
  <1>15. SentInv'
    BY <1>1, <1>10, <1>11, <1>12, <1>13, <1>14 DEF SentInv, SaysMore, XSent
  <1>16. CountersGrow
    BY <1>1, <1>2, <1>3, <1>8, <1>9 DEF CountersGrow
  <1> QED
    BY <1>15, <1>16

(* A delivery leaves at most one state in force: while the change is not   *)
(* shown, a request from before it names the state that was left, and one  *)
(* from after it names both.                                               *)
LEMMA DeliveryKeepsGovernor ==
    ASSUME XTypeOK, SentInv, GovernorInv, Delivery
    PROVE  GovernorInv'
  <1>1. PICK p \in {push, recv.net}, rs \in SUBSET Resources :
        /\ XSent(p) /\ \A r \in rs : p.at >= recv.at[r]
        /\ TakenAs(recv', p, rs) /\ SeenAs(p, rs)
        /\ SameExport(push', push)
        /\ SameExport(recv'.net, push) \/ SameExport(recv'.net, recv.net)
        /\ UNCHANGED <<host, latest, clk>>
    BY DEF Delivery
  <1> DEFINE g == recv.at[Governed]
             g1 == recv'.at[Governed]
  <1>2. \A x \in {push', recv'.net} : XSent(x) =>
            \E q \in {push, recv.net} : XSent(q) /\ x.at = q.at /\ x.now = q.now /\ x.left = q.left
    BY <1>1 DEF SameExport
  <1>3. clk # 0
    BY <1>1 DEF GovernorInv
  <1>4. p.at \in Nat /\ g \in Nat /\ \A q \in {push, recv.net} : XSent(q) => q.at \in Nat
    BY <1>1, ResourcesAre DEF XTypeOK, XReceivers, XRequests, XSent
  <1>5. latest # NoValue => latest.now = host.gov /\ latest.left # latest.now
    BY DEF GovernorInv
  <1>6. \/ Governed \notin rs /\ g1 = g /\ recv'.gov = recv.gov /\ (ghost'.shown <=> ghost.shown)
        \/ Governed \in rs /\ g1 = p.at /\ p.at >= g /\ recv'.gov = (recv.gov \cup {p.now}) \ {p.left}
           /\ (ghost'.shown <=> ghost.shown \/ p.now = host.gov)
    BY <1>1, ResourcesAre DEF TakenAs, SeenAs
  <1>7. ghost'.calm = ghost.calm
    BY <1>1 DEF SeenAs
  <1>8. g1 >= g /\ g1 \in Nat
    BY <1>4, <1>6
  <1> HIDE DEF g1
  <1>9. ASSUME ghost.calm, ghost.shown
        PROVE  ghost'.shown /\ recv'.gov \subseteq {host.gov} /\ \A x \in {push', recv'.net} : XSent(x) /\ x.at >= g1 => x.now = host.gov
    <2>1. recv.gov \subseteq {host.gov} /\ \A q \in {push, recv.net} : XSent(q) /\ q.at >= g => q.now = host.gov
      BY <1>9 DEF GovernorInv, XDue
    <2> HIDE DEF g
    <2>2. recv'.gov \subseteq {host.gov} /\ ghost'.shown
      BY <1>1, <1>6, <1>9, <2>1
    <2>3. \A x \in {push', recv'.net} : XSent(x) /\ x.at >= g1 => x.now = host.gov
      BY <1>2, <1>4, <1>8, <2>1
    <2> QED
      BY <2>2, <2>3
  <1>10. ASSUME ghost.calm, ~ghost.shown
         PROVE  /\ latest # NoValue
                /\ ghost'.shown => recv'.gov \subseteq {host.gov} /\ \A x \in {push', recv'.net} : XSent(x) /\ x.at >= g1 => x.now = host.gov
                /\ ~ghost'.shown =>
                    /\ recv'.gov \subseteq {latest.left}
                    /\ \A x \in {push', recv'.net} : XSent(x) /\ x.at >= g1 => NamesBoth(x) \/ x.now = latest.left
                    /\ \A x, y \in {push', recv'.net} : XSent(x) /\ x.at >= g1 /\ NamesBoth(x) /\ XSent(y) /\ y.at >= x.at => NamesBoth(y)
    <2>1. /\ latest # NoValue /\ recv.gov \subseteq {latest.left}
          /\ \A q \in {push, recv.net} : XSent(q) /\ q.at >= g => NamesBoth(q) \/ q.now = latest.left
          /\ \A q, y \in {push, recv.net} : XSent(q) /\ q.at >= g /\ NamesBoth(q) /\ XSent(y) /\ y.at >= q.at => NamesBoth(y)
      BY <1>3, <1>10 DEF GovernorInv, XDue
    <2>2. latest.left # host.gov
      BY <1>5, <2>1
    <2> HIDE DEF g
    <2>3. CASE ghost'.shown
      <3>1. Governed \in rs /\ g1 = p.at /\ p.at >= g /\ p.now = host.gov /\ recv'.gov = (recv.gov \cup {p.now}) \ {p.left}
        BY <1>6, <1>10, <2>3
      <3>2. NamesBoth(p)
        BY <1>1, <2>1, <2>2, <3>1
      <3>3. recv'.gov \subseteq {host.gov}
        BY <2>1, <3>1, <3>2 DEF NamesBoth
      <3>4. \A x \in {push', recv'.net} : XSent(x) /\ x.at >= g1 => x.now = host.gov
        BY <1>1, <1>2, <2>1, <3>1, <3>2 DEF NamesBoth
      <3> QED
        BY <2>1, <2>3, <3>3, <3>4
    <2>4. CASE ~ghost'.shown
      <3>1. recv'.gov \subseteq {latest.left}
        <4>1. CASE Governed \notin rs
          BY <1>6, <2>1, <4>1
        <4>2. CASE Governed \in rs
          <5>1. p.now # host.gov /\ p.at >= g /\ recv'.gov = (recv.gov \cup {p.now}) \ {p.left}
            BY <1>6, <2>4, <4>2
          <5>2. p.now = latest.left
            BY <1>1, <2>1, <5>1 DEF NamesBoth
          <5> QED
            BY <2>1, <5>1, <5>2
        <4> QED
          BY <4>1, <4>2
      <3>2. \A x \in {push', recv'.net} : XSent(x) => \E q \in {push, recv.net} : XSent(q) /\ x.at = q.at /\ x.now = q.now
                /\ (NamesBoth(x) <=> NamesBoth(q))
        BY <1>2 DEF NamesBoth
      <3>3. \A x \in {push', recv'.net} : XSent(x) /\ x.at >= g1 => NamesBoth(x) \/ x.now = latest.left
        BY <1>4, <1>8, <2>1, <3>2
      <3>4. \A x, y \in {push', recv'.net} : XSent(x) /\ x.at >= g1 /\ NamesBoth(x) /\ XSent(y) /\ y.at >= x.at => NamesBoth(y)
        BY <1>4, <1>8, <2>1, <3>2
      <3> QED
        BY <2>1, <2>4, <3>1, <3>3, <3>4
    <2> QED
      BY <2>3, <2>4
  <1> QED
    BY <1>1, <1>3, <1>5, <1>7, <1>9, <1>10 DEF GovernorInv, XDue, NamesBoth, XSent, g1

-----------------------------------------------------------------------------
(* The other steps that the receiver's part of the invariant sees.         *)

(* Nothing is exported and nothing arrives.                                *)
Rests ==
    /\ UNCHANGED <<host, latest, clk, counted, recv>>
    /\ SameExport(push', push) /\ (push' = NoValue \/ push' \in XRequests)
    /\ ghost' \in XGhosts /\ ghost'.calm = ghost.calm /\ ghost'.shown = ghost.shown
(* The latest snapshot is exported.                                        *)
Exports ==
    /\ latest # NoValue /\ push' \in {Export(TRUE), Export(FALSE)} /\ clk' = clk + 1
    /\ \/ recv' = recv
       \/ XSent(push) /\ recv' = [recv EXCEPT !.net = push]
    /\ UNCHANGED <<life, host, latest, emu, mirror, journal, run, counted, ghost, events>>

(* A step of any other kind keeps the order and the states in force.       *)
LEMMA RestKeeps ==
    ASSUME XTypeOK, SentInv, GovernorInv, Rests
    PROVE  SentInv' /\ GovernorInv' /\ CountersGrow
  <1>1. /\ UNCHANGED <<host, latest, clk, counted, recv>>
        /\ SameExport(push', push) /\ ghost'.calm = ghost.calm /\ ghost'.shown = ghost.shown
    BY DEF Rests
  <1>2. XSent(push') => XSent(push) /\ push'.at = push.at /\ push'.j = push.j /\ push'.now = push.now /\ push'.left = push.left
    BY <1>1 DEF SameExport
  <1>3. SentInv'
    BY <1>1, <1>2 DEF SentInv, SaysMore, XSent
  <1>4. GovernorInv'
    BY <1>1, <1>2 DEF GovernorInv, XDue, NamesBoth, XSent
  <1>5. CountersGrow
    BY <1>1 DEF CountersGrow, XTypeOK, XReceivers
  <1> QED
    BY <1>3, <1>4, <1>5

(* An export is later than every sample and says no less than any.         *)
LEMMA ExportKeeps ==
    ASSUME XTypeOK, MirrorInv, SentInv, GovernorInv, Exports
    PROVE  /\ SentInv' /\ GovernorInv' /\ CountersGrow
           /\ push' \in XRequests /\ recv' \in XReceivers /\ clk' \in Nat
  <1>1. /\ latest # NoValue /\ clk' = clk + 1
        /\ recv' = recv \/ (XSent(push) /\ recv' = [recv EXCEPT !.net = push])
        /\ UNCHANGED <<host, latest, counted, ghost>>
    BY DEF Exports
  <1>2. clk \in Nat /\ host.j \in Nat /\ latest \in [j : Nat, now : Presets, left : Presets \cup {NoValue}]
        /\ latest.j = host.j /\ latest.now = host.gov /\ latest.left # host.gov
    BY <1>1 DEF XTypeOK, MirrorInv, GovernorInv
  <1>3. /\ push' \in XRequests /\ push'.at = clk + 1 /\ push'.j = host.j
        /\ push'.now = host.gov /\ push'.left = latest.left
    <2>1. PICK final \in BOOLEAN : push' = Export(final)
      BY DEF Exports
    <2> QED
      BY <1>2, <2>1, RequestsAre DEF Export, XRequests
  <1>4. XSent(push) => push \in XRequests
    BY DEF XTypeOK, XSent
  <1>5. /\ recv' \in XReceivers /\ recv'.at = recv.at /\ recv'.j = recv.j /\ recv'.gov = recv.gov /\ recv'.taken = recv.taken
        /\ recv'.net = recv.net \/ (recv'.net = push /\ XSent(push))
    BY <1>1, <1>4 DEF XTypeOK, XReceivers
  <1>6. \A q \in {push, recv.net} : XSent(q) => q.at \in Nat /\ q.j \in Nat
    BY DEF XTypeOK, XReceivers, XRequests, XSent
  <1>7. \A r \in Resources : recv.at[r] \in Nat /\ recv.j[r] \in Nat
    BY DEF XTypeOK, XReceivers
  <1>8. recv'.net \in {push, recv.net}
    BY <1>5
  <1> HIDE DEF Exports
  <1>9. SentInv'
    <2>1. \A q \in {push, recv.net} : XSent(q) => q.at <= clk /\ q.j <= host.j
      BY DEF SentInv
    <2>2. \A q, x \in {push, recv.net} : XSent(x) /\ XSent(q) /\ q.at >= x.at => q.j >= x.j
      BY DEF SentInv, SaysMore
    <2>3. \A r \in Resources : recv.at[r] <= clk /\ recv.j[r] <= host.j
      BY DEF SentInv
    <2>4. \A q \in {push, recv.net}, r \in Resources : XSent(q) /\ q.at >= recv.at[r] => q.j >= recv.j[r]
      BY DEF SentInv, SaysMore
    <2>5. (counted <= recv.taken)' /\ (recv'.net # NoValue => XSent(recv'.net))
      BY <1>1, <1>5 DEF SentInv
    <2>6. \A x \in {push', recv'.net} : XSent(x) => x.at <= clk' /\ x.j <= host'.j
      BY <1>1, <1>2, <1>3, <1>6, <1>8, <2>1
    <2>7. \A r \in Resources : recv'.at[r] <= clk' /\ recv'.j[r] <= host'.j
      BY <1>1, <1>2, <1>5, <1>7, <2>3
    <2>8. \A x \in {push', recv'.net}, r \in Resources : SaysMore(x, recv'.at[r], recv'.j[r])
      BY <1>3, <1>5, <1>8, <2>3, <2>4 DEF SaysMore
    <2>9. \A x, y \in {push', recv'.net} : XSent(y) => SaysMore(x, y.at, y.j)
      BY <1>2, <1>3, <1>6, <1>8, <2>1, <2>2 DEF SaysMore
    <2> QED
      BY <1>1, <2>5, <2>6, <2>7, <2>8, <2>9 DEF SentInv, SaysMore, XSent
  <1>10. GovernorInv'
    <2> DEFINE g == recv.at[Governed]
    <2>1. g \in Nat /\ g <= clk
      BY <1>7, ResourcesAre DEF SentInv
    <2>2. \A q \in {push, recv.net} : XSent(q) => q.at <= clk
      BY DEF SentInv
    <2>3. NamesBoth(push') /\ clk' # 0
      BY <1>1, <1>2, <1>3 DEF NamesBoth
    <2>4. ASSUME ghost.calm, ghost.shown
          PROVE  recv'.gov \subseteq {host.gov} /\ \A x \in {push', recv'.net} : XSent(x) /\ x.at >= g => x.now = host.gov
      <3>1. recv.gov \subseteq {host.gov} /\ \A q \in {push, recv.net} : XSent(q) /\ q.at >= g => q.now = host.gov
        BY <2>4 DEF GovernorInv, XDue
      <3> HIDE DEF g
      <3> QED
        BY <1>3, <1>5, <1>8, <3>1
    <2>5. ASSUME ghost.calm, ~ghost.shown
          PROVE  /\ recv'.gov \subseteq {latest.left}
                 /\ \A x \in {push', recv'.net} : XSent(x) /\ x.at >= g => NamesBoth(x) \/ x.now = latest.left
                 /\ \A x, y \in {push', recv'.net} : XSent(x) /\ x.at >= g /\ NamesBoth(x) /\ XSent(y) /\ y.at >= x.at => NamesBoth(y)
      <3>1. CASE clk = 0
        <4>1. recv.gov = {} /\ ~XSent(push) /\ ~XSent(recv.net)
          BY <3>1 DEF GovernorInv
        <4>2. ~XSent(recv'.net)
          BY <1>8, <4>1
        <4> HIDE DEF g
        <4> QED
          BY <1>5, <2>3, <4>1, <4>2
      <3>2. CASE clk # 0
        <4>1. /\ recv.gov \subseteq {latest.left}
              /\ \A q \in {push, recv.net} : XSent(q) /\ q.at >= g => NamesBoth(q) \/ q.now = latest.left
              /\ \A q, y \in {push, recv.net} : XSent(q) /\ q.at >= g /\ NamesBoth(q) /\ XSent(y) /\ y.at >= q.at => NamesBoth(y)
          BY <2>5, <3>2 DEF GovernorInv, XDue
        <4> HIDE DEF g
        <4>2. \A x \in {push', recv'.net} : XSent(x) /\ x.at >= g => NamesBoth(x) \/ x.now = latest.left
          BY <1>8, <2>3, <4>1
        <4>3. \A x, y \in {push', recv'.net} : XSent(x) /\ x.at >= g /\ NamesBoth(x) /\ XSent(y) /\ y.at >= x.at => NamesBoth(y)
          BY <1>2, <1>3, <1>6, <1>8, <2>2, <2>3, <4>1
        <4> QED
          BY <1>5, <4>1, <4>2, <4>3
      <3> QED
        BY <3>1, <3>2
    <2>6. latest # NoValue => latest.now = host.gov /\ latest.left # latest.now
      BY <1>2
    <2>7. recv'.at[Governed] = g
      BY <1>5
    <2> HIDE DEF g
    <2> QED
      BY <1>1, <2>3, <2>4, <2>5, <2>6, <2>7 DEF GovernorInv, XDue, NamesBoth, XSent
  <1>11. CountersGrow
    BY <1>5, <1>7 DEF CountersGrow
  <1> QED
    BY <1>1, <1>2, <1>3, <1>5, <1>9, <1>10, <1>11

(* A tick only adds energy; a change of the governor is calm when nothing  *)
(* was exported yet or the last state is shown, so that the snapshot names *)
(* the state that every request still due names.                           *)
LEMMA ExportTickKeeps ==
    ASSUME XTypeOK, SentInv, GovernorInv, Tick
    PROVE  /\ SentInv' /\ GovernorInv' /\ CountersGrow
           /\ host' \in [j : Nat, gov : Presets, ticks : Nat] /\ host'.j = host.j + 1
           /\ latest' \in [j : Nat, now : Presets, left : Presets \cup {NoValue}] /\ latest'.j = host'.j
           /\ ghost' \in XGhosts /\ ghost'.acked = ghost.acked /\ ghost'.cut = ghost.cut
  <1>1. PICK g \in Presets :
        /\ host' = [j |-> host.j + 1, gov |-> g, ticks |-> host.ticks + 1]
        /\ latest' = [j |-> host.j + 1, now |-> g, left |-> readingPreviousGovernors(latest, g)]
        /\ ghost' = IF g = host.gov THEN ghost
                    ELSE [ghost EXCEPT !.calm = @ /\ (clk = 0 \/ (ghost.shown /\ latest # NoValue)), !.shown = FALSE]
    BY DEF Tick
  <1>2. UNCHANGED <<push, clk, counted, recv>>
    BY DEF Tick
  <1>3. /\ host.j \in Nat /\ host.ticks \in Nat /\ host.gov \in Presets /\ clk \in Nat /\ ghost \in XGhosts
        /\ latest = NoValue \/ (latest.now \in Presets /\ latest.left \in Presets \cup {NoValue})
        /\ recv \in XReceivers
    BY DEF XTypeOK
  <1> DEFINE left == readingPreviousGovernors(latest, g)
  <1>4. /\ left \in Presets \cup {NoValue} /\ left # g
        /\ latest # NoValue /\ latest.now # g => left = latest.now
        /\ latest # NoValue /\ latest.now = g /\ latest.left # g => left = latest.left
    BY <1>3, ExportAssumption DEF readingPreviousGovernors
  <1> HIDE DEF left
  <1>5. host'.j = host.j + 1 /\ host'.gov = g /\ host' \in [j : Nat, gov : Presets, ticks : Nat]
    BY <1>1, <1>3
  <1>6. latest'.j = host.j + 1 /\ latest'.now = g /\ latest'.left = left
        /\ latest' \in [j : Nat, now : Presets, left : Presets \cup {NoValue}]
    BY <1>1, <1>3, <1>4 DEF left
  <1>7. latest # NoValue => latest.now = host.gov /\ latest.left # latest.now
    BY DEF GovernorInv
  <1>8. latest' # NoValue
    BY <1>6, ExportAssumption
  <1> DEFINE g0 == recv.at[Governed]
  <1>9. SentInv'
    <2>1. host'.j >= host.j /\ host'.j \in Nat
      BY <1>3, <1>5
    <2>2. \A q \in {push, recv.net} : XSent(q) => q.j \in Nat
      BY DEF XTypeOK, XReceivers, XRequests, XSent
    <2>3. \A r \in Resources : recv.j[r] \in Nat
      BY <1>3 DEF XReceivers
    <2> QED
      BY <1>2, <1>3, <2>1, <2>2, <2>3 DEF SentInv, SaysMore, XSent
  <1>10. CASE g = host.gov
    <2>1. ghost' = ghost
      BY <1>1, <1>10
    <2>2. host'.gov = host.gov /\ (latest # NoValue => latest'.left = latest.left)
      BY <1>4, <1>5, <1>6, <1>7, <1>10
    <2>3. GovernorInv'
      BY <1>2, <1>5, <1>6, <1>8, <2>1, <2>2, <1>4 DEF GovernorInv, XDue, NamesBoth, XSent
    <2> QED
      BY <1>2, <1>3, <1>5, <1>6, <1>9, <2>1, <2>3 DEF CountersGrow, XReceivers
  <1>11. CASE g # host.gov
    <2>1. ghost' = [ghost EXCEPT !.calm = @ /\ (clk = 0 \/ (ghost.shown /\ latest # NoValue)), !.shown = FALSE]
      BY <1>1, <1>11
    <2>2. /\ ghost' \in XGhosts /\ ghost'.acked = ghost.acked /\ ghost'.cut = ghost.cut /\ ~ghost'.shown
          /\ ghost'.calm => ghost.calm /\ (clk = 0 \/ (ghost.shown /\ latest # NoValue))
      BY <1>3, <2>1 DEF XGhosts
    <2>3. ASSUME ghost'.calm, clk # 0
          PROVE  /\ recv.gov \subseteq {left} /\ \A p \in {push, recv.net} : XSent(p) /\ p.at >= g0 => p.now = left
      <3>1. ghost.calm /\ ghost.shown /\ latest # NoValue
        BY <2>2, <2>3
      <3>2. left = host.gov
        BY <1>4, <1>7, <1>11, <3>1
      <3> QED
        BY <3>1, <3>2 DEF GovernorInv, XDue
    <2>4. GovernorInv'
      BY <1>2, <1>4, <1>5, <1>6, <1>8, <2>2, <2>3 DEF GovernorInv, XDue, NamesBoth, XSent
    <2> QED
      BY <1>2, <1>3, <1>5, <1>6, <1>9, <2>2, <2>4 DEF CountersGrow, XReceivers
  <1> QED
    BY <1>10, <1>11

(* A process that ends takes its snapshot, its requests and its counter    *)
(* with it; what is on its way may still arrive.                           *)
LEMMA GoneKeeps ==
    ASSUME XTypeOK, SentInv, GovernorInv, Gone, UNCHANGED <<host, clk>>
    PROVE  /\ SentInv' /\ GovernorInv' /\ CountersGrow
           /\ recv' \in XReceivers /\ counted' \in Nat /\ emu' = EmuIdle
           /\ latest' = NoValue /\ push' = NoValue /\ mirror' = NoMirror /\ life' = "down"
           /\ ghost' \in XGhosts /\ ghost'.acked = ghost.acked /\ ghost'.cut = ghost.cut
  <1>1. /\ latest' = NoValue /\ push' = NoValue /\ counted' = 0 /\ emu' = EmuIdle /\ mirror' = NoMirror /\ life' = "down"
        /\ recv' = [recv EXCEPT !.taken = 0]
        /\ ghost' = [ghost EXCEPT !.calm = @ /\ (clk = 0 \/ ghost.shown), !.lives = @ + 1]
    BY DEF Gone
  <1>2. recv \in XReceivers /\ ghost \in XGhosts
    BY DEF XTypeOK
  <1>3. /\ recv' \in XReceivers /\ recv'.at = recv.at /\ recv'.j = recv.j /\ recv'.gov = recv.gov /\ recv'.net = recv.net
        /\ recv'.taken = 0
    BY <1>1, <1>2 DEF XReceivers
  <1>4. /\ ghost' \in XGhosts /\ ghost'.acked = ghost.acked /\ ghost'.cut = ghost.cut /\ ghost'.shown = ghost.shown
        /\ ghost'.calm => ghost.calm /\ (clk = 0 \/ ghost.shown)
    <2> DEFINE calm1 == ghost.calm /\ (clk = 0 \/ ghost.shown)
               lives1 == ghost.lives + 1
    <2>1. ghost' = [ghost EXCEPT !.calm = calm1, !.lives = lives1] /\ calm1 \in BOOLEAN
      BY <1>1
    <2>2. lives1 \in Nat
      BY <1>2 DEF XGhosts
    <2>3. calm1 => ghost.calm /\ (clk = 0 \/ ghost.shown)
      OBVIOUS
    <2> HIDE DEF calm1, lives1
    <2>4. /\ ghost' \in XGhosts /\ ghost'.acked = ghost.acked /\ ghost'.cut = ghost.cut /\ ghost'.shown = ghost.shown
          /\ ghost'.calm = calm1
      BY <1>2, <2>1, <2>2 DEF XGhosts
    <2> QED
      BY <2>3, <2>4
  <1>5. ~XSent(push')
    BY <1>1 DEF XSent
  <1>6. SentInv'
    BY <1>1, <1>3, <1>5 DEF SentInv, SaysMore, XSent
  <1>7. GovernorInv'
    BY <1>1, <1>3, <1>4, <1>5 DEF GovernorInv, XDue, NamesBoth, XSent
  <1>8. CountersGrow
    BY <1>2, <1>3 DEF CountersGrow, XReceivers
  <1> QED
    BY <1>1, <1>3, <1>4, <1>6, <1>7, <1>8

-----------------------------------------------------------------------------
(* The run's lines and the mirror.                                         *)

(* A forced line holds the values of its run, or could not be written.     *)
LEMMA RunKeeps ==
    ASSUME RunInv, XNext
    PROVE  RunInv'
  <1> DEFINE T == [st : {"none", "active", "ended", "cut"}, cum : Nat, wrote : BOOLEAN, since : Nat, line : Nat, bad : BOOLEAN]
  <1>1. run \in T /\ (run.st = "ended" /\ ~run.bad => run.line = run.cum)
    BY DEF RunInv, LastLineIsFinal
  <1>2. ASSUME NEW r \in T, NEW force, RunWrites(r, force)
        PROVE  /\ run' \in T /\ run'.st = r.st
               /\ force /\ ~run'.bad => run'.line = run'.cum
    <2>1. CASE run' = [r EXCEPT !.wrote = TRUE, !.since = 0, !.line = r.cum, !.bad = FALSE]
      BY <2>1
    <2>2. CASE run' = [r EXCEPT !.wrote = TRUE, !.since = 0, !.bad = TRUE]
      <3>1. run' \in T /\ run'.st = r.st
        BY <2>2
      <3>2. run'.bad
        BY <2>2
      <3> QED
        BY <3>1, <3>2
    <2>3. CASE run' = r /\ ~force
      BY <2>3
    <2> QED
      BY <1>2, <2>1, <2>2, <2>3 DEF RunWrites, maybeWriteMetrics
  <1>3. CASE RunTicks
    <2>1. CASE run.st = "active"
      <3> DEFINE r == [run EXCEPT !.cum = @ + 1, !.since = @ + 1]
      <3>1. r \in T /\ r.st = "active"
        <4>1. run.cum + 1 \in Nat /\ run.since + 1 \in Nat
          BY <1>1
        <4>2. \A x, y \in Nat : [run EXCEPT !.cum = x, !.since = y] \in T /\ [run EXCEPT !.cum = x, !.since = y].st = run.st
          BY <1>1
        <4> QED
          BY <2>1, <4>1, <4>2
      <3>2. RunWrites(r, FALSE)
        BY <1>3, <2>1 DEF RunTicks
      <3> HIDE DEF r
      <3>3. run' \in T /\ run'.st = "active"
        BY <1>2, <3>1, <3>2
      <3> QED
        BY <3>3 DEF RunInv, LastLineIsFinal
    <2>2. CASE run.st # "active"
      BY <1>1, <1>3, <2>2 DEF RunTicks, RunInv, LastLineIsFinal
    <2> QED
      BY <2>1, <2>2
  <1>4. CASE RunStarts
    <2>1. run' \in T /\ run'.st = "active"
      BY <1>4 DEF RunStarts, NoRun
    <2> QED
      BY <2>1 DEF RunInv, LastLineIsFinal
  <1>5. CASE RunFinishes
    <2> DEFINE r == [run EXCEPT !.st = "ended"]
    <2>1. r \in T
      BY <1>1
    <2>2. RunWrites(r, TRUE)
      BY <1>5 DEF RunFinishes
    <2> HIDE DEF r
    <2>3. run' \in T /\ (~run'.bad => run'.line = run'.cum)
      BY <1>2, <2>1, <2>2
    <2> QED
      BY <2>3 DEF RunInv, LastLineIsFinal
  <1>6. CASE Gone
    <2>1. CASE run' = [run EXCEPT !.st = "cut"]
      <3> DEFINE r == [run EXCEPT !.st = "cut"]
      <3>1. r \in T /\ r.st = "cut"
        BY <1>1
      <3>2. run' = r
        BY <2>1
      <3> HIDE DEF r
      <3> QED
        BY <3>1, <3>2 DEF RunInv, LastLineIsFinal
    <2>2. CASE run' = run
      BY <1>1, <2>2 DEF RunInv, LastLineIsFinal
    <2> QED
      BY <1>6, <2>1, <2>2 DEF Gone
  <1>7. CASE run' = run
    BY <1>1, <1>7 DEF RunInv, LastLineIsFinal
  <1>8. RunTicks \/ RunStarts \/ RunFinishes \/ Gone \/ run' = run
    BY DEF XNext, TickStarts, Tick, publishEmulateSnapshot, NodeChanges, checkEmulatedNodes, PushOnce, PushesLast,
           Posts, ArrivesLate, SinkRuns, SinkPosts, Stops, stopEmulate, XCrash, startEmulate
  <1> QED
    BY <1>3, <1>4, <1>5, <1>6, <1>7, <1>8

(* The mirror has gained what the ledger has, since the first snapshot.    *)
LEMMA SnapshotMirrored ==
    ASSUME XTypeOK, MirrorInv, publishEmulateSnapshot
    PROVE  MirrorInv'
  <1>1. /\ mirror' = [j |-> mirror.j + (IF mirror.last # NoValue /\ latest.j > mirror.last THEN latest.j - mirror.last ELSE 0),
                      last |-> latest.j, first |-> IF mirror.first = NoValue THEN latest.j ELSE mirror.first]
        /\ emu.pc = "publish" /\ emu' = [pc |-> "run", recs |-> <<>>] /\ UNCHANGED <<host, latest>>
    BY DEF publishEmulateSnapshot, applyEmulateSnapshot
  <1>2. /\ latest # NoValue /\ latest.j \in Nat /\ latest.j = host.j /\ latest.j # NoValue
        /\ mirror \in [j : Int, last : Nat \cup {NoValue}, first : Nat \cup {NoValue}]
    BY <1>1, ExportAssumption DEF MirrorInv, XTypeOK
  <1>3. mirror' \in [j : Int, last : Nat \cup {NoValue}, first : Nat \cup {NoValue}]
    BY <1>1, <1>2
  <1>4. emu'.pc # "publish"
    BY <1>1
  <1>5. CASE mirror.first = NoValue
    <2>1. mirror.last = NoValue /\ mirror.j = 0
      BY <1>5 DEF MirrorInv
    <2>2. mirror'.j = 0 /\ mirror'.last = latest.j /\ mirror'.first = latest.j
      BY <1>1, <1>5, <2>1
    <2>3. mirror'.j = mirror'.last - mirror'.first
      BY <1>2, <2>2
    <2> QED
      BY <1>1, <1>2, <1>3, <1>4, <2>2, <2>3 DEF MirrorInv, MirrorAgrees
  <1>6. CASE mirror.first # NoValue
    <2>1. mirror.last # NoValue /\ mirror.last \in Nat /\ mirror.first \in Nat /\ mirror.last <= latest.j
          /\ mirror.j = mirror.last - mirror.first
      BY <1>2, <1>6 DEF MirrorInv, MirrorAgrees
    <2>2. mirror'.last = latest.j /\ mirror'.first = mirror.first
          /\ mirror'.j = mirror.j + (IF latest.j > mirror.last THEN latest.j - mirror.last ELSE 0)
      BY <1>1, <1>6, <2>1
    <2>3. mirror'.j = latest.j - mirror.first
      BY <1>2, <2>1, <2>2
    <2> QED
      BY <1>1, <1>2, <1>3, <1>4, <1>6, <2>2, <2>3 DEF MirrorInv, MirrorAgrees
  <1> QED
    BY <1>5, <1>6

(* Every other step keeps the mirror at or below the snapshot.             *)
LEMMA MirrorKeeps ==
    ASSUME XTypeOK, SentInv, GovernorInv, MirrorInv, XNext
    PROVE  MirrorInv' /\ emu' \in [pc : {"idle", "tick", "publish", "run"}, recs : {<<>>, <<"hw">>}]
  <1>1. emu \in [pc : {"idle", "tick", "publish", "run"}, recs : {<<>>, <<"hw">>}] /\ host.j \in Nat
        /\ (latest = NoValue \/ latest.j \in Nat)
    BY DEF XTypeOK
  <1>2. EmuIdle \in [pc : {"idle", "tick", "publish", "run"}, recs : {<<>>, <<"hw">>}] /\ EmuIdle.pc # "publish"
    BY DEF EmuIdle
  <1>3. CASE publishEmulateSnapshot
    <2>1. emu' \in [pc : {"idle", "tick", "publish", "run"}, recs : {<<>>, <<"hw">>}]
      BY <1>3 DEF publishEmulateSnapshot
    <2> QED
      BY <1>3, <2>1, SnapshotMirrored
  <1>4. CASE Tick
    <2>1. host'.j = host.j + 1 /\ latest' \in [j : Nat, now : Presets, left : Presets \cup {NoValue}] /\ latest'.j = host'.j
      BY <1>4, ExportTickKeeps
    <2>2. latest' # NoValue
      BY <2>1, ExportAssumption
    <2>3. mirror' = mirror
      BY <1>4 DEF Tick
    <2>4. emu' \in [pc : {"idle", "tick", "publish", "run"}, recs : {<<>>, <<"hw">>}]
      <3>1. PICK g \in Presets : emu' = IF focus = "metrics" THEN EmuIdle
                                        ELSE [pc |-> "publish", recs |-> HardwareEvents(latest = NoValue, g # host.gov)]
        BY <1>4 DEF Tick
      <3>2. HardwareEvents(latest = NoValue, g # host.gov) \in {<<>>, <<"hw">>}
        BY DEF HardwareEvents
      <3> HIDE DEF HardwareEvents
      <3> QED
        BY <1>2, <3>1, <3>2
    <2>5. mirror.last # NoValue => mirror.last <= latest'.j
      BY <1>1, <2>1 DEF MirrorInv
    <2> QED
      BY <2>1, <2>2, <2>3, <2>4, <2>5 DEF MirrorInv, MirrorAgrees
  <1>5. CASE Gone
    <2>1. latest' = NoValue /\ mirror' = NoMirror /\ emu' = EmuIdle
      BY <1>5 DEF Gone
    <2> QED
      BY <1>2, <2>1 DEF MirrorInv, MirrorAgrees, NoMirror
  <1>6. CASE TickStarts \/ RunTicks
    <2>1. emu' = [emu EXCEPT !.pc = "tick"] \/ emu' = EmuIdle
      BY <1>6 DEF TickStarts, RunTicks
    <2>2. emu' \in [pc : {"idle", "tick", "publish", "run"}, recs : {<<>>, <<"hw">>}] /\ emu'.pc # "publish"
      BY <1>1, <1>2, <2>1
    <2>3. UNCHANGED <<host, latest, mirror>>
      BY <1>6 DEF TickStarts, RunTicks
    <2> QED
      BY <2>2, <2>3 DEF MirrorInv, MirrorAgrees
  <1>7. CASE UNCHANGED <<host, latest, mirror, emu>>
    BY <1>1, <1>7 DEF MirrorInv, MirrorAgrees
  <1>8. \/ publishEmulateSnapshot \/ Tick \/ Gone \/ TickStarts \/ RunTicks
        \/ UNCHANGED <<host, latest, mirror, emu>>
    BY DEF XNext, RunStarts, RunFinishes, NodeChanges, checkEmulatedNodes, PushOnce, PushesLast,
           Posts, ArrivesLate, SinkRuns, SinkPosts, Stops, stopEmulate, XCrash, startEmulate
  <1> QED
    BY <1>3, <1>4, <1>5, <1>6, <1>7, <1>8

-----------------------------------------------------------------------------
(* Every step is of one of these kinds.                                    *)
LEMMA StepKinds ==
    ASSUME XTypeOK, JournalInv, SentInv, XNext
    PROVE  \/ Rests /\ (\/ Emit(events + 1) /\ life # "down" /\ UNCHANGED life
                        \/ UNCHANGED <<ghost, events>>)
           \/ Exports \/ Delivery \/ Tick
           \/ Gone /\ UNCHANGED <<host, clk, events>>
  <1>1. SameExport(push, push) /\ (push = NoValue \/ push \in XRequests) /\ clk \in Nat /\ ghost \in XGhosts
    BY DEF SameExport, XTypeOK
  <1>2. CASE UNCHANGED <<host, latest, push, clk, counted, recv, ghost, events>>
    BY <1>1, <1>2 DEF Rests
  <1>3. CASE publishEmulateSnapshot \/ checkEmulatedNodes
    <2>1. /\ UNCHANGED <<life, host, latest, push, clk, counted, recv>> /\ life # "down"
          /\ Emit(events + 1) \/ UNCHANGED <<ghost, events>>
      BY <1>3 DEF publishEmulateSnapshot, checkEmulatedNodes
    <2>2. CASE Emit(events + 1)
      <3>1. ghost' \in XGhosts /\ ghost'.calm = ghost.calm /\ ghost'.shown = ghost.shown
        BY <2>1, <2>2, EmitKeeps
      <3> QED
        BY <1>1, <2>1, <2>2, <3>1 DEF Rests
    <2>3. CASE UNCHANGED <<ghost, events>>
      BY <1>1, <2>1, <2>3 DEF Rests
    <2> QED
      BY <2>1, <2>2, <2>3
  <1>4. CASE PushOnce
    <2>1. push' = Export(FALSE) /\ latest # NoValue /\ clk' = clk + 1
          /\ UNCHANGED <<life, host, latest, emu, mirror, journal, run, counted, recv, ghost, events>>
      BY <1>4 DEF PushOnce
    <2> QED
      BY <2>1 DEF Exports
  <1>5. CASE PushesLast
    <2>1. UNCHANGED <<life, host, latest, emu, mirror, journal, run, counted, ghost, events>>
      BY <1>5 DEF PushesLast
    <2>2. CASE latest = NoValue \/ focus # "metrics"
      <3>1. push' = Finished /\ UNCHANGED <<clk, recv>>
        BY <1>5, <2>2 DEF PushesLast
      <3>2. Finished \in XRequests
        <4>1. <<>> \in Seq(SUBSET Resources)
          OBVIOUS
        <4> QED
          BY <1>1, <4>1 DEF Finished, XRequests
      <3>3. SameExport(Finished, push)
        BY DEF SameExport, XSent, Finished
      <3> QED
        BY <1>1, <2>1, <3>1, <3>2, <3>3 DEF Rests
    <2>3. CASE ~(latest = NoValue \/ focus # "metrics")
      <3>1. /\ push' = Export(TRUE) /\ clk' = clk + 1 /\ latest # NoValue
            /\ recv' \in {recv} \cup
                 (IF push # NoValue /\ push.reqs # <<>> /\ recv.net = NoValue THEN {[recv EXCEPT !.net = push]} ELSE {})
        BY <1>5, <2>3 DEF PushesLast
      <3>2. recv' = recv \/ (XSent(push) /\ recv' = [recv EXCEPT !.net = push])
        BY <3>1 DEF XSent
      <3> QED
        BY <2>1, <3>1, <3>2 DEF Exports
    <2> QED
      BY <2>2, <2>3
  <1>6. CASE Posts
    BY <1>6, PostsDeliver
  <1>7. CASE ArrivesLate
    BY <1>7, ArrivalDelivers
  <1>8. CASE stopEmulate \/ XCrash
    BY <1>8 DEF stopEmulate, XCrash
  <1>9. \/ UNCHANGED <<host, latest, push, clk, counted, recv, ghost, events>>
        \/ publishEmulateSnapshot \/ checkEmulatedNodes \/ PushOnce \/ PushesLast \/ Posts \/ ArrivesLate
        \/ Tick \/ stopEmulate \/ XCrash
    BY DEF XNext, TickStarts, RunTicks, RunStarts, RunFinishes, NodeChanges, SinkRuns, SinkPosts, Stops, startEmulate
  <1> QED
    BY <1>2, <1>3, <1>4, <1>5, <1>6, <1>7, <1>8, <1>9

(* The file keeps the events that were taken.                              *)
LEMMA JournalKeeps ==
    ASSUME XTypeOK, JournalInv, XNext,
           \/ Emit(events + 1) /\ life # "down" /\ UNCHANGED life
           \/ ghost'.acked = ghost.acked /\ ghost'.cut = ghost.cut
    PROVE  JournalInv'
  <1>1. CASE Emit(events + 1) /\ life # "down"
    <2>1. journal' \in [lines : Seq(Nat), torn : {"no", "short"}] /\ EventsAreKept'
      BY <1>1, EmitKeeps
    <2>2. journal' \in [lines : Seq(Nat), torn : {"no", "short", "crash"}] /\ journal'.torn # "crash"
      BY <2>1
    <2> QED
      BY <2>1, <2>2 DEF JournalInv
  <1>2. ASSUME ghost'.acked = ghost.acked, ghost'.cut = ghost.cut, ~(Emit(events + 1) /\ life # "down")
        PROVE  JournalInv'
    <2>1. /\ journal \in [lines : Seq(Nat), torn : {"no", "short", "crash"}]
          /\ journal.torn = "crash" => life = "down"
          /\ ghost.acked \subseteq ToSet(journal.lines) \cup ghost.cut
      BY DEF JournalInv, EventsAreKept
    <2>2. \/ journal' = journal /\ (life' = life \/ life = "up" \/ life' = "down")
          \/ journal' = [journal EXCEPT !.torn = "no"]
          \/ journal' = [journal EXCEPT !.torn = "crash"] /\ life' = "down"
      BY <1>2 DEF XNext, TickStarts, Tick, publishEmulateSnapshot, RunTicks, RunStarts, RunFinishes, NodeChanges,
             checkEmulatedNodes, PushOnce, PushesLast, Posts, ArrivesLate, SinkRuns, SinkPosts, Stops, stopEmulate,
             XCrash, startEmulate, fileEndLine, Gone
    <2>3. /\ journal' \in [lines : Seq(Nat), torn : {"no", "short", "crash"}] /\ journal'.lines = journal.lines
          /\ journal'.torn = "crash" => life' = "down"
      BY <2>1, <2>2
    <2> QED
      BY <1>2, <2>1, <2>3 DEF JournalInv, EventsAreKept
  <1> QED
    BY <1>1, <1>2

(* Every step of the telemetry keeps the invariant, and no counter at the  *)
(* receiver goes back.                                                     *)
LEMMA ExportSteps ==
    ASSUME ExportInv, XNext
    PROVE  ExportInv' /\ CountersGrow
  <1>1. XTypeOK /\ JournalInv /\ RunInv /\ MirrorInv /\ SentInv /\ GovernorInv
    BY DEF ExportInv
  <1>2. RunInv' /\ MirrorInv'
        /\ emu' \in [pc : {"idle", "tick", "publish", "run"}, recs : {<<>>, <<"hw">>}]
    BY <1>1, RunKeeps, MirrorKeeps
  <1> DEFINE Types ==
        /\ host' \in [j : Nat, gov : Presets, ticks : Nat]
        /\ latest' = NoValue \/ latest' \in [j : Nat, now : Presets, left : Presets \cup {NoValue}]
        /\ push' = NoValue \/ push' \in XRequests
        /\ clk' \in Nat /\ counted' \in Nat /\ events' \in Nat
        /\ recv' \in XReceivers /\ ghost' \in XGhosts
  <1>3. ASSUME Types, JournalInv', SentInv', GovernorInv' PROVE ExportInv'
    BY <1>2, <1>3 DEF ExportInv, XTypeOK
  <1>4. /\ host \in [j : Nat, gov : Presets, ticks : Nat]
        /\ latest = NoValue \/ latest \in [j : Nat, now : Presets, left : Presets \cup {NoValue}]
        /\ push = NoValue \/ push \in XRequests
        /\ clk \in Nat /\ counted \in Nat /\ events \in Nat
        /\ recv \in XReceivers /\ ghost \in XGhosts
    BY <1>1 DEF XTypeOK
  <1>5. CASE Rests /\ Emit(events + 1) /\ life # "down" /\ UNCHANGED life
    <2>1. events' \in Nat /\ Types
      BY <1>1, <1>4, <1>5, EmitKeeps DEF Rests
    <2>2. JournalInv'
      BY <1>1, <1>5, JournalKeeps
    <2> HIDE DEF Types
    <2> QED
      BY <1>1, <1>3, <1>5, <2>1, <2>2, RestKeeps
  <1>6. CASE Rests /\ UNCHANGED <<ghost, events>>
    <2>1. Types
      BY <1>4, <1>6 DEF Rests
    <2>2. JournalInv'
      BY <1>1, <1>6, JournalKeeps
    <2> HIDE DEF Types
    <2> QED
      BY <1>1, <1>3, <1>6, <2>1, <2>2, RestKeeps
  <1>7. CASE Exports
    <2>1. SentInv' /\ GovernorInv' /\ CountersGrow /\ push' \in XRequests /\ recv' \in XReceivers /\ clk' \in Nat
      BY <1>1, <1>7, ExportKeeps
    <2>2. Types
      BY <1>4, <1>7, <2>1 DEF Exports
    <2>3. JournalInv'
      BY <1>1, <1>7, JournalKeeps DEF Exports
    <2> HIDE DEF Types
    <2> QED
      BY <1>3, <2>1, <2>2, <2>3
  <1>8. CASE Delivery
    <2>1. SentInv' /\ GovernorInv' /\ CountersGrow
      BY <1>1, <1>8, DeliveryKeepsOrder, DeliveryKeepsGovernor
    <2>2. Types /\ ghost'.acked = ghost.acked /\ ghost'.cut = ghost.cut
      BY <1>4, <1>8 DEF Delivery, TakenAs, SeenAs
    <2>3. JournalInv'
      BY <1>1, <2>2, JournalKeeps
    <2> HIDE DEF Types
    <2> QED
      BY <1>3, <2>1, <2>2, <2>3
  <1>9. CASE Tick
    <2>1. /\ SentInv' /\ GovernorInv' /\ CountersGrow
          /\ host' \in [j : Nat, gov : Presets, ticks : Nat]
          /\ latest' \in [j : Nat, now : Presets, left : Presets \cup {NoValue}]
          /\ ghost' \in XGhosts /\ ghost'.acked = ghost.acked /\ ghost'.cut = ghost.cut
      BY <1>1, <1>9, ExportTickKeeps
    <2>2. Types
      BY <1>4, <1>9, <2>1 DEF Tick
    <2>3. JournalInv'
      BY <1>1, <2>1, JournalKeeps
    <2> HIDE DEF Types
    <2> QED
      BY <1>3, <2>1, <2>2, <2>3
  <1>10. CASE Gone /\ UNCHANGED <<host, clk, events>>
    <2>1. /\ SentInv' /\ GovernorInv' /\ CountersGrow
          /\ recv' \in XReceivers /\ counted' \in Nat /\ latest' = NoValue /\ push' = NoValue
          /\ ghost' \in XGhosts /\ ghost'.acked = ghost.acked /\ ghost'.cut = ghost.cut
      BY <1>1, <1>10, GoneKeeps
    <2>2. Types
      BY <1>4, <1>10, <2>1
    <2>3. JournalInv'
      BY <1>1, <2>1, JournalKeeps
    <2> HIDE DEF Types
    <2> QED
      BY <1>3, <2>1, <2>2, <2>3
  <1> QED
    BY <1>1, <1>5, <1>6, <1>7, <1>8, <1>9, <1>10, StepKinds

(* Where the invariant holds, the receiver shows at most one state.        *)
LEMMA ExportInvSays ==
    ExportInv => OneGovernor /\ EventsAreKept /\ CountedWasTaken /\ LastLineIsFinal /\ MirrorAgrees
  <1> SUFFICES ASSUME ExportInv PROVE OneGovernor /\ EventsAreKept /\ CountedWasTaken /\ LastLineIsFinal /\ MirrorAgrees
    OBVIOUS
  <1>1. ASSUME ghost.calm
        PROVE  /\ \E x : recv.gov \subseteq {x}
               /\ ghost.shown => recv.gov \subseteq {host.gov}
    BY <1>1 DEF ExportInv, GovernorInv
  <1>2. \A x : \A S \in SUBSET {x} : Cardinality(S) <= 1
    <2> SUFFICES ASSUME NEW x, NEW S \in SUBSET {x} PROVE Cardinality(S) <= 1
      OBVIOUS
    <2>1. S = {} \/ S = {x}
      OBVIOUS
    <2>2. Cardinality({}) = 0 /\ Cardinality({x}) = 1
      BY FS_EmptySet, FS_Singleton
    <2> QED
      BY <2>1, <2>2
  <1>3. OneGovernor
    BY <1>1, <1>2 DEF OneGovernor
  <1> QED
    BY <1>3 DEF ExportInv, JournalInv, SentInv, RunInv, MirrorInv, CountedWasTaken

(* What leaves the simulator is true, for every number of nodes, ticks,    *)
(* exports, faults and restarts: the receiver never shows two states of a  *)
(* governor at once, no event that was taken is lost, the points counter   *)
(* counts what was taken, the last line of a run is its final one, the     *)
(* mirror is the ledger's gain, and no counter goes back (PushOnce,        *)
(* Exporter.export, Sink.Emit, readingPreviousGovernors,                   *)
(* applyEmulateSnapshot, runRecorder).                                     *)
THEOREM ExportsAreTrue == XSpec => ExportIsTrue
  <1>1. XInit => ExportInv
    BY ExportStarts
  <1>2. ExportInv /\ [XNext]_exVars => ExportInv' /\ [CountersGrow]_exVars
    <2> SUFFICES ASSUME ExportInv, [XNext]_exVars PROVE ExportInv' /\ [CountersGrow]_exVars
      OBVIOUS
    <2>1. CASE XNext
      BY <2>1, ExportSteps
    <2>2. CASE UNCHANGED exVars
      BY <2>2 DEF exVars, ExportInv, XTypeOK, JournalInv, EventsAreKept, RunInv, LastLineIsFinal, MirrorInv,
             MirrorAgrees, SentInv, SaysMore, GovernorInv, XDue, NamesBoth, XSent
    <2> QED
      BY <2>1, <2>2
  <1>3. ExportInv => OneGovernor /\ EventsAreKept /\ CountedWasTaken /\ LastLineIsFinal /\ MirrorAgrees
    BY ExportInvSays
  <1> QED
    BY <1>1, <1>2, <1>3, PTL DEF XSpec, ExportIsTrue
=============================================================================
