-------------------------- MODULE SimulatorProofs --------------------------
(***************************************************************************)
(* Four parts of the simulator.  The standalone loop: performance jobs     *)
(* keep their power, for every inventory and trace.  The emulated vendor   *)
(* tools: what they say is what the files hold, for every rack and all     *)
(* callers.  A run of the workload engine: jobs fail for a cause, and are  *)
(* completed after their energy was attributed, for every trace and order. *)
(* The exporters: they neither lose nor make energy.                       *)
(***************************************************************************)
EXTENDS Standalone, Smi, WorkloadRun, Compat, Totals, SequenceTheorems

-----------------------------------------------------------------------------
(* The standalone loop.  Its jobs may be any sequences.                    *)

SaSpec(traces) == SaInit(traces) /\ [][SaNext]_saVars

PerfOf(tr, jobs) == {i \in jobs : tr[i].perf}
FullPower(s) == s.freq # "eco" /\ s.cpu \notin {"pl1", "agent"} /\ s.gpu # "eco"

(* A node: its count is that of its performance jobs, it has none under    *)
(* eco, and otherwise its settings are full.  s is its settings.           *)
NodeSound(tr, r, s) ==
    /\ DOMAIN r = {"cpu", "gpu", "jobs", "eco", "draining", "perf"}
    /\ r.jobs \subseteq DOMAIN tr
    /\ r.perf = Cardinality(PerfOf(tr, r.jobs))
    /\ r.eco => PerfOf(tr, r.jobs) = {}
    /\ ~r.eco => FullPower(s)

(* The trackers t under settings s; the jobs of fresh are on no node.      *)
AllSound(tr, t, s, fresh) ==
    /\ DOMAIN t = Nodes
    /\ \A n \in Nodes : NodeSound(tr, t[n], s[n])
    /\ \A n \in Nodes : \A i \in fresh : i \notin t[n].jobs

Unsubmitted(tr, jobs) == {i \in DOMAIN tr : ~jobs[i].submitted}

SaInv ==
    /\ DOMAIN trace = 1..Len(trace) /\ Len(trace) \in Nat
    /\ AllSound(trace, track, setting, Unsubmitted(trace, saJob))

(* The invariant gives the property.                                       *)
LEMMA InvKeeps == SaInv => PerfKeepsPower
  <1> SUFFICES ASSUME SaInv, NEW n \in Nodes, NEW i \in RunningOn(n), trace[i].perf
               PROVE  CpuRate(n) = Full /\ GpuRate(n) = Full
    BY DEF PerfKeepsPower
  <1>1. i \in PerfOf(trace, track[n].jobs)
    BY DEF RunningOn, PerfOf
  <1>2. FullPower(setting[n])
    BY <1>1 DEF SaInv, AllSound, NodeSound
  <1> QED
    BY <1>2 DEF FullPower, CpuRate, GpuRate

(* No job is placed at first.                                              *)
LEMMA InitInv == ASSUME NEW J, NEW traces \in SUBSET Seq(J), SaInit(traces) PROVE SaInv
  <1>1. trace \in Seq(J)
    BY DEF SaInit
  <1>2. DOMAIN trace = 1..Len(trace) /\ Len(trace) \in Nat
    BY <1>1
  <1>3. \A n \in Nodes : NodeSound(trace, track[n], setting[n])
    <2> TAKE n \in Nodes
    <2>1. PerfOf(trace, {}) = {}
      BY DEF PerfOf
    <2>2. Cardinality(PerfOf(trace, {})) = 0
      BY <2>1, FS_EmptySet
    <2> QED
      BY <2>1, <2>2 DEF SaInit, NodeSound, NewTracker, AtFirst, FullPower
  <1>4. \A n \in Nodes : track[n].jobs = {}
    BY DEF SaInit, NewTracker
  <1> QED
    BY <1>2, <1>3, <1>4 DEF SaInv, AllSound, SaInit

-----------------------------------------------------------------------------
(* Placement.                                                              *)

(* A job of no node that a node admits leaves the trackers sound.          *)
LEMMA PlaceSound ==
    ASSUME DOMAIN trace = 1..Len(trace), Len(trace) \in Nat,
           NEW t, NEW s, NEW fresh, AllSound(trace, t, s, fresh),
           NEW i \in fresh, i \in DOMAIN trace,
           NEW n \in Nodes, admits(t, n, trace[i])
    PROVE  AllSound(trace, placeJob(t, n, i, trace[i]), s, fresh \ {i})
  <1> DEFINE u == placeJob(t, n, i, trace[i])
             A == PerfOf(trace, t[n].jobs)
             B == PerfOf(trace, u[n].jobs)
  <1>0. DOMAIN u = Nodes /\ \A m \in Nodes : m # n => u[m] = t[m]
    BY DEF placeJob, AllSound
  <1>1. NodeSound(trace, t[n], s[n]) /\ i \notin t[n].jobs
    BY DEF AllSound
  <1>2. /\ DOMAIN u[n] = {"cpu", "gpu", "jobs", "eco", "draining", "perf"}
        /\ u[n].jobs = t[n].jobs \cup {i}
        /\ u[n].perf = IF trace[i].perf THEN t[n].perf + 1 ELSE t[n].perf
        /\ u[n].eco = t[n].eco
    BY <1>1 DEF placeJob, AllSound, NodeSound
  <1> HIDE DEF u
  <1>3. IsFiniteSet(A)
    <2>1. A \subseteq 1..Len(trace)
      BY <1>1 DEF NodeSound, PerfOf
    <2>2. IsFiniteSet(1..Len(trace))
      BY FS_Interval
    <2> QED
      BY <2>1, <2>2, FS_Subset
  <1>4. B = IF trace[i].perf THEN A \cup {i} ELSE A
    BY <1>2 DEF PerfOf
  <1>5. i \notin A
    BY <1>1 DEF PerfOf
  <1>6. Cardinality(A \cup {i}) = Cardinality(A) + 1
    BY <1>3, <1>5, FS_AddElement
  <1>7. u[n].perf = Cardinality(B)
    BY <1>1, <1>2, <1>4, <1>6 DEF NodeSound
  <1>8. u[n].eco => B = {}
    BY <1>1, <1>2, <1>4 DEF NodeSound, admits
  <1>9. NodeSound(trace, u[n], s[n])
    BY <1>1, <1>2, <1>7, <1>8 DEF NodeSound
  <1>10. \A m \in Nodes : NodeSound(trace, u[m], s[m])
    BY <1>0, <1>9 DEF AllSound
  <1>11. \A m \in Nodes : \A k \in fresh \ {i} : k \notin u[m].jobs
    BY <1>0, <1>2 DEF AllSound
  <1>12. AllSound(trace, u, s, fresh \ {i})
    BY <1>0, <1>10, <1>11 DEF AllSound
  <1> QED
    BY <1>12 DEF u

(* One job of the pass.                                                    *)
LEMMA TrySound ==
    ASSUME DOMAIN trace = 1..Len(trace), Len(trace) \in Nat,
           NEW p, NEW s, NEW fresh, AllSound(trace, p.t, s, fresh),
           NEW i \in DOMAIN trace, saJob[i].submitted \/ i \in fresh, NEW now
    PROVE  AllSound(trace, tryJob(p, i, now).t, s, fresh \ {i})
  <1> DEFINE best == findNodeForJob(p.t, trace[i])
             n == CHOOSE m \in best : TRUE
  <1>1. AllSound(trace, p.t, s, fresh \ {i})
    BY DEF AllSound
  <1>2. best # {} => n \in Nodes /\ admits(p.t, n, trace[i])
    <2>1. best # {} => n \in best
      OBVIOUS
    <2>2. \A m \in best : m \in Nodes /\ admits(p.t, m, trace[i])
      BY DEF findNodeForJob
    <2> QED
      BY <2>1, <2>2
  <1> HIDE DEF n
  <1>3. CASE best # {} /\ ~saJob[i].submitted
    <2>1. AllSound(trace, placeJob(p.t, n, i, trace[i]), s, fresh \ {i})
      BY <1>2, <1>3, PlaceSound
    <2>2. tryJob(p, i, now).t \in {p.t, placeJob(p.t, n, i, trace[i])}
      BY <1>3 DEF tryJob, n
    <2> QED
      BY <1>1, <2>1, <2>2
  <1>4. CASE best = {} \/ saJob[i].submitted
    <2>1. tryJob(p, i, now).t = p.t
      BY <1>4 DEF tryJob
    <2> QED
      BY <1>1, <2>1
  <1> QED
    BY <1>3, <1>4

(* Induction over an interval, with the set of the numbers reached.        *)
LEMMA IntervalInduction ==
    ASSUME NEW N \in Nat, NEW G, 0 \in G,
           \A i \in 1..N : i - 1 \in G => i \in G
    PROVE  \A i \in 0..N : i \in G
  <1> DEFINE F == {s \in SUBSET (0..N) : \A i \in 0..N : s = 0..i => i \in G}
  <1>1. IsFiniteSet(0..N)
    BY FS_Interval
  <1>2. ASSUME NEW s \in SUBSET (0..N), \A u \in SUBSET s : u # s => u \in F
        PROVE  s \in F
    <2> SUFFICES ASSUME NEW i \in 0..N, s = 0..i PROVE i \in G
      OBVIOUS
    <2>1. CASE i = 0
      BY <2>1
    <2>2. CASE i # 0
      <3>1. i \in 1..N /\ i - 1 \in 0..N
        BY <2>2
      <3>2. 0..(i - 1) \in SUBSET s /\ 0..(i - 1) # s
        <4>1. i \in s /\ i \notin 0..(i - 1)
          BY <3>1
        <4> QED
          BY <4>1
      <3>3. 0..(i - 1) \in F
        BY <1>2, <3>2
      <3> QED
        BY <3>1, <3>3
    <2> QED
      BY <2>1, <2>2
  <1>3. \A s \in SUBSET (0..N) : s \in F
    <2> HIDE DEF F
    <2> QED
      BY <1>1, <1>2, FiniteInduction
  <1> QED
    <2> TAKE i \in 0..N
    <2>1. 0..i \in F
      <3>1. 0..i \in SUBSET (0..N)
        OBVIOUS
      <3> HIDE DEF F
      <3> QED
        BY <1>3, <3>1
    <2> QED
      BY <2>1

(* The function a pass computes, the state after each of the first k jobs. *)
Passes(now, k, f) ==
    f = [i \in 0..k |-> IF i = 0 THEN [t |-> track, fails |-> [q \in ClassKeys |-> 0]]
                        ELSE tryJob(f[i - 1], i, now)]

(* The pass over the first k jobs computes something.                      *)
LEMMA PassExists ==
    ASSUME NEW N \in Nat, NEW now
    PROVE  \E f : Passes(now, N, f)
  <1> DEFINE G == {k \in 0..N : \E f : Passes(now, k, f)}
             zero == [t |-> track, fails |-> [q \in ClassKeys |-> 0]]
  <1>1. 0 \in G
    <2>1. Passes(now, 0, [i \in 0..0 |-> zero])
      BY DEF Passes
    <2> QED
      BY <2>1
  <1>2. ASSUME NEW k \in 1..N, k - 1 \in G
        PROVE  k \in G
    <2>1. PICK f : Passes(now, k - 1, f)
      BY <1>2
    <2> DEFINE val(g, i) == IF i = 0 THEN zero ELSE tryJob(g[i - 1], i, now)
               h == [i \in 0..k |-> val(f, i)]
    <2>2. f = [i \in 0..(k - 1) |-> val(f, i)]
      BY <2>1 DEF Passes
    <2> HIDE DEF zero
    <2>3. \A i \in 0..(k - 1) : h[i] = f[i]
      <3> HIDE DEF val
      <3>1. \A i \in 0..(k - 1) : f[i] = val(f, i)
        BY <2>2
      <3>2. \A i \in 0..(k - 1) : i \in 0..k
        OBVIOUS
      <3> QED
        BY <3>1, <3>2
    <2>4. \A i \in 0..k : val(h, i) = val(f, i)
      <3> TAKE i \in 0..k
      <3>1. i # 0 => i - 1 \in 0..(k - 1)
        OBVIOUS
      <3>2. i # 0 => h[i - 1] = f[i - 1]
        BY <2>3, <3>1
      <3> HIDE DEF h
      <3> QED
        BY <3>2
    <2>5. h = [i \in 0..k |-> val(h, i)]
      <3> DEFINE g == h
      <3>1. g = [i \in 0..k |-> val(f, i)] /\ \A i \in 0..k : val(g, i) = val(f, i)
        BY <2>4
      <3>2. g = [i \in 0..k |-> val(g, i)]
        <4> HIDE DEF g, val
        <4> QED
          BY <3>1
      <3> QED
        BY <3>2
    <2>6. Passes(now, k, h)
      <3> HIDE DEF h
      <3> QED
        BY <2>5 DEF Passes, zero
    <2> HIDE DEF h
    <2> QED
      BY <2>6
  <1>3. \A i \in 0..N : i \in G
    <2> HIDE DEF G
    <2> QED
      BY <1>1, <1>2, IntervalInduction
  <1> QED
    BY <1>3

(* The pass leaves the trackers sound; a job it did not place was          *)
(* submitted before or is on no node.                                      *)
LEMMA InjectSound ==
    ASSUME SaInv, NEW now
    PROVE  AllSound(trace, standaloneInjectJobsFast(now).t, setting, {})
  <1> DEFINE N == Len(trace)
             f == CHOOSE g : Passes(now, N, g)
             fresh(i) == {k \in Unsubmitted(trace, saJob) : k > i}
             Good(i) == AllSound(trace, f[i].t, setting, fresh(i))
             G == {i \in 0..N : Good(i)}
  <1>1. N \in Nat /\ DOMAIN trace = 1..N
    BY DEF SaInv
  <1>2. Passes(now, N, f)
    BY <1>1, PassExists
  <1>3. standaloneInjectJobsFast(now) = f[N]
    BY DEF standaloneInjectJobsFast, Passes
  <1> HIDE DEF f
  <1>4. 0 \in G
    <2>1. f[0].t = track
      BY <1>1, <1>2 DEF Passes
    <2>2. fresh(0) = Unsubmitted(trace, saJob)
      BY <1>1 DEF Unsubmitted
    <2>3. Good(0)
      <3> HIDE DEF fresh
      <3> QED
        BY <2>1, <2>2 DEF SaInv
    <2> HIDE DEF Good
    <2> QED
      BY <1>1, <2>3
  <1>5. ASSUME NEW i \in 1..N, i - 1 \in G
        PROVE  i \in G
    <2>1. f[i] = tryJob(f[i - 1], i, now)
      BY <1>1, <1>2 DEF Passes
    <2>2. i \in DOMAIN trace /\ (saJob[i].submitted \/ i \in fresh(i - 1))
      BY <1>1 DEF Unsubmitted
    <2>3. fresh(i) = fresh(i - 1) \ {i}
      BY <1>1 DEF Unsubmitted
    <2>4. AllSound(trace, f[i - 1].t, setting, fresh(i - 1))
      BY <1>5
    <2> HIDE DEF fresh
    <2>5. AllSound(trace, tryJob(f[i - 1], i, now).t, setting, fresh(i - 1) \ {i})
      BY <1>1, <2>2, <2>4, TrySound
    <2>6. Good(i)
      BY <2>1, <2>3, <2>5
    <2> HIDE DEF Good
    <2> QED
      BY <1>1, <2>6
  <1>6. N \in G
    <2>1. \A i \in 0..N : i \in G
      <3> HIDE DEF G
      <3> QED
        BY <1>1, <1>4, <1>5, IntervalInduction
    <2>2. N \in 0..N
      BY <1>1
    <2> HIDE DEF G
    <2> QED
      BY <2>1, <2>2
  <1>7. Good(N)
    <2> HIDE DEF Good
    <2> QED
      BY <1>6
  <1>8. AllSound(trace, f[N].t, setting, {})
    BY <1>7 DEF AllSound
  <1> QED
    BY <1>3, <1>8

-----------------------------------------------------------------------------
(* Progress and policy.                                                    *)

(* A node that gives jobs back counts the performance jobs it still has.   *)
LEMMA ReleaseSound ==
    ASSUME DOMAIN trace = 1..Len(trace), Len(trace) \in Nat,
           NEW r, NEW s, NodeSound(trace, r, s), NEW done \in SUBSET r.jobs
    PROVE  NodeSound(trace, release(r, done), s) /\ release(r, done).jobs = r.jobs \ done
  <1> DEFINE u == release(r, done)
             A == PerfOf(trace, r.jobs)
             D == PerfOf(trace, done)
  <1>1. /\ DOMAIN u = {"cpu", "gpu", "jobs", "eco", "draining", "perf"}
        /\ u.jobs = r.jobs \ done
        /\ u.perf = AtLeast(r.perf - Cardinality(D), 0)
        /\ u.eco = r.eco
    BY DEF release, NodeSound, PerfOf, Sum
  <1> HIDE DEF u
  <1>2. IsFiniteSet(A) /\ D \subseteq A
    <2>1. A \subseteq 1..Len(trace) /\ D \subseteq A
      BY DEF NodeSound, PerfOf
    <2>2. IsFiniteSet(1..Len(trace))
      BY FS_Interval
    <2> QED
      BY <2>1, <2>2, FS_Subset
  <1>3. PerfOf(trace, u.jobs) = A \ D
    BY <1>1 DEF PerfOf
  <1>4. Cardinality(A \ D) = Cardinality(A) - Cardinality(D) /\ Cardinality(A \ D) \in Nat
    <2>1. IsFiniteSet(A \ D) /\ Cardinality(A \ D) = Cardinality(A) - Cardinality(A \cap D)
      BY <1>2, FS_Difference
    <2>2. A \cap D = D
      BY <1>2
    <2> QED
      BY <2>1, <2>2, FS_CardinalityType
  <1>5. u.perf = Cardinality(PerfOf(trace, u.jobs))
    <2> DEFINE c == Cardinality(A \ D)
    <2>1. r.perf - Cardinality(D) = c
      BY <1>4 DEF NodeSound
    <2>2. u.perf = AtLeast(c, 0) /\ c \in Nat
      BY <1>1, <1>4, <2>1
    <2>3. u.perf = c
      <3> HIDE DEF c
      <3> QED
        BY <2>2 DEF AtLeast
    <2> QED
      BY <1>3, <2>3
  <1>6. u.eco => PerfOf(trace, u.jobs) = {}
    BY <1>1, <1>2, <1>3 DEF NodeSound
  <1>7. NodeSound(trace, u, s)
    BY <1>1, <1>5, <1>6 DEF NodeSound
  <1> QED
    BY <1>1, <1>7 DEF u

(* After a tick a job on a node is submitted.                              *)
LEMMA WorkedSound ==
    ASSUME SaInv, NEW t, AllSound(trace, t, setting, {})
    PROVE  LET jobs == worked(t)
           IN  AllSound(trace, standaloneTickParallel(t, jobs), setting, Unsubmitted(trace, jobs))
  <1> DEFINE jobs == worked(t)
             done(n) == {i \in t[n].jobs : jobs[i].done}
             u == standaloneTickParallel(t, jobs)
  <1>1. DOMAIN u = Nodes /\ \A n \in Nodes : u[n] = release(t[n], done(n))
    BY DEF standaloneTickParallel
  <1>2. \A n \in Nodes : NodeSound(trace, t[n], setting[n]) /\ done(n) \in SUBSET t[n].jobs
    BY DEF AllSound
  <1>3. \A i \in DOMAIN trace : \A n \in Nodes : i \in t[n].jobs => jobs[i].submitted
    <2> TAKE i \in DOMAIN trace
    <2> DEFINE on == {n \in Nodes : i \in t[n].jobs}
    <2>1. on # {} => jobs[i].submitted
      <3> SUFFICES ASSUME on # {} PROVE jobs[i].submitted
        OBVIOUS
      <3>1. \E w : jobs[i] = [submitted |-> TRUE, done |-> w.cpu <= 0 /\ w.gpu <= 0, cpu |-> w.cpu, gpu |-> w.gpu]
        BY DEF worked
      <3> HIDE DEF jobs
      <3> QED
        BY <3>1
    <2> QED
      BY <2>1
  <1> HIDE DEF jobs, done, u
  <1>4. \A n \in Nodes : NodeSound(trace, u[n], setting[n]) /\ u[n].jobs = t[n].jobs \ done(n)
    BY <1>1, <1>2, ReleaseSound DEF SaInv
  <1>5. \A n \in Nodes : \A i \in Unsubmitted(trace, jobs) : i \notin u[n].jobs
    BY <1>3, <1>4 DEF Unsubmitted
  <1>6. AllSound(trace, u, setting, Unsubmitted(trace, jobs))
    BY <1>1, <1>4, <1>5 DEF AllSound
  <1> QED
    BY <1>6 DEF u, jobs

(* The policy takes power only from nodes without a performance job.       *)
LEMMA PolicySound ==
    ASSUME DOMAIN trace = 1..Len(trace), Len(trace) \in Nat,
           NEW t, NEW s, NEW fresh, AllSound(trace, t, s, fresh),
           NEW demand, applyPowerPolicy(t, s, demand)
    PROVE  AllSound(trace, track', setting', fresh)
  <1> DEFINE hp == performanceNodes(t, HpCount(demand))
             p == [n \in Nodes |-> IF baseline = "A" THEN "performance" ELSE profileOf(t, n, hp)]
  <1>1. /\ track' = [n \in Nodes |-> [t[n] EXCEPT !.eco = p[n] = "eco", !.draining = p[n] = "draining"]]
        /\ setting' = [n \in Nodes |->
              IF p[n] = "eco" THEN ecoSetting(n, s[n])
              ELSE IF baseline = "A" THEN [freq |-> "full", cpu |-> "default", gpu |-> "max"]
              ELSE perfSetting(n)]
    BY DEF applyPowerPolicy
  <1>2. ASSUME NEW n \in Nodes
        PROVE  NodeSound(trace, track'[n], setting'[n]) /\ track'[n].jobs = t[n].jobs
    <2>1. NodeSound(trace, t[n], s[n])
      BY DEF AllSound
    <2>2. p[n] = "eco" => PerfOf(trace, t[n].jobs) = {}
      <3>1. IsFiniteSet(PerfOf(trace, t[n].jobs))
        <4>1. PerfOf(trace, t[n].jobs) \subseteq 1..Len(trace)
          BY <2>1 DEF NodeSound, PerfOf
        <4>2. IsFiniteSet(1..Len(trace))
          BY FS_Interval
        <4> QED
          BY <4>1, <4>2, FS_Subset
      <3>2. p[n] = "eco" => ~(t[n].perf > 0)
        <4> HIDE DEF hp
        <4> QED
          BY DEF profileOf
      <3>3. Cardinality(PerfOf(trace, t[n].jobs)) \in Nat
        BY <3>1, FS_CardinalityType
      <3>4. p[n] = "eco" => Cardinality(PerfOf(trace, t[n].jobs)) = 0
        <4> HIDE DEF p
        <4> QED
          BY <2>1, <3>2, <3>3 DEF NodeSound
      <3> HIDE DEF p
      <3> QED
        BY <3>1, <3>4, FS_EmptySet
    <2> HIDE DEF p
    <2>3. p[n] # "eco" => FullPower(setting'[n])
      BY <1>1 DEF perfSetting, FullPower
    <2>4. /\ DOMAIN track'[n] = {"cpu", "gpu", "jobs", "eco", "draining", "perf"}
          /\ track'[n].jobs = t[n].jobs
          /\ track'[n].perf = t[n].perf
          /\ track'[n].eco <=> p[n] = "eco"
      BY <1>1, <2>1 DEF NodeSound
    <2> QED
      BY <2>1, <2>2, <2>3, <2>4 DEF NodeSound
  <1>3. DOMAIN track' = Nodes
    BY <1>1
  <1> QED
    BY <1>2, <1>3 DEF AllSound

(* Every step of the loop keeps the invariant.                             *)
LEMMA NextInv == SaInv /\ [SaNext]_saVars => SaInv'
  <1> SUFFICES ASSUME SaInv, [SaNext]_saVars PROVE SaInv'
    OBVIOUS
  <1>0. DOMAIN trace = 1..Len(trace) /\ Len(trace) \in Nat
    BY DEF SaInv
  <1>1. CASE FirstPolicy
    <2>1. trace' = trace /\ saJob' = saJob /\ applyPowerPolicy(track, setting, 0)
      BY <1>1 DEF FirstPolicy
    <2>2. AllSound(trace, track', setting', Unsubmitted(trace, saJob))
      BY <1>0, <2>1, PolicySound DEF SaInv
    <2> QED
      BY <1>0, <2>1, <2>2 DEF SaInv
  <1>2. CASE StandaloneTick
    <2> DEFINE i == standaloneInjectJobsFast(at + 1).t
               jobs == worked(i)
               t == standaloneTickParallel(i, jobs)
               demand == countPerformanceSensitivePending(t, jobs, at + 1)
    <2>1. /\ trace' = trace /\ saJob' = jobs
          /\ applyPowerPolicy(t, setting, demand) \/ (track' = t /\ setting' = setting)
      <3> HIDE DEF i, jobs, t, demand
      <3>1. \E ii \in {i} : \E jj \in {worked(ii)} : \E tt \in {standaloneTickParallel(ii, jj)} :
               /\ saJob' = jj
               /\ \/ applyPowerPolicy(tt, setting, countPerformanceSensitivePending(tt, jj, at + 1))
                  \/ track' = tt /\ setting' = setting
        BY <1>2 DEF StandaloneTick, i
      <3>2. trace' = trace
        BY <1>2 DEF StandaloneTick
      <3> QED
        BY <3>1, <3>2 DEF jobs, t, demand
    <2>2. AllSound(trace, i, setting, {})
      BY InjectSound
    <2> HIDE DEF i
    <2>3. AllSound(trace, t, setting, Unsubmitted(trace, jobs))
      BY <2>2, WorkedSound
    <2> HIDE DEF jobs, t, demand
    <2>4. AllSound(trace, track', setting', Unsubmitted(trace, jobs))
      <3>1. CASE applyPowerPolicy(t, setting, demand)
        BY <1>0, <2>3, <3>1, PolicySound
      <3>2. CASE track' = t /\ setting' = setting
        BY <2>3, <3>2
      <3> QED
        BY <2>1, <3>1, <3>2
    <2> QED
      BY <1>0, <2>1, <2>4 DEF SaInv
  <1>3. CASE UNCHANGED saVars
    BY <1>3 DEF SaInv, saVars
  <1> QED
    BY <1>1, <1>2, <1>3 DEF SaNext

(* A performance job has the full power of its node from its placement to  *)
(* its end, for every inventory, every trace of jobs and every policy:     *)
(* findNodeForJob keeps it from eco nodes, applyPowerPolicy drains a node  *)
(* while its count of performance jobs is not zero, and placeJob and the   *)
(* job loops keep that count right.                                        *)
THEOREM PerfJobsKeepPower ==
    ASSUME NEW J, NEW traces \in SUBSET Seq(J)
    PROVE  SaSpec(traces) => []PerfKeepsPower
  <1>1. SaInit(traces) => SaInv
    BY InitInv
  <1>2. SaInv /\ [SaNext]_saVars => SaInv'
    BY NextInv
  <1>3. SaInv => PerfKeepsPower
    BY InvKeeps
  <1> QED
    BY <1>1, <1>2, <1>3, PTL DEF SaSpec

-----------------------------------------------------------------------------
(* The vendor tools.                                                       *)

SmiSpec == SmiInit /\ [][SmiNext]_smiVars

(* What claims are about, and what a claim means of a GPU g; a claim is    *)
(* made only of a file the GPU has.                                        *)
Files == {"cap1", "cap2", "limit", "pm", "lock", "level", "profile", "od"}

HoldsIn(g, f, v) ==
    CASE f = "cap1" -> g.ppt[1].cap = v
      [] f = "cap2" -> g.ppt[2].cap = v
      [] OTHER -> g[f] = v

Held(g, f, v) ==
    /\ f \in Files
    /\ f = "cap1" => "ppt" \in DOMAIN g /\ 1 \in DOMAIN g.ppt
    /\ f = "cap2" => "ppt" \in DOMAIN g /\ 2 \in DOMAIN g.ppt
    /\ f \notin {"cap1", "cap2"} => f \in DOMAIN g
    /\ HoldsIn(g, f, v)

(* An outcome o for a GPU g says only what holds, and leaves alone what it *)
(* does not name among its files.                                          *)
Honest(vendor, g, o) ==
    /\ HasFiles(vendor, o.g)
    /\ \A s \in o.says : Held(o.g, s[1], s[2])
    /\ \A f, v : Held(g, f, v) /\ f \notin o.files => Held(o.g, f, v)
    /\ "level" \in o.files => "level" \in DOMAIN g
    /\ DOMAIN o = {"g", "files", "says", "exit", "skip", "ret"}

(* An outcome without a write, and without a claim or with one that holds. *)
LEMMA QuietHonest ==
    ASSUME NEW vendor, NEW g, HasFiles(vendor, g)
    PROVE  /\ Honest(vendor, g, Quiet(g)) /\ Honest(vendor, g, Fails(g)) /\ Honest(vendor, g, SkipsRest(g))
           /\ \A code : Honest(vendor, g, Exits(g, code))
           /\ \A f, v : Held(g, f, v) => /\ Honest(vendor, g, Says(g, f, v))
                                        /\ Honest(vendor, g, [Says(g, f, v) EXCEPT !.skip = TRUE])
  BY DEF Honest, Quiet, Fails, SkipsRest, Exits, Says, Outcome

(* A write of a file that is a field of the GPU.                           *)
LEMMA FieldHonest ==
    ASSUME NEW vendor, NEW g, HasFiles(vendor, g),
           NEW f \in Files \ {"cap1", "cap2"}, f \in DOMAIN g, NEW v
    PROVE  Honest(vendor, g, Outcome([g EXCEPT ![f] = v], {f}, {<<f, v>>}))
  <1> DEFINE h == [g EXCEPT ![f] = v]
  <1>1. DOMAIN h = DOMAIN g /\ h[f] = v /\ \A x \in DOMAIN g : x # f => h[x] = g[x]
    OBVIOUS
  <1>2. "ppt" \in DOMAIN g => h.ppt = g.ppt
    BY <1>1 DEF Files
  <1> HIDE DEF h
  <1>3. HasFiles(vendor, h)
    BY <1>1, <1>2 DEF HasFiles
  <1>4. Held(h, f, v)
    BY <1>1 DEF Held, HoldsIn, Files
  <1>5. \A e, w : Held(g, e, w) /\ e # f => Held(h, e, w)
    BY <1>1, <1>2 DEF Held, HoldsIn, Files
  <1>6. Honest(vendor, g, Outcome(h, {f}, {<<f, v>>}))
    BY <1>1, <1>3, <1>4, <1>5 DEF Honest, Outcome
  <1> QED
    BY <1>6 DEF h

(* A write of the cap of a PPT sensor.                                     *)
LEMMA CapHonest ==
    ASSUME NEW vendor, vendor # "nvidia", NEW g, HasFiles(vendor, g),
           NEW s \in DOMAIN g.ppt, NEW f, f = IF s = 1 THEN "cap1" ELSE "cap2", NEW w
    PROVE  Honest(vendor, g, Outcome(Capped(g, s, w), {f}, {<<f, w>>}))
  <1> DEFINE h == Capped(g, s, w)
  <1>0. "ppt" \in DOMAIN g /\ s \in {1, 2} /\ "cap" \in DOMAIN g.ppt[s]
    BY DEF HasFiles
  <1>1. /\ DOMAIN h = DOMAIN g /\ \A x \in DOMAIN g : x # "ppt" => h[x] = g[x]
        /\ DOMAIN h.ppt = DOMAIN g.ppt /\ \A r \in DOMAIN g.ppt : r # s => h.ppt[r] = g.ppt[r]
        /\ DOMAIN h.ppt[s] = DOMAIN g.ppt[s] /\ h.ppt[s].cap = w
    BY <1>0 DEF Capped
  <1> HIDE DEF h
  <1>2. HasFiles(vendor, h)
    BY <1>1 DEF HasFiles
  <1>3. Held(h, f, w)
    BY <1>0, <1>1 DEF Held, HoldsIn, Files
  <1>4. \A e, v : Held(g, e, v) /\ e # f => Held(h, e, v)
    <2> SUFFICES ASSUME NEW e, NEW v, Held(g, e, v), e # f PROVE Held(h, e, v)
      OBVIOUS
    <2>1. CASE e = "cap1"
      BY <1>0, <1>1, <2>1 DEF Held, HoldsIn
    <2>2. CASE e = "cap2"
      BY <1>0, <1>1, <2>2 DEF Held, HoldsIn
    <2>3. CASE e \notin {"cap1", "cap2"}
      BY <1>0, <1>1, <2>3 DEF Held, HoldsIn, Files
    <2> QED
      BY <2>1, <2>2, <2>3
  <1>5. Honest(vendor, g, Outcome(h, {f}, {<<f, w>>}))
    BY <1>0, <1>2, <1>3, <1>4 DEF Honest, Outcome
  <1> QED
    BY <1>5 DEF h

(* The level, and a file after it.                                         *)
LEMMA LevelHonest ==
    ASSUME NEW vendor, NEW g, HasFiles(vendor, g), "level" \in DOMAIN g,
           NEW f \in {"profile", "od"}, f \in DOMAIN g, NEW v
    PROVE  /\ Honest(vendor, g, Outcome([g EXCEPT !.level = "manual"], {"level"}, {}))
           /\ Honest(vendor, g, Outcome([g EXCEPT !.level = "manual", ![f] = v], {"level", f}, {<<f, v>>}))
  <1> DEFINE h == [g EXCEPT !.level = "manual"]
             i == [h EXCEPT ![f] = v]
  <1>1. Honest(vendor, g, Outcome(h, {"level"}, {<<"level", "manual">>}))
    BY FieldHonest DEF Files
  <1>2. Honest(vendor, g, Outcome(h, {"level"}, {}))
    BY <1>1 DEF Honest, Outcome
  <1>3. HasFiles(vendor, h) /\ f \in DOMAIN h
    BY <1>2 DEF Honest, Outcome
  <1>4. \A e, w : Held(g, e, w) /\ e # "level" => Held(h, e, w)
    BY <1>2 DEF Honest, Outcome
  <1> HIDE DEF h
  <1>5. Honest(vendor, h, Outcome(i, {f}, {<<f, v>>}))
    BY <1>3, FieldHonest DEF Files
  <1> HIDE DEF i
  <1>6. Honest(vendor, g, Outcome(i, {"level", f}, {<<f, v>>}))
    BY <1>4, <1>5 DEF Honest, Outcome
  <1> QED
    BY <1>2, <1>6 DEF h, i

(* Every PPT back to its default.                                          *)
LEMMA ResetHonest ==
    ASSUME NEW vendor, vendor # "nvidia", NEW g, HasFiles(vendor, g), NEW k
    PROVE  Honest(vendor, g, resetPowerCap72(k, g))
  <1> DEFINE h == [g EXCEPT !.ppt = [s \in DOMAIN g.ppt |-> [g.ppt[s] EXCEPT !.cap = g.ppt[s].def]]]
             files == {IF s = 1 THEN "cap1" ELSE "cap2" : s \in DOMAIN g.ppt}
             says == {<<IF s = 1 THEN "cap1" ELSE "cap2", g.ppt[s].def>> : s \in DOMAIN g.ppt}
  <1>0. "ppt" \in DOMAIN g /\ DOMAIN g.ppt \subseteq {1, 2} /\ (\A s \in DOMAIN g.ppt : "cap" \in DOMAIN g.ppt[s])
    BY DEF HasFiles
  <1>1. /\ DOMAIN h = DOMAIN g /\ \A x \in DOMAIN g : x # "ppt" => h[x] = g[x]
        /\ DOMAIN h.ppt = DOMAIN g.ppt
        /\ \A s \in DOMAIN g.ppt : DOMAIN h.ppt[s] = DOMAIN g.ppt[s] /\ h.ppt[s].cap = g.ppt[s].def
    BY <1>0
  <1> HIDE DEF h
  <1>2. CASE g.ppt = <<>> \/ ~k.root
    BY <1>2, QuietHonest DEF resetPowerCap72
  <1>3. CASE g.ppt # <<>> /\ k.root
    <2>1. HasFiles(vendor, h)
      BY <1>1, <1>3 DEF HasFiles
    <2>2. \A s \in says : Held(h, s[1], s[2])
      <3> SUFFICES ASSUME NEW s \in DOMAIN g.ppt PROVE Held(h, IF s = 1 THEN "cap1" ELSE "cap2", g.ppt[s].def)
        OBVIOUS
      <3> QED
        BY <1>0, <1>1 DEF Held, HoldsIn, Files
    <2>3. \A f, v : Held(g, f, v) /\ f \notin files => Held(h, f, v)
      <3> SUFFICES ASSUME NEW f, NEW v, Held(g, f, v), f \notin files PROVE Held(h, f, v)
        OBVIOUS
      <3>1. f # "cap1"
        BY DEF Held
      <3>2. f # "cap2"
        BY DEF Held
      <3> HIDE DEF files
      <3> QED
        BY <1>0, <1>1, <3>1, <3>2 DEF Held, HoldsIn, Files
    <2>4. "level" \notin files
      OBVIOUS
    <2> HIDE DEF files, says
    <2>5. Honest(vendor, g, Outcome(h, files, says))
      BY <2>1, <2>2, <2>3, <2>4 DEF Honest, Outcome
    <2> QED
      BY <1>3, <2>5 DEF resetPowerCap72, h, files, says
  <1> QED
    BY <1>2, <1>3

(* Every option of every tool is honest about the GPUs of its vendor.      *)
LEMMA ToolHonest ==
    ASSUME NEW vendor, NEW g, HasFiles(vendor, g), NEW r, NEW opt,
           (r.k.tool = "nvidia-smi") <=> (vendor = "nvidia")
    PROVE  Honest(vendor, g, tool(r, opt, g))
  <1> DEFINE k == r.k
  <1> USE QuietHonest
  <1>1. CASE vendor = "nvidia"
    <2> DEFINE f == nvFile(k.opt)
               v == IF k.opt = "rgc" THEN 0 ELSE k.v
    <2>1. f \in {"limit", "pm", "lock"} /\ f \in DOMAIN g
      BY <1>1 DEF nvFile, HasFiles
    <2>2. Honest(vendor, g, Outcome([g EXCEPT ![f] = v], {f}, {<<f, v>>}))
      BY <2>1, FieldHonest DEF Files
    <2>3. Honest(vendor, g, nvSet(k, g))
      BY <2>2 DEF nvSet, nvWritten
    <2> QED
      BY <1>1, <2>3 DEF tool
  <1>2. CASE vendor # "nvidia"
    <2>0. {"level", "profile", "od", "ppt"} \subseteq DOMAIN g /\ (g.ppt = <<>> \/ 1 \in DOMAIN g.ppt)
      BY <1>2 DEF HasFiles
    <2>1. \A w : Honest(vendor, g, setPowerOverDrive(k, g, w))
      <3> TAKE w
      <3>1. g.ppt # <<>> => \A new : Honest(vendor, g, Outcome(Capped(g, 1, new), {"cap1"}, {<<"cap1", new>>}))
        BY <1>2, <2>0, CapHonest
      <3> QED
        BY <3>1 DEF setPowerOverDrive
    <2>2. Honest(vendor, g, rocmSetPerfLevel(k, g)) /\ Honest(vendor, g, amdSetPerfLevel(k, g))
      <3>1. Honest(vendor, g, Outcome([g EXCEPT !.level = k.word], {"level"}, {<<"level", k.word>>}))
        BY <2>0, FieldHonest DEF Files
      <3> QED
        BY <3>1 DEF rocmSetPerfLevel, amdSetPerfLevel
    <2>3. Honest(vendor, g, setProfile(k, g))
      <3>1. Honest(vendor, g, Outcome([g EXCEPT !.level = "manual", !.profile = k.word], {"level", "profile"}, {<<"profile", k.word>>}))
        BY <2>0, LevelHonest
      <3>2. k.word = g.profile => Honest(vendor, g, [Says(g, "profile", k.word) EXCEPT !.skip = TRUE])
        <4>1. k.word = g.profile => Held(g, "profile", k.word)
          BY <2>0 DEF Held, HoldsIn, Files
        <4> QED
          BY <4>1
      <3> QED
        BY <3>1, <3>2 DEF setProfile
    <2>4. Honest(vendor, g, setPowerCap(k, g))
      <3> DEFINE f == IF k.sensor = 1 THEN "cap1" ELSE "cap2"
      <3>1. k.sensor \in DOMAIN g.ppt => Honest(vendor, g, Outcome(Capped(g, k.sensor, k.v), {f}, {<<f, k.v>>}))
        BY <1>2, CapHonest
      <3>2. k.sensor \in DOMAIN g.ppt /\ k.v = g.ppt[k.sensor].cap => Held(g, f, k.v)
        BY <1>2, <2>0 DEF HasFiles, Held, HoldsIn, Files
      <3> HIDE DEF f
      <3>3. k.sensor \in DOMAIN g.ppt /\ k.v = g.ppt[k.sensor].cap => Honest(vendor, g, Says(g, f, k.v))
        BY <3>2
      <3> QED
        BY <3>1, <3>3 DEF setPowerCap, f
    <2>5. Honest(vendor, g, resetPowerCap71(k, g))
      <3>1. g.ppt # <<>> => Honest(vendor, g, Outcome(Capped(g, 1, g.ppt[1].def), {"cap1"}, {<<"cap1", g.ppt[1].def>>}))
        BY <1>2, <2>0, CapHonest
      <3>2. g.ppt # <<>> /\ g.ppt[1].cap = g.ppt[1].def => Held(g, "cap1", g.ppt[1].def)
        BY <2>0 DEF Held, HoldsIn, Files
      <3> QED
        BY <3>1, <3>2 DEF resetPowerCap71
    <2>6. Honest(vendor, g, resetPowerCap72(k, g))
      BY <1>2, ResetHonest
    <2>7. Honest(vendor, g, setClkLimit(k, g))
      <3> DEFINE od == <<k.word, k.v>>
                 manual == Outcome([g EXCEPT !.level = "manual"], {"level"}, {})
                 limit == Outcome([g EXCEPT !.level = "manual", !.od = od], {"level", "od"}, {<<"od", od>>})
      <3>1. Honest(vendor, g, manual)
        BY <2>0, LevelHonest
      <3>2. Honest(vendor, g, limit)
        BY <2>0, LevelHonest
      <3>3. setClkLimit(k, g) \in {Quiet(g), Exits(g, 1), manual, limit}
        BY DEF setClkLimit
      <3> HIDE DEF manual, limit
      <3> QED
        BY <3>1, <3>2, <3>3
    <2> QED
      BY <1>2, <2>1, <2>2, <2>3, <2>4, <2>5, <2>6, <2>7 DEF tool
  <1> QED
    BY <1>1, <1>2

(* A failed write says nothing, and may have set the level.                *)
LEMMA BrokenHonest ==
    ASSUME NEW vendor, NEW g, HasFiles(vendor, g), NEW r, NEW o, Honest(vendor, g, o)
    PROVE  Honest(vendor, g, Broken(r, o, g))
  <1> DEFINE part == IF "level" \in o.files /\ Cardinality(o.files) = 2 THEN [g EXCEPT !.level = "manual"] ELSE g
             b == Broken(r, o, g)
  <1>1. /\ b.g = part /\ b.says = {} /\ b.files = IF part = g THEN {} ELSE {"level"}
        /\ DOMAIN b = {"g", "files", "says", "exit", "skip", "ret"}
    BY DEF Broken, Honest
  <1> HIDE DEF b
  <1>2. ASSUME part = g PROVE Honest(vendor, g, b)
    BY <1>1, <1>2 DEF Honest
  <1>3. ASSUME part # g PROVE Honest(vendor, g, b)
    <2>1. part = [g EXCEPT !.level = "manual"] /\ "level" \in DOMAIN g
      BY <1>3 DEF Honest
    <2>2. Honest(vendor, g, Outcome(part, {"level"}, {<<"level", "manual">>}))
      BY <2>1, FieldHonest DEF Files
    <2> HIDE DEF part
    <2> QED
      BY <1>1, <1>3, <2>1, <2>2 DEF Honest, Outcome
  <1> QED
    BY <1>2, <1>3 DEF b

-----------------------------------------------------------------------------
(* The invariant: every claim is held, and a call that runs is of a tool   *)
(* of the node's vendor and has only GPUs of the node before it.           *)

RunSound(vendor, gpus, r) ==
    r.stage = "runs" =>
        /\ DOMAIN r = {"stage", "k", "todo", "ret", "wrote", "want"}
        /\ (r.k.tool = "nvidia-smi") <=> (vendor = "nvidia")
        /\ \E O : r.todo \in Seq(O \X gpus)

SmiInv ==
    /\ \A k \in Commands[smiNode.vendor] : k.sel \in Seq(Nat)
    /\ Len(smiDev) \in Nat /\ DOMAIN smiDev = 1..Len(smiDev)
    /\ \A d \in DOMAIN smiDev : HasFiles(smiNode.vendor, smiDev[d])
    /\ DOMAIN smiRun = Callers
    /\ \A c \in Callers : RunSound(smiNode.vendor, DOMAIN smiDev, smiRun[c])
    /\ \A s \in smiSaid : s[1] \in DOMAIN smiDev /\ Held(smiDev[s[1]], s[2], s[3])

(* The invariant gives the property.                                       *)
LEMMA SmiInvSays == SmiInv => SaidIsHeld
  BY DEF SmiInv, SaidIsHeld, Held, HoldsIn, Holds, Files

(* No tool has said anything at first.                                     *)
LEMMA SmiInitInv == SmiInit => SmiInv
  <1> SUFFICES ASSUME SmiInit PROVE SmiInv
    OBVIOUS
  <1>1. PICK s \in Racks : smiNode = [vendor |-> s.vendor, tools |-> s.tools, broken |-> s.broken] /\ smiDev = s.dev
    BY DEF SmiInit
  <1>2. \A c \in Callers : smiRun[c].stage = "idle"
    BY DEF SmiInit, Idle
  <1> QED
    BY <1>1, <1>2, SmiAssumption DEF SmiInit, SmiInv, RunSound

(* The steps of a call that came to its devices.                           *)
LEMMA StepsSound ==
    ASSUME SmiInv, NEW k \in Commands[smiNode.vendor], Main(k) = Going
    PROVE  /\ (k.tool = "nvidia-smi") <=> (smiNode.vendor = "nvidia")
           /\ \E O : Steps(k) \in Seq(O \X DOMAIN smiDev)
  <1> DEFINE N == DOMAIN smiDev
             O == {k.opt, "setperflevel", "setpoweroverdrive", "resetpoweroverdrive", "setprofile"}
             d == Devices(k)
             each(opt) == [i \in DOMAIN d |-> <<opt, d[i]>>]
  <1>1. /\ usage(k) = 0
        /\ Gpus(k) # <<>>
        /\ AllFound(k)
    <2>1. \A g : noDevice(g) # Going
      BY DEF noDevice, Going
    <2>2. Going # 127
      BY DEF Going
    <2>3. usage(k) # Going
      BY DEF usage, Going
    <2> QED
      BY <2>1, <2>2, <2>3, 0 # Going DEF Main
  <1>2. (k.tool = "nvidia-smi") <=> (smiNode.vendor = "nvidia")
    BY <1>1 DEF Gpus
  <1>3. d \in Seq(N)
    <2>1. CASE k.sel = <<>>
      BY <2>1 DEF Devices, SmiInv
    <2>2. CASE k.sel # <<>>
      <3>1. k.sel \in Seq(Nat) /\ \A i \in DOMAIN k.sel : k.sel[i] \in N
        BY <1>1 DEF SmiInv, AllFound
      <3> QED
        BY <2>2, <3>1 DEF Devices
    <2> QED
      BY <2>1, <2>2
  <1> HIDE DEF d, N
  <1>4. \A opt \in O : each(opt) \in Seq(O \X N)
    <2> TAKE opt \in O
    <2>1. DOMAIN d = 1..Len(d) /\ Len(d) \in Nat /\ \A i \in 1..Len(d) : d[i] \in N
      BY <1>3
    <2> HIDE DEF O
    <2> QED
      BY <2>1
  <1> DEFINE given(i) == IF \E j \in DOMAIN k.opts : k.opts[j] = Order[i] THEN each(Order[i]) ELSE <<>>
  <1>5. \A i \in 1..4 : given(i) \in Seq(O \X N)
    <2>1. \A i \in 1..4 : Order[i] \in O
      BY DEF Order
    <2>2. <<>> \in Seq(O \X N)
      OBVIOUS
    <2> HIDE DEF O, each
    <2> QED
      BY <1>4, <2>1, <2>2
  <1>6. each(k.opt) \in Seq(O \X N)
    BY <1>4
  <1>7. Steps(k) \in {each(k.opt), given(1) \o given(2) \o given(3) \o given(4)}
    BY DEF Steps, d
  <1>8. given(1) \o given(2) \o given(3) \o given(4) \in Seq(O \X N)
    <2>1. given(1) \in Seq(O \X N) /\ given(2) \in Seq(O \X N) /\ given(3) \in Seq(O \X N) /\ given(4) \in Seq(O \X N)
      BY <1>5
    <2> HIDE DEF given, O
    <2> QED
      BY <2>1, ConcatProperties
  <1>9. Steps(k) \in Seq(O \X N)
    <2> HIDE DEF given, O, each
    <2> QED
      BY <1>6, <1>7, <1>8
  <1> HIDE DEF O
  <1> QED
    BY <1>2, <1>9 DEF N

(* A step that changes the call of one caller, and neither a file nor a    *)
(* claim.                                                                  *)
LEMMA CallerStep ==
    ASSUME SmiInv, NEW c \in Callers, NEW r, RunSound(smiNode.vendor, DOMAIN smiDev, r),
           smiRun' = [smiRun EXCEPT ![c] = r], UNCHANGED <<smiNode, smiDev, smiSaid>>
    PROVE  SmiInv'
  <1>1. DOMAIN smiRun' = Callers /\ \A e \in Callers : RunSound(smiNode.vendor, DOMAIN smiDev, smiRun'[e])
    BY DEF SmiInv
  <1> QED
    BY <1>1 DEF SmiInv

(* A call begins, or is refused, and says nothing yet.                     *)
LEMMA CallsKeep ==
    ASSUME SmiInv, NEW c \in Callers, NEW k \in Commands[smiNode.vendor], Calls(c, k)
    PROVE  SmiInv'
  <1> DEFINE r == [stage |-> "runs", k |-> k, todo |-> Steps(k), ret |-> FALSE, wrote |-> {}, want |-> Wanted(k)]
             e == Done(k, Main(k), {}, {})
  <1>1. RunSound(smiNode.vendor, DOMAIN smiDev, e)
    BY DEF RunSound, Done
  <1>2. Main(k) = Going => RunSound(smiNode.vendor, DOMAIN smiDev, r)
    <2> SUFFICES ASSUME Main(k) = Going PROVE RunSound(smiNode.vendor, DOMAIN smiDev, r)
      OBVIOUS
    <2>1. /\ (k.tool = "nvidia-smi") <=> (smiNode.vendor = "nvidia")
          /\ \E O : Steps(k) \in Seq(O \X DOMAIN smiDev)
      BY StepsSound
    <2>2. r.k = k /\ r.todo = Steps(k) /\ DOMAIN r = {"stage", "k", "todo", "ret", "wrote", "want"}
      OBVIOUS
    <2> HIDE DEF r
    <2> QED
      BY <2>1, <2>2 DEF RunSound
  <1> HIDE DEF r, e
  <1>3. smiRun' = [smiRun EXCEPT ![c] = IF Main(k) # Going THEN e ELSE r] /\ UNCHANGED <<smiNode, smiDev, smiSaid>>
    BY DEF Calls, e, r
  <1> QED
    BY <1>1, <1>2, <1>3, CallerStep

(* A call that ends says nothing more.                                     *)
LEMMA EndsKeep ==
    ASSUME SmiInv, NEW c \in Callers, Ends(c) \/ Struck(c)
    PROVE  SmiInv'
  <1>1. CASE Ends(c)
    <2> DEFINE r == Done(smiRun[c].k, IF smiRun[c].ret /\ smiRun[c].k.loud THEN 1 ELSE 0, smiRun[c].wrote, smiRun[c].want)
    <2>1. RunSound(smiNode.vendor, DOMAIN smiDev, r)
      BY DEF RunSound, Done
    <2>2. smiRun' = [smiRun EXCEPT ![c] = r] /\ UNCHANGED <<smiNode, smiDev, smiSaid>>
      BY <1>1 DEF Ends
    <2> HIDE DEF r
    <2> QED
      BY <2>1, <2>2, CallerStep
  <1>2. CASE Struck(c)
    <2>1. RunSound(smiNode.vendor, DOMAIN smiDev, Idle)
      BY DEF RunSound, Idle
    <2>2. smiRun' = [smiRun EXCEPT ![c] = Idle] /\ UNCHANGED <<smiNode, smiDev, smiSaid>>
      BY <1>2 DEF Struck
    <2> QED
      BY <2>1, <2>2, CallerStep
  <1> QED
    BY <1>1, <1>2

(* One device of a call.  Another caller's claims about the files that are *)
(* written go; the rest still hold.                                        *)
LEMMA WorksKeep ==
    ASSUME SmiInv, NEW c \in Callers, Works(c)
    PROVE  SmiInv'
  <1> DEFINE r == smiRun[c]
             d == Head(r.todo)[2]
             o == tool(r, Head(r.todo)[1], smiDev[d])
             vendor == smiNode.vendor
             after(out) == IF out.exit # Going THEN Done(r.k, out.exit, r.wrote \cup (IF out.files = {} THEN {} ELSE {d}), r.want)
                           ELSE [r EXCEPT !.todo = IF out.skip THEN <<>> ELSE Tail(@),
                                          !.wrote = r.wrote \cup (IF out.files = {} THEN {} ELSE {d}), !.ret = @ \/ out.ret]
  <1>1. r.stage = "runs" /\ r.todo # <<>> /\ RunSound(vendor, DOMAIN smiDev, r)
    BY DEF Works, SmiInv
  <1>2. PICK O : r.todo \in Seq(O \X DOMAIN smiDev)
    BY <1>1 DEF RunSound
  <1>3. d \in DOMAIN smiDev /\ Tail(r.todo) \in Seq(O \X DOMAIN smiDev)
    <2>1. Head(r.todo) \in O \X DOMAIN smiDev /\ Tail(r.todo) \in Seq(O \X DOMAIN smiDev)
      BY <1>1, <1>2
    <2> QED
      BY <2>1
  <1>4. HasFiles(vendor, smiDev[d])
    BY <1>3 DEF SmiInv
  <1>5. Honest(vendor, smiDev[d], o)
    BY <1>1, <1>4, ToolHonest DEF RunSound
  <1>6. Honest(vendor, smiDev[d], Broken(r, o, smiDev[d]))
    BY <1>4, <1>5, BrokenHonest
  <1>7. PICK out \in {o, Broken(r, o, smiDev[d])} :
           /\ smiDev' = [smiDev EXCEPT ![d] = out.g]
           /\ smiSaid' = Said(d, out)
           /\ smiRun' = [smiRun EXCEPT ![c] = after(out)]
           /\ smiNode' = smiNode
    BY DEF Works
  <1> HIDE DEF o, d
  <1>8. Honest(vendor, smiDev[d], out)
    BY <1>5, <1>6, <1>7
  <1>9. RunSound(vendor, DOMAIN smiDev, after(out))
    <2>1. CASE out.exit # Going
      BY <2>1 DEF RunSound, Done
    <2>2. CASE out.exit = Going
      <3>1. DOMAIN r = {"stage", "k", "todo", "ret", "wrote", "want"} /\ ((r.k.tool = "nvidia-smi") <=> (vendor = "nvidia"))
        BY <1>1 DEF RunSound
      <3> HIDE DEF r
      <3>2. /\ DOMAIN after(out) = DOMAIN r /\ after(out).k = r.k
            /\ after(out).todo = IF out.skip THEN <<>> ELSE Tail(r.todo)
        BY <2>2, <3>1
      <3> HIDE DEF after
      <3>3. after(out).todo \in Seq(O \X DOMAIN smiDev)
        <4>1. <<>> \in Seq(O \X DOMAIN smiDev)
          OBVIOUS
        <4> QED
          BY <1>3, <3>2, <4>1
      <3> QED
        BY <3>1, <3>2, <3>3 DEF RunSound
    <2> QED
      BY <2>1, <2>2
  <1> HIDE DEF after, r
  <1>10. DOMAIN smiRun' = Callers /\ \A e \in Callers : RunSound(vendor, DOMAIN smiDev, smiRun'[e])
    BY <1>7, <1>9 DEF SmiInv
  <1>11. /\ DOMAIN smiDev' = DOMAIN smiDev /\ Len(smiDev') = Len(smiDev) /\ smiDev'[d] = out.g
         /\ \A e \in DOMAIN smiDev : e # d => smiDev'[e] = smiDev[e]
    BY <1>3, <1>7 DEF SmiInv
  <1>12. \A e \in DOMAIN smiDev : HasFiles(vendor, smiDev'[e])
    BY <1>8, <1>11 DEF SmiInv, Honest
  <1>13. \A s \in smiSaid' : s[1] \in DOMAIN smiDev /\ Held(smiDev'[s[1]], s[2], s[3])
    <2> SUFFICES ASSUME NEW s \in Said(d, out) PROVE s[1] \in DOMAIN smiDev /\ Held(smiDev'[s[1]], s[2], s[3])
      BY <1>7
    <2>1. CASE s \in smiSaid /\ ~(s[1] = d /\ s[2] \in out.files)
      <3>1. s[1] \in DOMAIN smiDev /\ Held(smiDev[s[1]], s[2], s[3])
        BY <2>1 DEF SmiInv
      <3>2. CASE s[1] = d
        BY <1>8, <1>11, <2>1, <3>1, <3>2 DEF Honest
      <3>3. CASE s[1] # d
        BY <1>11, <3>1, <3>3
      <3> QED
        BY <3>2, <3>3
    <2>2. CASE \E x \in out.says : s = <<d, x[1], x[2]>>
      <3>1. PICK x \in out.says : s = <<d, x[1], x[2]>>
        BY <2>2
      <3>2. s[1] = d /\ s[2] = x[1] /\ s[3] = x[2]
        BY <3>1
      <3>3. Held(out.g, x[1], x[2])
        BY <1>8 DEF Honest
      <3> QED
        BY <1>3, <1>11, <3>2, <3>3
    <2> QED
      BY <2>1, <2>2 DEF Said
  <1> QED
    BY <1>7, <1>10, <1>11, <1>12, <1>13 DEF SmiInv

(* Every step of every caller keeps the invariant.                         *)
LEMMA SmiNextInv == SmiInv /\ [SmiNext]_smiVars => SmiInv'
  <1> SUFFICES ASSUME SmiInv, [SmiNext]_smiVars PROVE SmiInv'
    OBVIOUS
  <1>1. CASE SmiNext
    <2>1. PICK c \in Callers : \/ \E k \in Commands[smiNode.vendor] : Calls(c, k)
                               \/ Works(c) \/ Ends(c) \/ Struck(c)
      BY <1>1 DEF SmiNext
    <2> QED
      BY <2>1, CallsKeep, WorksKeep, EndsKeep
  <1>2. CASE UNCHANGED smiVars
    BY <1>2 DEF SmiInv, smiVars
  <1> QED
    BY <1>1, <1>2

(* What a vendor tool says of a GPU is what the file holds until the next  *)
(* write of it, by any caller and for every rack, set of commands, failed  *)
(* write and killed call.                                                  *)
THEOREM ToolsSayTheTruth == SmiSpec => []SaidIsHeld
  BY SmiInitInv, SmiNextInv, SmiInvSays, PTL DEF SmiSpec

-----------------------------------------------------------------------------
(* The workload run (WorkloadRun).                                         *)

(* A fold of the answers stays in a set that its steps keep.               *)
LEMMA AnswersStay ==
    ASSUME NEW in, NEW j, NEW V, job[j] \in V, IsFiniteSet(AnswersFor(in, j)),
           \A a \in AnswersFor(in, j) : \A r \in V : applyResult(a, r) \in V
    PROVE  applyResults(in, j) \in V
  <1> DEFINE S == AnswersFor(in, j)
             base == job[j]
             c == [s \in SUBSET S |-> CHOOSE x \in s : TRUE]
             F == [p \in S \X V |-> applyResult(p[1], p[2])]
             Folded(g) == g = [s \in SUBSET S |->
                                IF s = {} THEN base
                                ELSE applyResult(CHOOSE x \in s : TRUE, g[s \ {CHOOSE x \in s : TRUE}])]
             it == CHOOSE g : Folded(g)
  <1>1. TakesOne(c, S)
    BY PickTakes
  <1>2. \A s \in SUBSET S : c[s] = CHOOSE x \in s : TRUE
    OBVIOUS
  <1>3. \A x \in S : \A v \in V : F[<<x, v>>] = applyResult(x, v) /\ F[<<x, v>>] \in V
    OBVIOUS
  <1>4. base \in V /\ IsFiniteSet(S)
    OBVIOUS
  <1>5. \E g : Folded(g)
    <2> HIDE DEF S, c, F, base
    <2>1. PICK g : Folding(base, c, F, S, g)
      BY <1>1, <1>4, FoldingExists
    <2>2. g[{}] = base /\ \A s \in SUBSET S : s # {} => g[s] = F[<<c[s], g[s \ {c[s]}]>>]
      BY <2>1 DEF Folding
    <2>3. \A s \in SUBSET S : s # {} /\ g[s \ {c[s]}] \in V => g[s] \in V
      BY <1>1, <1>3, <2>2 DEF TakesOne
    <2>4. \A s \in SUBSET S : g[s] \in V
      BY <1>1, <1>4, <2>2, <2>3, FoldingStays
    <2>5. \A s \in SUBSET S : s # {} => F[<<c[s], g[s \ {c[s]}]>>] = applyResult(c[s], g[s \ {c[s]}])
      BY <1>1, <1>3, <2>4 DEF TakesOne
    <2>6. g = [s \in SUBSET S |-> IF s = {} THEN base ELSE applyResult(c[s], g[s \ {c[s]}])]
      BY <2>1, <2>5 DEF Folding
    <2>7. Folded(g)
      BY <1>2, <2>6
    <2> QED
      BY <2>7
  <1>6. Folded(it)
    BY <1>5
  <1>7. applyResults(in, j) = it[S]
    BY DEF applyResults, FoldSet, MapThenFoldSet
  <1> HIDE DEF it
  <1>8. it[{}] = base /\ \A s \in SUBSET S : s # {} => it[s] = applyResult(c[s], it[s \ {c[s]}])
    <2> HIDE DEF S, base
    <2> QED
      BY <1>2, <1>6
  <1> HIDE DEF c, F, Folded, S, base
  <1>9. ASSUME NEW s \in SUBSET S, s # {}, it[s \ {c[s]}] \in V
        PROVE  it[s] \in V
    <2>1. c[s] \in S
      BY <1>1, <1>9 DEF TakesOne
    <2>2. applyResult(c[s], it[s \ {c[s]}]) \in V
      BY <1>3, <1>9, <2>1
    <2> QED
      BY <1>8, <1>9, <2>2
  <1>10. \A s \in SUBSET S : s # {} /\ it[s \ {c[s]}] \in V => it[s] \in V
    BY <1>9
  <1> QED
    BY <1>1, <1>4, <1>7, <1>8, <1>10, FoldingStays

(* So does a fold of the pod changes.                                      *)
LEMMA PodsStay ==
    ASSUME NEW base, NEW seq, NEW V, base \in V, DOMAIN seq \in SUBSET Int, IsFiniteSet(DOMAIN seq),
           \A i \in DOMAIN seq : \A r \in V : applyPod(r, seq[i]) \in V
    PROVE  FoldLeft(applyPod, base, seq) \in V
  <1> DEFINE S == DOMAIN seq
             c == [s \in SUBSET S |-> Max(s)]
             F == [p \in S \X V |-> applyPod(p[2], seq[p[1]])]
             Folded(g) == g = [s \in SUBSET S |->
                                IF s = {} THEN base ELSE applyPod(g[s \ {Max(s)}], seq[Max(s)])]
             it == CHOOSE g : Folded(g)
  <1>1. TakesOne(c, S)
    BY MaxTakes
  <1>2. \A s \in SUBSET S : c[s] = Max(s)
    OBVIOUS
  <1>3. \A x \in S : \A v \in V : F[<<x, v>>] = applyPod(v, seq[x]) /\ F[<<x, v>>] \in V
    OBVIOUS
  <1>4. base \in V /\ IsFiniteSet(S)
    OBVIOUS
  <1>5. \E g : Folded(g)
    <2> HIDE DEF S, c, F
    <2>1. PICK g : Folding(base, c, F, S, g)
      BY <1>1, <1>4, FoldingExists
    <2>2. g[{}] = base /\ \A s \in SUBSET S : s # {} => g[s] = F[<<c[s], g[s \ {c[s]}]>>]
      BY <2>1 DEF Folding
    <2>3. \A s \in SUBSET S : s # {} /\ g[s \ {c[s]}] \in V => g[s] \in V
      BY <1>1, <1>3, <2>2 DEF TakesOne
    <2>4. \A s \in SUBSET S : g[s] \in V
      BY <1>1, <1>4, <2>2, <2>3, FoldingStays
    <2>5. \A s \in SUBSET S : s # {} => F[<<c[s], g[s \ {c[s]}]>>] = applyPod(g[s \ {c[s]}], seq[c[s]])
      BY <1>1, <1>3, <2>4 DEF TakesOne
    <2>6. g = [s \in SUBSET S |-> IF s = {} THEN base ELSE applyPod(g[s \ {c[s]}], seq[c[s]])]
      BY <2>1, <2>5 DEF Folding
    <2>7. Folded(g)
      BY <1>2, <2>6
    <2> QED
      BY <2>7
  <1>6. Folded(it)
    BY <1>5
  <1>7. FoldLeft(applyPod, base, seq) = it[S]
    BY DEF FoldLeft, MapThenFoldSet
  <1> HIDE DEF it
  <1>8. it[{}] = base /\ \A s \in SUBSET S : s # {} => it[s] = applyPod(it[s \ {c[s]}], seq[c[s]])
    <2> HIDE DEF S
    <2> QED
      BY <1>2, <1>6
  <1> HIDE DEF c, F, Folded, S
  <1>9. \A s \in SUBSET S : s # {} /\ it[s \ {c[s]}] \in V => it[s] \in V
    BY <1>1, <1>3, <1>8 DEF TakesOne
  <1> QED
    BY <1>1, <1>4, <1>7, <1>8, <1>9, FoldingStays

(* What the records are made of.                                           *)
JobRec == [st : v1State \cup {"Starting"}, uid : Nat, seen : BOOLEAN, node : GpuNodes \cup {NoNode},
           unsched : BOOLEAN, held : Nat, work : Nat, tries : Nat, idle : Nat]
PodRec == [uid : Nat,
           phase : {"none", "Pending", "Unschedulable", "Bound", "Running", "Annotated", "Succeeded", "Failed", "Gone"},
           node : GpuNodes \cup {NoNode}]

(* A job that starts: it runs, as the pod it has, where it is.             *)
Begun(q, k) == k.st = "Running" /\ k.uid = q.uid /\ k.node = q.node /\ k.tries = q.tries

(* One job starts.                                                         *)
LEMMA StartOne ==
    ASSUME NEW K \in [Jobs -> JobRec], NEW j \in Jobs
    PROVE  /\ startJob(j, K) \in [Jobs -> JobRec] /\ Begun(K[j], startJob(j, K)[j])
           /\ \A m \in Jobs : m # j => startJob(j, K)[m] = K[m]
  <1>1. Assign(K, j) \in Nat
    <2>1. Needs[j] \in Nat
      BY RunConstants
    <2> QED
      BY <2>1 DEF Assign
  <1> DEFINE k == [K[j] EXCEPT !.st = "Running", !.held = Assign(K, j), !.idle = 0]
  <1>2. k \in JobRec /\ Begun(K[j], k)
    <2>1. K[j] \in JobRec
      OBVIOUS
    <2> HIDE DEF k
    <2> QED
      BY <1>1, <2>1 DEF k, JobRec, Begun, v1State
  <1>3. startJob(j, K) = [K EXCEPT ![j] = k]
    BY DEF startJob
  <1> HIDE DEF k
  <1> QED
    BY <1>2, <1>3

(* Every job whose pod runs starts, and no other is touched.               *)
LEMMA AllStart ==
    ASSUME NEW J \in [Jobs -> JobRec]
    PROVE  /\ startJobs(J) \in [Jobs -> JobRec]
           /\ \A j \in Jobs : /\ J[j].st = "Starting" => Begun(J[j], startJobs(J)[j])
                              /\ J[j].st # "Starting" => startJobs(J)[j] = J[j]
  <1> DEFINE S == {j \in Jobs : J[j].st = "Starting"}
             Ok(K) == \A j \in Jobs : K[j] = J[j] \/ (j \in S /\ Begun(J[j], K[j]))
             V == {K \in [Jobs -> JobRec] : Ok(K)}
             c == [s \in SUBSET S |-> CHOOSE x \in s : TRUE]
             F == [p \in S \X V |-> startJob(p[1], p[2])]
             Folded(g) == g = [s \in SUBSET S |->
                                IF s = {} THEN J
                                ELSE startJob(CHOOSE x \in s : TRUE, g[s \ {CHOOSE x \in s : TRUE}])]
             it == CHOOSE g : Folded(g)
  <1>0. \A j \in S : \A K \in V : startJob(j, K) \in V
    <2> TAKE j \in S
    <2> TAKE K \in V
    <2>1. K \in [Jobs -> JobRec] /\ j \in Jobs /\ Ok(K)
      OBVIOUS
    <2>2. /\ startJob(j, K) \in [Jobs -> JobRec] /\ Begun(K[j], startJob(j, K)[j])
          /\ \A m \in Jobs : m # j => startJob(j, K)[m] = K[m]
      BY <2>1, StartOne
    <2>3. Begun(J[j], startJob(j, K)[j])
      BY <2>1, <2>2 DEF Begun
    <2>4. Ok(startJob(j, K))
      <3> TAKE m \in Jobs
      <3>1. CASE m = j
        BY <2>3, <3>1
      <3>2. CASE m # j
        BY <2>1, <2>2, <3>2
      <3> QED
        BY <3>1, <3>2
    <2> QED
      BY <2>2, <2>4
  <1>1. TakesOne(c, S)
    BY PickTakes
  <1>2. \A s \in SUBSET S : c[s] = CHOOSE x \in s : TRUE
    OBVIOUS
  <1>4. J \in V /\ IsFiniteSet(S)
    BY RunConstants, FS_Subset
  <1>3. \A x \in S : \A v \in V : F[<<x, v>>] = startJob(x, v) /\ F[<<x, v>>] \in V
    <2> HIDE DEF S, V
    <2> QED
      BY <1>0
  <1>5. \E g : Folded(g)
    <2> HIDE DEF S, c, F, V
    <2>1. PICK g : Folding(J, c, F, S, g)
      BY <1>1, <1>4, FoldingExists
    <2>2. g[{}] = J /\ \A s \in SUBSET S : s # {} => g[s] = F[<<c[s], g[s \ {c[s]}]>>]
      BY <2>1 DEF Folding
    <2>3. \A s \in SUBSET S : s # {} /\ g[s \ {c[s]}] \in V => g[s] \in V
      BY <1>1, <1>3, <2>2 DEF TakesOne
    <2>4. \A s \in SUBSET S : g[s] \in V
      BY <1>1, <1>4, <2>2, <2>3, FoldingStays
    <2>5. \A s \in SUBSET S : s # {} => F[<<c[s], g[s \ {c[s]}]>>] = startJob(c[s], g[s \ {c[s]}])
      BY <1>1, <1>3, <2>4 DEF TakesOne
    <2>6. g = [s \in SUBSET S |-> IF s = {} THEN J ELSE startJob(c[s], g[s \ {c[s]}])]
      BY <2>1, <2>5 DEF Folding
    <2>7. Folded(g)
      BY <1>2, <2>6
    <2> QED
      BY <2>7
  <1>6. Folded(it)
    BY <1>5
  <1>7. startJobs(J) = it[S]
    BY DEF startJobs, FoldSet, MapThenFoldSet
  <1> HIDE DEF it
  <1>8. it[{}] = J /\ \A s \in SUBSET S : s # {} => it[s] = startJob(c[s], it[s \ {c[s]}])
    <2> HIDE DEF S
    <2> QED
      BY <1>2, <1>6
  <1>9. \A s \in SUBSET S : it[s] \in V
    <2> HIDE DEF c, F, Folded, S, V
    <2>1. \A s \in SUBSET S : s # {} /\ it[s \ {c[s]}] \in V => it[s] \in V
      BY <1>1, <1>3, <1>8 DEF TakesOne
    <2> QED
      BY <1>1, <1>4, <1>8, <2>1, FoldingStays
  <1> DEFINE All(s) == \A j \in s : it[s][j].st = "Running"
             G == {s \in SUBSET S : All(s)}
  <1>10. ASSUME NEW s \in SUBSET S, \A u \in SUBSET s : u # s => u \in G
         PROVE  s \in G
    <2>1. CASE s = {}
      BY <2>1
    <2>2. CASE s # {}
      <3> DEFINE r == s \ {c[s]}
      <3>1. c[s] \in s /\ r \in SUBSET s /\ r # s
        BY <1>1, <2>2 DEF TakesOne
      <3>2. r \in G /\ r \in SUBSET S
        BY <1>10, <3>1
      <3>3. it[r] \in [Jobs -> JobRec] /\ c[s] \in Jobs
        <4>1. it[r] \in V
          BY <1>9, <3>2
        <4> QED
          BY <3>1, <4>1
      <3>4. it[s] = startJob(c[s], it[r])
        BY <1>8, <2>2
      <3> HIDE DEF c, r
      <3>5. /\ Begun(it[r][c[s]], it[s][c[s]])
            /\ \A m \in Jobs : m # c[s] => it[s][m] = it[r][m]
        BY <3>3, <3>4, StartOne
      <3>6. All(r)
        BY <3>2
      <3>7. All(s)
        <4> SUFFICES ASSUME NEW m \in s PROVE it[s][m].st = "Running"
          OBVIOUS
        <4>1. CASE m = c[s]
          BY <3>5, <4>1 DEF Begun
        <4>2. CASE m # c[s]
          BY <3>5, <3>6, <4>2 DEF r
        <4> QED
          BY <4>1, <4>2
      <3> QED
        BY <3>7
    <2> QED
      BY <2>1, <2>2
  <1>11. All(S)
    <2>1. \A s \in SUBSET S : s \in G
      <3> HIDE DEF G, S
      <3> QED
        BY <1>4, <1>10, FiniteInduction
    <2> QED
      BY <2>1
  <1>12. it[S] \in V
    BY <1>9
  <1>13. ASSUME NEW j \in Jobs
         PROVE  /\ J[j].st = "Starting" => Begun(J[j], it[S][j])
                /\ J[j].st # "Starting" => it[S][j] = J[j]
    <2>1. it[S][j] = J[j] \/ (j \in S /\ Begun(J[j], it[S][j]))
      BY <1>12
    <2>2. J[j].st = "Starting" => it[S][j].st = "Running"
      BY <1>11
    <2> QED
      BY <2>1, <2>2
  <1> QED
    BY <1>7, <1>12, <1>13

(* A job fails for a cause, and its completion is tried as often as it may. *)
Caused(j, r, h) ==
    /\ r.st = "Failed" => j \in h \/ r.tries = v1CompletionAttempts
    /\ r.tries < v1CompletionAttempts \/ (r.st = "Failed" /\ r.tries = v1CompletionAttempts)

(* The run no longer minds what becomes of the job's pod.                  *)
Late(r) == r.st = "Completing" \/ Terminal(r.st)

Untouched(p) == p.phase \in {"none", "Pending", "Unschedulable", "Bound", "Running"}

Placed(r) == r.st \in {"Running", "Completing", "Starting"} => r.uid # 0 /\ r.node # NoNode

(* The pod of a job is p, and the run has seen or will see those in seen:  *)
(* only a fault or the run's own call ends one, and unless a call deletes  *)
(* it only a fault makes place for a second.                               *)
PodsSound(j, q, p, seen, h) ==
    /\ p.phase = "none" <=> p.uid = 0
    /\ q.uid <= p.uid /\ \A o \in seen : 0 < o.uid /\ o.uid <= p.uid
    /\ j \in h \/ Late(q) \/ (Untouched(p) /\ \A o \in seen : Untouched(o))
    /\ j \in h \/ scene.completion = "delete" \/ (p.uid <= 1 /\ p.phase # "Gone")

AnswerSound(a) ==
    /\ a.kind = "create" /\ a.err = "rejected" => InGroup(a.id) \subseteq hit
    /\ a.kind = "complete" => a.id \in Jobs
    /\ a.kind = "complete" /\ a.err = "notfound" => a.id \in hit \/ Terminal(job[a.id].st)

RunTyped ==
    /\ job \in [Jobs -> JobRec] /\ pods \in [Jobs -> PodRec]
    /\ obs \in [Jobs -> SUBSET PodRec] /\ deferred \in [Jobs -> SUBSET PodRec]
    /\ IsFiniteSet(results) /\ completions \in SUBSET Jobs

JobSound(j) ==
    /\ job[j].st # "Starting" /\ Caused(j, job[j], hit) /\ Placed(job[j])
    /\ PodsSound(j, job[j], pods[j], obs[j] \cup deferred[j], hit)
    /\ IsFiniteSet(obs[j]) /\ IsFiniteSet(deferred[j])
    /\ j \in completions => Late(job[j]) /\ job[j].uid # 0
    /\ j \in loaded => job[j].st # "Completing"

LiveRun ==
    /\ RunTyped /\ cleaning = "none"
    /\ \A a \in results : AnswerSound(a)
    /\ \A j \in Jobs : JobSound(j)

(* The inductive invariant of a run.                                       *)
RunInv == FailedForACause /\ (~Ended => LiveRun)

(* No job has been submitted at first.                                     *)
LEMMA RunInitInv == RunInit => RunInv
  <1> SUFFICES ASSUME RunInit PROVE RunInv
    OBVIOUS
  <1>1. FailedForACause
    BY DEF RunInit, NewJob, FailedForACause
  <1>2. RunTyped
    <2>1. \A j \in Jobs : NewJob(j) \in JobRec
      BY RunConstants DEF NewJob, JobRec, v1State
    <2>2. NoPod \in PodRec
      BY DEF NoPod, PodRec
    <2>3. IsFiniteSet({})
      BY FS_EmptySet
    <2> QED
      BY <2>1, <2>2, <2>3 DEF RunInit, RunTyped
  <1>3. ASSUME NEW j \in Jobs PROVE JobSound(j)
    <2>1. IsFiniteSet({})
      BY FS_EmptySet
    <2>2. /\ job[j].st = "Waiting" /\ job[j].uid = 0 /\ job[j].tries = 0
          /\ pods[j] = NoPod /\ obs[j] = {} /\ deferred[j] = {} /\ completions = {} /\ loaded = {}
      BY DEF RunInit, NewJob
    <2>3. v1CompletionAttempts \in Nat /\ v1CompletionAttempts > 0
      BY RunConstants
    <2>4. Caused(j, job[j], hit) /\ Placed(job[j])
      BY <2>2, <2>3 DEF Caused, Placed
    <2>5. PodsSound(j, job[j], pods[j], obs[j] \cup deferred[j], hit)
      BY <2>2 DEF PodsSound, NoPod, Untouched
    <2> QED
      BY <2>1, <2>2, <2>4, <2>5 DEF JobSound
  <1> QED
    BY <1>1, <1>2, <1>3 DEF RunInit, RunInv, LiveRun

(* The cluster's steps, which change pods and what is seen of them.        *)
LEMMA Observed ==
    ASSUME RunTyped, NEW j \in Jobs, NEW p \in PodRec, PodIs(j, p), JobSound(j), ~Ended
    PROVE  /\ pods' = [pods EXCEPT ![j] = p] /\ pods' \in [Jobs -> PodRec]
           /\ obs' \in [Jobs -> SUBSET PodRec] /\ IsFiniteSet(obs'[j])
           /\ obs'[j] \subseteq obs[j] \cup {p}
           /\ \A m \in Jobs : m # j => obs'[m] = obs[m] /\ pods'[m] = pods[m]
           /\ pods'[j] = p
  <1> DEFINE new == {o \in obs[j] : o.uid # p.uid} \cup {p}
  <1>1. obs' = [obs EXCEPT ![j] = new] /\ pods' = [pods EXCEPT ![j] = p]
    BY DEF PodIs, observePod
  <1>2. IsFiniteSet(new)
    <2>1. IsFiniteSet({o \in obs[j] : o.uid # p.uid})
      BY FS_Subset DEF JobSound
    <2> QED
      BY <2>1, FS_AddElement
  <1>3. new \in SUBSET PodRec /\ new \subseteq obs[j] \cup {p}
    BY DEF RunTyped
  <1> HIDE DEF new
  <1> QED
    BY <1>1, <1>2, <1>3 DEF RunTyped

(* A step outside the engine: one pod may change, faults may be counted,   *)
(* calls may be answered.                                                  *)
LEMMA ClusterStep ==
    ASSUME RunInv, NEW j \in Jobs, NEW p \in PodRec,
           \/ PodIs(j, p) /\ (~Ended => PodsSound(j, job[j], p, (obs[j] \cup deferred[j]) \cup {p}, hit'))
           \/ UNCHANGED <<pods, obs>>,
           UNCHANGED <<scene, engineVars, cleaning>>, hit \subseteq hit', completions' \subseteq completions,
           ~Ended => IsFiniteSet(results'), ~Ended => \A a \in results' : AnswerSound(a)'
    PROVE  RunInv'
  <1>0. job' = job /\ phase' = phase /\ deferred' = deferred /\ loaded' = loaded /\ scene' = scene /\ cleaning' = cleaning
    BY DEF engineVars
  <1>1. FailedForACause'
    BY <1>0 DEF RunInv, FailedForACause
  <1>2. ASSUME ~Ended PROVE LiveRun'
    <2>1. RunTyped /\ cleaning = "none" /\ \A m \in Jobs : JobSound(m)
      BY <1>2 DEF RunInv, LiveRun
    <2>2. /\ pods' \in [Jobs -> PodRec] /\ obs' \in [Jobs -> SUBSET PodRec] /\ IsFiniteSet(obs'[j])
          /\ \A m \in Jobs : m # j => obs'[m] = obs[m] /\ pods'[m] = pods[m]
          /\ \/ /\ pods'[j] = p /\ obs'[j] \subseteq obs[j] \cup {p}
                /\ PodsSound(j, job[j], p, (obs[j] \cup deferred[j]) \cup {p}, hit')
             \/ pods'[j] = pods[j] /\ obs'[j] = obs[j]
      <3>1. CASE PodIs(j, p) /\ PodsSound(j, job[j], p, (obs[j] \cup deferred[j]) \cup {p}, hit')
        BY <1>2, <2>1, <3>1, Observed
      <3>2. CASE UNCHANGED <<pods, obs>>
        BY <2>1, <3>2 DEF RunTyped, JobSound
      <3> QED
        BY <1>2, <3>1, <3>2
    <2>3. RunTyped'
      BY <1>0, <1>2, <2>1, <2>2 DEF RunTyped
    <2>4. ASSUME NEW m \in Jobs PROVE JobSound(m)'
      <3>1. JobSound(m)
        BY <2>1
      <3>2. /\ job'[m].st # "Starting" /\ Caused(m, job'[m], hit') /\ Placed(job'[m])
            /\ IsFiniteSet(obs'[m]) /\ IsFiniteSet(deferred'[m])
            /\ m \in completions' => Late(job'[m]) /\ job'[m].uid # 0
            /\ m \in loaded' => job'[m].st # "Completing"
        BY <1>0, <2>2, <3>1 DEF JobSound, Caused
      <3>3. PodsSound(m, job[m], pods'[m], obs'[m] \cup deferred[m], hit')
        <4>1. CASE /\ m = j /\ pods'[j] = p /\ obs'[j] \subseteq obs[j] \cup {p}
                   /\ PodsSound(j, job[j], p, (obs[j] \cup deferred[j]) \cup {p}, hit')
          <5>1. PodsSound(j, job[j], p, (obs[j] \cup deferred[j]) \cup {p}, hit')
            BY <4>1
          <5>2. obs'[j] \cup deferred[j] \subseteq (obs[j] \cup deferred[j]) \cup {p}
            BY <4>1
          <5> QED
            BY <4>1, <5>1, <5>2 DEF PodsSound
        <4>2. CASE pods'[m] = pods[m] /\ obs'[m] = obs[m]
          BY <3>1, <4>2 DEF JobSound, PodsSound
        <4> QED
          BY <2>2, <4>1, <4>2
      <3>4. PodsSound(m, job[m], pods[m], obs[m] \cup deferred[m], hit)'
        BY <1>0, <3>3 DEF PodsSound
      <3> QED
        BY <3>2, <3>4 DEF JobSound, Caused, Placed, Late
    <2> QED
      BY <1>0, <1>2, <2>1, <2>3, <2>4 DEF LiveRun
  <1>3. Ended' = Ended
    BY <1>0 DEF Ended
  <1> QED
    BY <1>1, <1>2, <1>3 DEF RunInv

(* An answer stays sound when faults are added and jobs end.               *)
LEMMA AnswersKept ==
    ASSUME RunInv, ~Ended, hit \subseteq hit', job' = job
    PROVE  \A a \in results : AnswerSound(a)'
  BY DEF RunInv, LiveRun, AnswerSound

(* The Job controller, the scheduler, KWOK and faults.                     *)
LEMMA PodStepsKeep ==
    ASSUME RunInv, NEW j \in Jobs, PodAppears(j) \/ PodMoves(j) \/ PodKilled(j)
    PROVE  RunInv'
  <1>0. ~Ended
    BY DEF PodAppears, PodMoves, PodKilled
  <1>1. /\ pods[j] \in PodRec /\ JobSound(j) /\ pods[j].uid \in Nat /\ job[j].uid \in Nat
        /\ (obs[j] \cup deferred[j]) \subseteq PodRec
    BY <1>0 DEF RunInv, LiveRun, RunTyped, PodRec, JobRec
  <1>2. PodsSound(j, job[j], pods[j], obs[j] \cup deferred[j], hit)
    BY <1>1 DEF JobSound
  <1>3. \A o \in obs[j] \cup deferred[j] : o.uid \in Nat
    BY <1>1 DEF PodRec
  <1>4. /\ UNCHANGED <<scene, engineVars, kubeVars, cleaning>> /\ hit \subseteq hit'
    BY DEF PodAppears, PodMoves, PodKilled
  <1>5. /\ job' = job /\ completions' = completions /\ results' = results
    BY <1>4 DEF engineVars, kubeVars
  <1>6. IsFiniteSet(results') /\ \A a \in results' : AnswerSound(a)'
    <2>1. IsFiniteSet(results')
      BY <1>0, <1>5 DEF RunInv, LiveRun, RunTyped
    <2> QED
      BY <1>0, <1>4, <1>5, <2>1, AnswersKept
  <1>7. \E p \in PodRec : PodIs(j, p) /\ PodsSound(j, job[j], p, (obs[j] \cup deferred[j]) \cup {p}, hit')
    <2>1. CASE PodAppears(j)
      <3> DEFINE p == [uid |-> pods[j].uid + 1, phase |-> "Pending", node |-> NoNode]
      <3>1. p \in PodRec
        BY <1>1 DEF PodRec
      <3>2. PodIs(j, p) /\ hit' = hit
        BY <2>1 DEF PodAppears
      <3>3. pods[j].phase \in {"none", "Gone"}
        BY <2>1 DEF PodAppears
      <3>4. PodsSound(j, job[j], p, (obs[j] \cup deferred[j]) \cup {p}, hit)
        <4>1. pods[j].phase = "none" => pods[j].uid = 0
          BY <1>2 DEF PodsSound
        <4>2. p.uid = pods[j].uid + 1 /\ p.phase = "Pending"
          OBVIOUS
        <4> HIDE DEF p
        <4>3. job[j].uid <= p.uid /\ \A o \in (obs[j] \cup deferred[j]) \cup {p} : 0 < o.uid /\ o.uid <= p.uid
          BY <1>1, <1>2, <1>3, <4>2 DEF PodsSound
        <4>4. j \in hit \/ Late(job[j]) \/ (Untouched(p) /\ \A o \in (obs[j] \cup deferred[j]) \cup {p} : Untouched(o))
          BY <1>2, <4>2 DEF PodsSound, Untouched
        <4>5. j \in hit \/ scene.completion = "delete" \/ (p.uid <= 1 /\ p.phase # "Gone")
          BY <1>2, <3>3, <4>1, <4>2 DEF PodsSound
        <4> QED
          BY <4>2, <4>3, <4>4, <4>5 DEF PodsSound
      <3> QED
        BY <3>1, <3>2, <3>4
    <2>2. CASE PodMoves(j)
      <3>1. PICK p \in PodRec : /\ PodIs(j, p) /\ p.uid = pods[j].uid /\ p.phase # "none" /\ p.phase # "Gone"
                                /\ Untouched(p) \/ ~Untouched(pods[j])
                                /\ pods[j].phase # "none"
        <4>1. \A n \in GpuNodes : [pods[j] EXCEPT !.phase = "Bound", !.node = n] \in PodRec
          BY <1>1 DEF PodRec
        <4>2. \A x \in {"Unschedulable", "Running", "Succeeded"} : [pods[j] EXCEPT !.phase = x] \in PodRec
          BY <1>1 DEF PodRec
        <4>3. CASE /\ pods[j].phase \in {"Pending", "Unschedulable"}
                   /\ \E n \in GpuNodes : HasRoom(n, j) /\ PodIs(j, [pods[j] EXCEPT !.phase = "Bound", !.node = n])
          <5>1. PICK n \in GpuNodes : PodIs(j, [pods[j] EXCEPT !.phase = "Bound", !.node = n])
            BY <4>3
          <5> DEFINE p == [pods[j] EXCEPT !.phase = "Bound", !.node = n]
          <5>2. p.uid = pods[j].uid /\ p.phase = "Bound"
            BY <1>1 DEF PodRec
          <5> QED
            BY <4>1, <4>3, <5>1, <5>2 DEF Untouched
        <4>4. CASE pods[j].phase = "Pending" /\ PodIs(j, [pods[j] EXCEPT !.phase = "Unschedulable"])
          BY <1>1, <4>2, <4>4 DEF Untouched, PodRec
        <4>5. CASE pods[j].phase = "Bound" /\ PodIs(j, [pods[j] EXCEPT !.phase = "Running"])
          BY <1>1, <4>2, <4>5 DEF Untouched, PodRec
        <4>6. CASE pods[j].phase = "Annotated" /\ PodIs(j, [pods[j] EXCEPT !.phase = "Succeeded"])
          BY <1>1, <4>2, <4>6 DEF Untouched, PodRec
        <4> QED
          BY <2>2, <4>3, <4>4, <4>5, <4>6 DEF PodMoves
      <3>2. hit' = hit
        BY <2>2 DEF PodMoves
      <3>3. 0 < p.uid
        <4>1. pods[j].uid # 0
          BY <1>1, <1>2, <3>1, <2>2 DEF PodsSound
        <4> QED
          BY <1>1, <3>1, <4>1
      <3> QED
        BY <1>1, <1>2, <1>3, <3>1, <3>2, <3>3 DEF PodsSound
    <2>3. CASE PodKilled(j)
      <3>1. PICK p \in PodRec : /\ PodIs(j, p) /\ p.uid = pods[j].uid /\ p.phase # "none"
                                /\ pods[j].phase # "none" /\ j \in hit'
        <4>1. PICK x \in {"Failed", "Gone"} : PodIs(j, [pods[j] EXCEPT !.phase = x])
          BY <2>3 DEF PodKilled
        <4>2. [pods[j] EXCEPT !.phase = x] \in PodRec
          BY <1>1 DEF PodRec
        <4> QED
          BY <1>1, <2>3, <4>1, <4>2 DEF PodKilled, PodRec
      <3> QED
        BY <1>1, <1>2, <1>3, <3>1 DEF PodsSound
    <2> QED
      BY <2>1, <2>2, <2>3
  <1> QED
    BY <1>4, <1>5, <1>6, <1>7, ClusterStep

(* A sound answer may be added.                                            *)
LEMMA NewAnswer ==
    ASSUME RunInv, ~Ended, hit \subseteq hit', job' = job, NEW kind, NEW id, NEW err,
           results' = results \cup {Answer(kind, id, err)}, AnswerSound(Answer(kind, id, err))'
    PROVE  IsFiniteSet(results') /\ \A a \in results' : AnswerSound(a)'
  <1>1. IsFiniteSet(results)
    BY DEF RunInv, LiveRun, RunTyped
  <1>2. IsFiniteSet(results')
    BY <1>1, FS_AddElement
  <1>3. \A a \in results : AnswerSound(a)'
    BY AnswersKept
  <1> QED
    BY <1>2, <1>3

(* A worker's create.                                                      *)
LEMMA CreateKeeps ==
    ASSUME RunInv, NEW g \in Groups, ExecCreate(g)
    PROVE  RunInv'
  <1>1. PICK j \in Jobs : Group[j] = g
    BY DEF Groups
  <1>2. NoPod \in PodRec
    BY DEF NoPod, PodRec
  <1>3. /\ UNCHANGED <<scene, engineVars, cleaning>> /\ UNCHANGED <<pods, obs>> /\ completions' = completions
    BY DEF ExecCreate
  <1>4. job' = job
    BY <1>3 DEF engineVars
  <1>5. hit \subseteq hit'
    BY DEF ExecCreate
  <1>6. ASSUME ~Ended PROVE IsFiniteSet(results') /\ \A a \in results' : AnswerSound(a)'
    <2>1. PICK err \in {"ok", "exists", "error", "rejected"} :
            /\ results' = results \cup {Answer("create", g, err)}
            /\ err = "rejected" => InGroup(g) \subseteq hit'
      BY <1>6 DEF ExecCreate
    <2>2. AnswerSound(Answer("create", g, err))'
      BY <2>1 DEF AnswerSound, Answer
    <2> QED
      BY <1>4, <1>5, <1>6, <2>1, <2>2, NewAnswer
  <1> QED
    BY <1>2, <1>3, <1>5, <1>6, ClusterStep

(* A worker's completion call, of a pod that is the job's unless a fault   *)
(* made place for another.                                                 *)
LEMMA CompletionKeeps ==
    ASSUME RunInv, NEW j \in Jobs, ExecCompletion(j)
    PROVE  RunInv'
  <1> DEFINE there == pods[j].uid = job[j].uid /\ pods[j].phase # "Gone"
             took == IF ~there THEN pods[j]
                     ELSE IF scene.completion = "delete" THEN [pods[j] EXCEPT !.phase = "Gone"]
                     ELSE IF pods[j].phase = "Running" THEN [pods[j] EXCEPT !.phase = "Annotated"]
                     ELSE pods[j]
  <1>1. /\ UNCHANGED <<scene, engineVars, cleaning>> /\ completions' \subseteq completions
        /\ hit' = hit /\ j \in completions
    BY DEF ExecCompletion
  <1>2. job' = job /\ phase' = phase
    BY <1>1 DEF engineVars
  <1>3. CASE Ended
    <2>1. Ended'
      BY <1>2, <1>3 DEF Ended
    <2> QED
      BY <1>1, <1>2, <2>1 DEF RunInv, FailedForACause
  <1>4. CASE ~Ended
    <2>1. /\ pods[j] \in PodRec /\ JobSound(j) /\ job[j] \in JobRec
          /\ (obs[j] \cup deferred[j]) \subseteq PodRec
      BY <1>4 DEF RunInv, LiveRun, RunTyped
    <2>2. /\ PodsSound(j, job[j], pods[j], obs[j] \cup deferred[j], hit)
          /\ Late(job[j]) /\ job[j].uid # 0 /\ Placed(job[j])
      BY <1>1, <2>1 DEF JobSound
    <2>3. pods[j].uid \in Nat /\ job[j].uid \in Nat /\ \A o \in obs[j] \cup deferred[j] : o.uid \in Nat
      BY <2>1 DEF PodRec, JobRec
    <2>4. took \in PodRec /\ took.uid = pods[j].uid
      BY <2>1 DEF PodRec
    <2>5. took # pods[j] => PodsSound(j, job[j], took, (obs[j] \cup deferred[j]) \cup {took}, hit)
      <3> SUFFICES ASSUME took # pods[j]
                   PROVE  PodsSound(j, job[j], took, (obs[j] \cup deferred[j]) \cup {took}, hit)
        OBVIOUS
      <3>1. there /\ (took.phase = "Gone" => scene.completion = "delete") /\ took.phase # "none"
        BY <2>1 DEF PodRec
      <3>2. pods[j].uid # 0
        BY <2>2, <3>1
      <3> HIDE DEF took, there
      <3> QED
        BY <2>2, <2>3, <2>4, <3>1, <3>2 DEF PodsSound
    <2>6. took = pods[j] \/ took # pods[j]
      OBVIOUS
    <2>7. \/ UNCHANGED <<pods, obs>>
          \/ PodIs(j, took) /\ took # pods[j]
      <3>1. pods' = [pods EXCEPT ![j] = took] /\ took = pods[j] => pods' = pods
        BY <1>4 DEF RunInv, LiveRun, RunTyped
      <3> QED
        BY <3>1 DEF ExecCompletion, PodIs
    <2>8. IsFiniteSet(results') /\ \A a \in results' : AnswerSound(a)'
      <3>1. PICK err \in {"ok", "notfound", "error"} :
              /\ results' = results \cup {Answer("complete", j, err)}
              /\ err = "notfound" => ~there /\ scene.completion # "delete"
        BY DEF ExecCompletion
      <3>2. err = "notfound" => j \in hit \/ Terminal(job[j].st)
        <4> SUFFICES ASSUME err = "notfound", j \notin hit, ~Terminal(job[j].st) PROVE FALSE
          OBVIOUS
        <4>1. job[j].uid <= pods[j].uid /\ pods[j].uid <= 1 /\ pods[j].phase # "Gone"
          BY <2>2, <3>1 DEF PodsSound
        <4>2. pods[j].uid = job[j].uid
          BY <2>2, <2>3, <4>1
        <4> QED
          BY <3>1, <4>1, <4>2
      <3>3. AnswerSound(Answer("complete", j, err))'
        BY <1>1, <1>2, <3>1, <3>2 DEF AnswerSound, Answer, Terminal
      <3> QED
        BY <1>1, <1>2, <1>4, <3>1, <3>3, NewAnswer
    <2> HIDE DEF took, there
    <2> QED
      BY <1>1, <2>4, <2>5, <2>7, <2>8, ClusterStep
  <1> QED
    BY <1>3, <1>4

(* The run API.                                                            *)
LEMMA ApiKeeps ==
    ASSUME RunInv, start \/ finish \/ cleanup
    PROVE  RunInv'
  <1>1. CASE start
    <2>1. UNCHANGED <<scene, clock, job, grp, deferred, loaded, blockedFor, creates, completions, results, obs, cleaning, pods, hit>>
      BY <1>1 DEF start, kubeVars, clusterVars
    <2>2. ~Ended /\ ~Ended'
      BY <1>1 DEF start, Ended
    <2>3. LiveRun'
      BY <2>1, <2>2 DEF RunInv, LiveRun, RunTyped, JobSound, AnswerSound, PodsSound, Caused, Placed, Late
    <2> QED
      BY <2>1, <2>3 DEF RunInv, FailedForACause
  <1>2. CASE finish
    <2>1. hit' = hit
      BY <1>2 DEF finish, clusterVars
    <2>2. CASE Ended
      <3>1. job' = job /\ phase' = phase
        BY <1>2, <2>2 DEF finish, engineVars
      <3> QED
        BY <2>1, <2>2, <3>1 DEF RunInv, FailedForACause, Ended
    <2>3. CASE ~Ended
      <3>1. endLocked
        BY <1>2, <2>3 DEF finish
      <3>2. Ended'
        BY <3>1 DEF endLocked, Ended
      <3>3. job \in [Jobs -> JobRec]
        BY <2>3 DEF RunInv, LiveRun, RunTyped
      <3>4. ASSUME NEW j \in Jobs, job'[j].st = "Failed" PROVE job'[j] = job[j]
        <4>1. job[j] \in JobRec
          BY <3>3
        <4>2. \A to : endJob(job[j], to).st = to
          BY <4>1 DEF endJob, JobRec
        <4>3. job'[j] = CASE job[j].st = "Completing" -> endJob(job[j], "Completed")
                          [] Terminal(job[j].st) -> job[j]
                          [] OTHER -> endJob(job[j], "Incomplete")
          BY <3>1 DEF endLocked
        <4>4. CASE job[j].st = "Completing"
          BY <3>4, <4>2, <4>3, <4>4 DEF Terminal
        <4>5. CASE Terminal(job[j].st) /\ job[j].st # "Completing"
          BY <4>3, <4>5
        <4>6. CASE ~Terminal(job[j].st) /\ job[j].st # "Completing"
          BY <3>4, <4>2, <4>3, <4>6
        <4> QED
          BY <4>4, <4>5, <4>6
      <3> QED
        BY <2>1, <3>2, <3>4 DEF RunInv, FailedForACause
    <2> QED
      BY <2>2, <2>3
  <1>3. CASE cleanup
    <2>1. Ended
      BY <1>3 DEF cleanup, RunInv, LiveRun
    <2>2. job' = job /\ phase' = phase /\ hit' = hit
      BY <1>3 DEF cleanup, engineVars
    <2> QED
      BY <2>1, <2>2 DEF RunInv, FailedForACause, Ended
  <1> QED
    BY <1>1, <1>2, <1>3

(* A tick, stage by stage.  After the answers, r is what q was: it ends    *)
(* for a cause, and is Completed only when it was Completing.              *)
AfterAnswers(j, q, r) ==
    /\ r.st # "Starting" /\ Caused(j, r, hit) /\ r.uid = q.uid /\ r.node = q.node
    /\ Late(q) => Late(r)
    /\ Terminal(q.st) => r.st = q.st
    /\ r.st \in {"Running", "Completing"} => r.st = q.st
    /\ r.st = "Completed" => q.st \in {"Completing", "Completed"}

(* What endJob changes.                                                    *)
LEMMA EndJobIs ==
    ASSUME NEW r \in JobRec, NEW to \in v1State
    PROVE  /\ endJob(r, to) \in JobRec
           /\ endJob(r, to).st = to /\ endJob(r, to).uid = r.uid /\ endJob(r, to).node = r.node
           /\ endJob(r, to).tries = r.tries
  BY DEF endJob, JobRec

(* One answer.                                                             *)
LEMMA OneAnswerKeeps ==
    ASSUME LiveRun, NEW j \in Jobs, NEW in \in SUBSET results, NEW a \in AnswersFor(in, j),
           NEW r \in JobRec, AfterAnswers(j, job[j], r)
    PROVE  applyResult(a, r) \in JobRec /\ AfterAnswers(j, job[j], applyResult(a, r))
  <1> DEFINE q == job[j]
  <1>0. AnswerSound(a) /\ JobSound(j) /\ q \in JobRec
    BY DEF LiveRun, AnswersFor, RunTyped
  <1>1. v1CompletionAttempts \in Nat /\ r.tries \in Nat /\ q.tries \in Nat
    BY <1>0, RunConstants DEF JobRec
  <1>2. CASE a.kind = "create"
    <2>1. applyResult(a, r) = applyCreate(r, a)
      BY <1>2 DEF applyResult
    <2>2. CASE a.err \in {"ok", "exists"} /\ r.st = "Waiting"
      <3> DEFINE n == [r EXCEPT !.st = "Submitted"]
      <3>1. applyCreate(r, a) = n
        BY <2>2 DEF applyCreate
      <3>2. n \in JobRec /\ n.st = "Submitted" /\ n.uid = r.uid /\ n.node = r.node /\ n.tries = r.tries
        BY DEF JobRec, v1State
      <3> HIDE DEF n
      <3> QED
        BY <2>1, <2>2, <3>1, <3>2 DEF AfterAnswers, Caused, Late, Terminal
    <2>3. CASE a.err = "rejected" /\ ~Terminal(r.st)
      <3>1. applyCreate(r, a) = endJob(r, "Failed")
        BY <2>3 DEF applyCreate
      <3>2. j \in hit
        <4>1. a.id = Group[j] /\ InGroup(a.id) \subseteq hit
          BY <1>0, <1>2, <2>3 DEF AnswersFor, AnswerSound
        <4> QED
          BY <4>1 DEF InGroup
      <3>3. "Failed" \in v1State
        BY DEF v1State
      <3> QED
        BY <2>1, <2>3, <3>1, <3>2, <3>3, EndJobIs DEF AfterAnswers, Caused, Late, Terminal
    <2>4. CASE ~(a.err \in {"ok", "exists"} /\ r.st = "Waiting") /\ ~(a.err = "rejected" /\ ~Terminal(r.st))
      BY <2>1, <2>4 DEF applyCreate
    <2> QED
      BY <2>2, <2>3, <2>4
  <1>3. CASE a.kind = "complete" /\ r.st = "Completing"
    <2>1. applyResult(a, r) = applyCompletion(r, a)
      BY <1>3 DEF applyResult
    <2>2. a.id = j /\ q.st = "Completing" /\ r.tries < v1CompletionAttempts
      BY <1>3 DEF AnswersFor, AfterAnswers, Caused
    <2>3. {"Completed", "Failed"} \subseteq v1State
      BY DEF v1State
    <2>4. CASE a.err = "ok"
      <3>1. applyCompletion(r, a) = endJob(r, "Completed")
        BY <2>4 DEF applyCompletion
      <3> QED
        BY <2>1, <2>2, <2>3, <3>1, EndJobIs DEF AfterAnswers, Caused, Late, Terminal
    <2>5. CASE a.err = "notfound"
      <3>1. applyCompletion(r, a) = endJob(r, "Failed")
        BY <2>5 DEF applyCompletion
      <3>2. j \in hit
        BY <1>0, <1>3, <2>2, <2>5 DEF AnswerSound, Terminal
      <3> QED
        BY <2>1, <2>2, <2>3, <3>1, <3>2, EndJobIs DEF AfterAnswers, Caused, Late, Terminal
    <2>6. CASE a.err \notin {"ok", "notfound"}
      <3> DEFINE n == [r EXCEPT !.tries = @ + 1]
      <3>1. n \in JobRec /\ n.st = r.st /\ n.uid = r.uid /\ n.node = r.node /\ n.tries = r.tries + 1
        BY <1>1 DEF JobRec
      <3>2. applyCompletion(r, a) = IF r.tries + 1 >= v1CompletionAttempts THEN endJob(n, "Failed") ELSE n
        BY <2>6 DEF applyCompletion
      <3> HIDE DEF n
      <3>3. CASE r.tries + 1 >= v1CompletionAttempts
        <4>1. r.tries + 1 = v1CompletionAttempts
          BY <1>1, <2>2, <3>3
        <4>2. endJob(n, "Failed") \in JobRec /\ endJob(n, "Failed").st = "Failed" /\ endJob(n, "Failed").uid = n.uid
              /\ endJob(n, "Failed").node = n.node /\ endJob(n, "Failed").tries = n.tries
          BY <2>3, <3>1, EndJobIs
        <4> QED
          BY <2>1, <2>2, <3>1, <3>2, <3>3, <4>1, <4>2 DEF AfterAnswers, Caused, Late, Terminal
      <3>4. CASE ~(r.tries + 1 >= v1CompletionAttempts)
        <4>1. r.tries + 1 < v1CompletionAttempts
          BY <1>1, <3>4
        <4> QED
          BY <1>3, <2>1, <2>2, <3>1, <3>2, <3>4, <4>1 DEF AfterAnswers, Caused, Late, Terminal
      <3> QED
        BY <3>3, <3>4
    <2> QED
      BY <2>4, <2>5, <2>6
  <1>4. CASE a.kind # "create" /\ ~(a.kind = "complete" /\ r.st = "Completing")
    BY <1>4 DEF applyResult
  <1> QED
    BY <1>2, <1>3, <1>4

(* All answers of a tick, in any order.                                    *)
LEMMA AnswersTaken ==
    ASSUME LiveRun, NEW j \in Jobs, NEW in \in SUBSET results
    PROVE  applyResults(in, j) \in JobRec /\ AfterAnswers(j, job[j], applyResults(in, j))
  <1> DEFINE V == {r \in JobRec : AfterAnswers(j, job[j], r)}
  <1>1. JobSound(j) /\ job[j] \in JobRec /\ IsFiniteSet(results)
    BY DEF LiveRun, RunTyped
  <1>2. job[j] \in V
    BY <1>1 DEF AfterAnswers, JobSound
  <1>3. IsFiniteSet(AnswersFor(in, j))
    <2>1. AnswersFor(in, j) \subseteq results
      BY DEF AnswersFor
    <2> QED
      BY <1>1, <2>1, FS_Subset
  <1>4. \A a \in AnswersFor(in, j) : \A r \in V : applyResult(a, r) \in V
    BY OneAnswerKeeps
  <1>5. applyResults(in, j) \in V
    <2> HIDE DEF V
    <2> QED
      BY <1>2, <1>3, <1>4, AnswersStay
  <1> QED
    BY <1>5

(* After the pods: only a fault fails a job, and one whose completion is in *)
(* flight stays so.                                                        *)
AfterPods(j, q, r) ==
    /\ Caused(j, r, hit) /\ Placed(r) /\ r.uid <= pods[j].uid /\ (q.uid # 0 => r.uid # 0)
    /\ Late(q) => Late(r)
    /\ Terminal(q.st) => r.st = q.st
    /\ r.st \in {"Running", "Completing", "Completed"} => r.st = q.st

(* One pod change.                                                         *)
LEMMA OnePodKeeps ==
    ASSUME NEW j \in Jobs, NEW q \in JobRec, NEW r \in JobRec, AfterPods(j, q, r), NEW o \in PodRec,
           0 < o.uid, o.uid <= pods[j].uid, j \in hit \/ Late(q) \/ Untouched(o)
    PROVE  applyPod(r, o) \in JobRec /\ AfterPods(j, q, applyPod(r, o))
  <1>1. CASE Terminal(r.st) \/ (r.uid # 0 /\ o.uid # r.uid)
    BY <1>1 DEF applyPod
  <1>2. CASE ~(Terminal(r.st) \/ (r.uid # 0 /\ o.uid # r.uid))
    <2> DEFINE s == [r EXCEPT !.uid = o.uid, !.seen = TRUE]
    <2>0. ~Terminal(q.st) /\ (Late(q) => r.st = "Completing")
      BY <1>2 DEF AfterPods, Late
    <2>1. s \in JobRec /\ s.st = r.st /\ s.uid = o.uid /\ s.node = r.node /\ s.tries = r.tries
      BY DEF JobRec, PodRec
    <2>2. o.uid \in Nat /\ o.uid # 0
      BY DEF PodRec
    <2>3. AfterPods(j, q, s)
      <3> HIDE DEF s
      <3> QED
        BY <2>1, <2>2 DEF AfterPods, Caused, Placed, Late, Terminal
    <2>4. CASE o.phase \in {"Gone", "Failed", "Succeeded"}
      <3>1. applyPod(r, o) = IF s.st = "Completing" THEN s ELSE endJob(s, "Failed")
        BY <1>2, <2>4 DEF applyPod
      <3> HIDE DEF s
      <3>2. CASE s.st = "Completing"
        BY <2>1, <2>3, <3>1, <3>2
      <3>3. CASE s.st # "Completing"
        <4>1. j \in hit
          BY <2>0, <2>1, <2>4, <3>3 DEF Untouched
        <4>2. "Failed" \in v1State
          BY DEF v1State
        <4>3. ~Late(q)
          BY <2>0, <2>1, <3>3
        <4>4. /\ endJob(s, "Failed") \in JobRec /\ endJob(s, "Failed").st = "Failed"
              /\ endJob(s, "Failed").uid = s.uid /\ endJob(s, "Failed").tries = s.tries
          BY <2>1, <4>2, EndJobIs
        <4>5. s.tries < v1CompletionAttempts
          BY <1>2, <2>1, <2>3 DEF AfterPods, Caused, Terminal
        <4> QED
          BY <2>0, <2>3, <3>1, <3>3, <4>1, <4>3, <4>4, <4>5 DEF AfterPods, Caused, Placed, Late, Terminal
      <3> QED
        BY <3>2, <3>3
    <2>5. CASE o.phase \notin {"Gone", "Failed", "Succeeded"}
      <3> DEFINE u == [s EXCEPT !.unsched = (o.phase = "Unschedulable")]
                 v == [u EXCEPT !.node = o.node, !.st = "Scheduled"]
                 b == IF o.node # NoNode /\ u.node = NoNode THEN v ELSE u
                 w == [b EXCEPT !.st = "Starting"]
      <3>1. applyPod(r, o) = IF /\ o.phase \in {"Running", "Annotated"} /\ b.st \in {"Submitted", "Scheduled"}
                                /\ b.node # NoNode
                             THEN w ELSE b
        BY <1>2, <2>5 DEF applyPod
      <3>2. u \in JobRec /\ u.st = s.st /\ u.uid = s.uid /\ u.node = s.node /\ u.tries = s.tries
        <4> HIDE DEF s
        <4> QED
          BY <2>1 DEF JobRec
      <3> HIDE DEF s, u
      <3>3. v \in JobRec /\ v.st = "Scheduled" /\ v.uid = u.uid /\ v.node = o.node /\ v.tries = u.tries
        BY <3>2 DEF JobRec, PodRec, v1State
      <3> HIDE DEF v
      <3>4. b \in JobRec /\ AfterPods(j, q, b) /\ (b.st = s.st \/ b.st = "Scheduled") /\ b.uid = s.uid /\ b.tries = s.tries
        <4>1. CASE ~(o.node # NoNode /\ u.node = NoNode)
          <5>1. b = u
            BY <4>1
          <5> HIDE DEF b
          <5> QED
            BY <2>3, <3>2, <5>1 DEF AfterPods, Caused, Placed, Late, Terminal
        <4>2. CASE o.node # NoNode /\ u.node = NoNode
          <5>1. b = v
            BY <4>2
          <5>2. s.st # "Completing" /\ ~Late(q)
            BY <2>0, <2>1, <2>3, <3>2, <4>2 DEF AfterPods, Placed
          <5>3. s.tries < v1CompletionAttempts
            BY <1>2, <2>1, <2>3 DEF AfterPods, Caused, Terminal
          <5> HIDE DEF b
          <5> QED
            BY <2>0, <2>3, <3>2, <3>3, <5>1, <5>2, <5>3 DEF AfterPods, Caused, Placed, Late, Terminal
        <4> QED
          BY <4>1, <4>2
      <3>5. w \in JobRec /\ w.st = "Starting" /\ w.uid = b.uid /\ w.node = b.node /\ w.tries = b.tries
        <4> HIDE DEF b
        <4> QED
          BY <3>4 DEF JobRec
      <3> HIDE DEF b, w
      <3>6. CASE /\ o.phase \in {"Running", "Annotated"} /\ b.st \in {"Submitted", "Scheduled"}
                 /\ b.node # NoNode
        <4>1. ~Late(q) /\ b.tries < v1CompletionAttempts
          BY <3>4, <3>6 DEF AfterPods, Late, Terminal, Caused
        <4>2. w.uid # 0
          BY <2>1, <2>2, <3>4, <3>5
        <4> QED
          BY <2>0, <3>1, <3>4, <3>5, <3>6, <4>1, <4>2 DEF AfterPods, Caused, Placed, Late, Terminal
      <3> QED
        BY <3>1, <3>4, <3>6
    <2> QED
      BY <2>4, <2>5
  <1> QED
    BY <1>1, <1>2

(* All pod changes of a tick, in the order of any names.                   *)
LEMMA PodsTaken ==
    ASSUME LiveRun, NEW byName \in ByName, NEW J \in [Jobs -> JobRec],
           \A j \in Jobs : AfterAnswers(j, job[j], J[j])
    PROVE  /\ observePods(J, byName) \in [Jobs -> JobRec]
           /\ \A j \in Jobs : AfterPods(j, J[j], observePods(J, byName)[j])
  <1>1. ASSUME NEW j \in Jobs
        PROVE  observePods(J, byName)[j] \in JobRec /\ AfterPods(j, J[j], observePods(J, byName)[j])
    <2> DEFINE q == J[j]
               V == {r \in JobRec : AfterPods(j, q, r)}
    <2>1. JobSound(j) /\ AfterAnswers(j, job[j], q) /\ q \in JobRec /\ job[j] \in JobRec
      BY DEF LiveRun, RunTyped
    <2>2. q \in V
      <3>1. Placed(q)
        BY <2>1 DEF AfterAnswers, JobSound, Placed
      <3>2. q.uid <= pods[j].uid
        BY <2>1 DEF AfterAnswers, JobSound, PodsSound
      <3> QED
        BY <2>1, <3>1, <3>2 DEF AfterPods, AfterAnswers
    <2>3. byName[j] \in SetToSeqs(Changes(j))
      BY DEF ByName
    <2>4. IsFiniteSet(Changes(j)) /\ Changes(j) \subseteq obs[j] \cup deferred[j]
      <3>1. Changes(j) \subseteq obs[j] \cup deferred[j]
        BY DEF Changes
      <3>2. IsFiniteSet(obs[j] \cup deferred[j])
        BY <2>1, FS_Union DEF JobSound
      <3> QED
        BY <3>1, <3>2, FS_Subset
    <2>5. Cardinality(Changes(j)) \in Nat
      BY <2>4, FS_CardinalityType
    <2>6. byName[j] \in [1..Cardinality(Changes(j)) -> Changes(j)]
      BY <2>3 DEF SetToSeqs
    <2>7. DOMAIN byName[j] = 1..Cardinality(Changes(j)) /\ \A i \in DOMAIN byName[j] : byName[j][i] \in Changes(j)
      BY <2>6
    <2>8. DOMAIN byName[j] \in SUBSET Int /\ IsFiniteSet(DOMAIN byName[j])
      <3>1. IsFiniteSet(1..Cardinality(Changes(j)))
        BY <2>5, FS_Interval
      <3> QED
        BY <2>5, <2>7, <3>1
    <2>9. \A i \in DOMAIN byName[j] : \A r \in V : applyPod(r, byName[j][i]) \in V
      <3> SUFFICES ASSUME NEW i \in DOMAIN byName[j], NEW r \in V PROVE applyPod(r, byName[j][i]) \in V
        OBVIOUS
      <3> DEFINE o == byName[j][i]
      <3>1. o \in obs[j] \cup deferred[j] /\ o \in PodRec
        BY <2>4, <2>7 DEF LiveRun, RunTyped
      <3>2. 0 < o.uid /\ o.uid <= pods[j].uid /\ (j \in hit \/ Late(job[j]) \/ Untouched(o))
        BY <2>1, <3>1 DEF JobSound, PodsSound
      <3>3. j \in hit \/ Late(q) \/ Untouched(o)
        BY <2>1, <3>2 DEF AfterAnswers
      <3> HIDE DEF o, q
      <3> QED
        BY <2>1, <3>1, <3>2, <3>3, OnePodKeeps DEF o
    <2>10. FoldLeft(applyPod, q, byName[j]) \in V
      <3> HIDE DEF V, q
      <3> QED
        BY <2>2, <2>8, <2>9, PodsStay
    <2>11. observePods(J, byName)[j] = IF q.st = "Waiting" THEN q ELSE FoldLeft(applyPod, q, byName[j])
      BY DEF observePods
    <2> QED
      BY <2>2, <2>10, <2>11
  <1>2. DOMAIN observePods(J, byName) = Jobs /\ observePods(J, byName) = [j \in Jobs |-> observePods(J, byName)[j]]
    BY DEF observePods
  <1> QED
    BY <1>1, <1>2

(* A whole tick, for one job.                                              *)
AfterTick(j, q, r) ==
    /\ r.st # "Starting" /\ Caused(j, r, hit) /\ Placed(r)
    /\ r.uid <= pods[j].uid /\ (q.uid # 0 => r.uid # 0)
    /\ Late(q) => Late(r)
    /\ Terminal(q.st) => Terminal(r.st)
    /\ r.st = "Completed" => q.st \in {"Completing", "Completed"}

(* Progress changes work and idleness only.                                *)
LEMMA WorkKeeps ==
    ASSUME NEW K \in [Jobs -> JobRec], NEW slow, NEW j \in Jobs
    PROVE  LET r == progress(K, Progressing(K, slow))[j] IN
           r \in JobRec /\ r.st = K[j].st /\ r.uid = K[j].uid /\ r.node = K[j].node /\ r.tries = K[j].tries
  <1> DEFINE w == Progressing(K, slow)
             k == K[j]
             x == [k EXCEPT !.work = @ - 1, !.idle = 0]
             y == [k EXCEPT !.idle = IF @ < Report THEN @ + 1 ELSE @]
  <1>1. k \in JobRec /\ (j \in w => k.work > 0)
    BY DEF Progressing
  <1>2. progress(K, w)[j] = IF k.st # "Running" \/ job[j].st # "Running" THEN k ELSE IF j \in w THEN x ELSE y
    BY DEF progress
  <1> HIDE DEF k, w
  <1>3. k.work > 0 => x \in JobRec /\ x.st = k.st /\ x.uid = k.uid /\ x.node = k.node /\ x.tries = k.tries
    <2> HAVE k.work > 0
    <2>1. k.work - 1 \in Nat
      BY <1>1 DEF JobRec
    <2>2. x = [k EXCEPT !.work = k.work - 1, !.idle = 0]
      OBVIOUS
    <2> QED
      BY <1>1, <2>1, <2>2 DEF JobRec
  <1>4. y \in JobRec /\ y.st = k.st /\ y.uid = k.uid /\ y.node = k.node /\ y.tries = k.tries
    BY <1>1, RunConstants DEF JobRec
  <1> HIDE DEF x, y
  <1>5. LET r == progress(K, w)[j] IN
        r \in JobRec /\ r.st = k.st /\ r.uid = k.uid /\ r.node = k.node /\ r.tries = k.tries
    BY <1>1, <1>2, <1>3, <1>4
  <1> QED
    BY <1>5 DEF k, w

(* complete moves a running job to Completing.                             *)
LEMMA CompleteIs ==
    ASSUME NEW K \in [Jobs -> JobRec], NEW j \in Jobs
    PROVE  LET r == complete(K)[j] IN
           /\ r \in JobRec /\ r.uid = K[j].uid /\ r.node = K[j].node /\ r.tries = K[j].tries
           /\ r.st = K[j].st \/ (K[j].st = "Running" /\ r.st = "Completing")
  <1> DEFINE k == K[j]
             x == [k EXCEPT !.st = "Completing", !.held = 0, !.idle = 0]
  <1>1. k \in JobRec
    OBVIOUS
  <1>2. complete(K)[j] = IF k.st = "Running" /\ k.work = 0 THEN x ELSE k
    BY DEF complete
  <1> HIDE DEF k
  <1>3. x \in JobRec /\ x.st = "Completing" /\ x.uid = k.uid /\ x.node = k.node /\ x.tries = k.tries
    BY <1>1 DEF JobRec, v1State
  <1> HIDE DEF x
  <1>4. LET r == complete(K)[j] IN
           /\ r \in JobRec /\ r.uid = k.uid /\ r.node = k.node /\ r.tries = k.tries
           /\ r.st = k.st \/ (k.st = "Running" /\ r.st = "Completing")
    BY <1>1, <1>2, <1>3
  <1> QED
    BY <1>4 DEF k

(* A tick, all its stages together.                                        *)
LEMMA TickMoves ==
    ASSUME LiveRun, NEW in \in SUBSET results, NEW slow, NEW byName \in ByName, TickWith(in, slow, byName)
    PROVE  /\ job' \in [Jobs -> JobRec]
           /\ \A j \in Jobs :
                /\ AfterTick(j, job[j], job'[j])
                /\ j \in completions' \ completions => Late(job'[j]) /\ job'[j].uid # 0
                /\ j \in loaded' => job'[j].st = "Running"
                /\ deferred'[j] \in {Changes(j), {}}
           /\ completions' \in SUBSET Jobs /\ DOMAIN deferred' = Jobs
  <1>1. PICK J1 \in {[j \in Jobs |-> applyResults(in, j)]} :
        \E J2 \in {observePods(J1, byName)} :
        \E J3 \in {startJobs(J2)} :
        \E J4 \in {progress(J3, Progressing(J3, slow))} :
        \E J5 \in {complete(J4)} :
          /\ job' = J5
          /\ completions' = completions \cup Retries(J1)
                               \cup {j \in Jobs : J4[j].st = "Running" /\ J5[j].st = "Completing"}
          /\ deferred' = [j \in Jobs |-> IF J1[j].st = "Waiting" THEN Changes(j) ELSE {}]
          /\ loaded' = {j \in Jobs : J5[j].st = "Running"}
    BY DEF TickWith
  <1> DEFINE J2 == observePods(J1, byName)
             J3 == startJobs(J2)
             J4 == progress(J3, Progressing(J3, slow))
             J5 == complete(J4)
  <1>2. /\ job' = J5
        /\ completions' = completions \cup Retries(J1)
                               \cup {j \in Jobs : J4[j].st = "Running" /\ J5[j].st = "Completing"}
        /\ deferred' = [j \in Jobs |-> IF J1[j].st = "Waiting" THEN Changes(j) ELSE {}]
        /\ loaded' = {j \in Jobs : J5[j].st = "Running"}
    BY <1>1
  <1>3. J1 \in [Jobs -> JobRec] /\ \A j \in Jobs : AfterAnswers(j, job[j], J1[j])
    BY <1>1, AnswersTaken
  <1> HIDE DEF J2, J3, J4, J5
  <1>4. J2 \in [Jobs -> JobRec] /\ \A j \in Jobs : AfterPods(j, J1[j], J2[j])
    BY <1>3, PodsTaken DEF J2
  <1>5. J3 \in [Jobs -> JobRec] /\ \A j \in Jobs : /\ J2[j].st = "Starting" => Begun(J2[j], J3[j])
                                                   /\ J2[j].st # "Starting" => J3[j] = J2[j]
    BY <1>4, AllStart DEF J3
  <1>6. J4 \in [Jobs -> JobRec] /\ \A j \in Jobs : /\ J4[j].st = J3[j].st /\ J4[j].uid = J3[j].uid
                                                   /\ J4[j].node = J3[j].node /\ J4[j].tries = J3[j].tries
    <2>1. J4 = [j \in Jobs |-> J4[j]]
      BY DEF J4, progress
    <2> QED
      BY <1>5, <2>1, WorkKeeps DEF J4
  <1>7. J5 \in [Jobs -> JobRec]
        /\ \A j \in Jobs : /\ J5[j].uid = J4[j].uid /\ J5[j].node = J4[j].node /\ J5[j].tries = J4[j].tries
                           /\ J5[j].st = J4[j].st \/ (J4[j].st = "Running" /\ J5[j].st = "Completing")
    <2>1. J5 = [j \in Jobs |-> J5[j]]
      BY DEF J5, complete
    <2> QED
      BY <1>6, <2>1, CompleteIs DEF J5
  <1>8. ASSUME NEW j \in Jobs
        PROVE  /\ AfterTick(j, job[j], J5[j])
               /\ (Late(J1[j]) => Late(J5[j])) /\ (J1[j].uid # 0 => J5[j].uid # 0)
    <2>1. AfterAnswers(j, job[j], J1[j]) /\ AfterPods(j, J1[j], J2[j])
      BY <1>3, <1>4
    <2>2. /\ J5[j].uid = J2[j].uid /\ J5[j].node = J2[j].node /\ J5[j].tries = J2[j].tries
          /\ J4[j].st = IF J2[j].st = "Starting" THEN "Running" ELSE J2[j].st
          /\ J5[j].st = J4[j].st \/ (J4[j].st = "Running" /\ J5[j].st = "Completing")
      BY <1>5, <1>6, <1>7 DEF Begun
    <2>3. AfterAnswers(j, job[j], J1[j]) => J1[j].uid = job[j].uid
      BY DEF AfterAnswers
    <2> QED
      BY <2>1, <2>2, <2>3 DEF AfterTick, AfterAnswers, AfterPods, Caused, Placed, Late, Terminal
  <1>9. ASSUME NEW j \in Jobs, j \in completions' \ completions
        PROVE  Late(J5[j]) /\ J5[j].uid # 0
    <2>1. CASE j \in Retries(J1)
      <3>1. J1[j].st = "Completing"
        BY <2>1 DEF Retries
      <3>2. Late(J1[j]) /\ J1[j].uid # 0
        <4>1. job[j].st = "Completing" /\ J1[j].uid = job[j].uid
          BY <1>3, <3>1 DEF AfterAnswers
        <4>2. Placed(job[j])
          BY DEF LiveRun, JobSound
        <4> QED
          BY <3>1, <4>1, <4>2 DEF Late, Placed
      <3> QED
        BY <1>8, <3>2
    <2>2. CASE J4[j].st = "Running" /\ J5[j].st = "Completing"
      BY <1>8, <2>2 DEF AfterTick, Late, Placed
    <2> QED
      BY <1>2, <1>9, <2>1, <2>2
  <1>10. completions' \in SUBSET Jobs
    BY <1>2 DEF LiveRun, RunTyped, Retries
  <1> QED
    BY <1>2, <1>7, <1>8, <1>9, <1>10

(* A tick keeps the invariant.                                             *)
LEMMA TickKeeps ==
    ASSUME RunInv, tick
    PROVE  RunInv'
  <1>1. PICK in \in SUBSET results : \E slow : \E byName \in ByName : TickWith(in, slow, byName)
    BY DEF tick
  <1>2. PICK slow : \E byName \in ByName : TickWith(in, slow, byName)
    BY <1>1
  <1>3. PICK byName \in ByName : TickWith(in, slow, byName)
    BY <1>2
  <1>4. /\ phase = "running" /\ results' = results \ in /\ obs' = [j \in Jobs |-> {}]
        /\ UNCHANGED <<scene, cleaning, clusterVars>>
    BY <1>3 DEF TickWith
  <1>5. hit' = hit /\ pods' = pods /\ scene' = scene /\ cleaning' = cleaning
    BY <1>4 DEF clusterVars
  <1>6. LiveRun
    BY <1>4 DEF RunInv, Ended
  <1>7. /\ job' \in [Jobs -> JobRec]
        /\ \A j \in Jobs :
                /\ AfterTick(j, job[j], job'[j])
                /\ j \in completions' \ completions => Late(job'[j]) /\ job'[j].uid # 0
                /\ j \in loaded' => job'[j].st = "Running"
                /\ deferred'[j] \in {Changes(j), {}}
        /\ completions' \in SUBSET Jobs /\ DOMAIN deferred' = Jobs
    BY <1>3, <1>6, TickMoves
  <1>8. FailedForACause'
    BY <1>5, <1>7 DEF FailedForACause, AfterTick, Caused
  <1>9. \A a \in results' : AnswerSound(a)'
    <2> SUFFICES ASSUME NEW a \in results' PROVE AnswerSound(a)'
      OBVIOUS
    <2>1. AnswerSound(a)
      BY <1>4, <1>6 DEF LiveRun
    <2> QED
      BY <1>5, <1>7, <2>1 DEF AnswerSound, AfterTick
  <1>10. \A j \in Jobs : JobSound(j)'
    <2> SUFFICES ASSUME NEW j \in Jobs PROVE JobSound(j)'
      OBVIOUS
    <2>1. JobSound(j) /\ AfterTick(j, job[j], job'[j])
      BY <1>6, <1>7 DEF LiveRun
    <2>2. obs'[j] = {} /\ deferred'[j] \subseteq obs[j] \cup deferred[j]
      BY <1>4, <1>7 DEF Changes
    <2>3. IsFiniteSet(obs'[j]) /\ IsFiniteSet(deferred'[j])
      <3>1. IsFiniteSet(obs[j] \cup deferred[j])
        BY <2>1, FS_Union DEF JobSound
      <3> QED
        BY <2>2, <3>1, FS_Subset, FS_EmptySet
    <2>4. PodsSound(j, job'[j], pods[j], obs'[j] \cup deferred'[j], hit)
      <3>1. PodsSound(j, job[j], pods[j], obs[j] \cup deferred[j], hit)
        BY <2>1 DEF JobSound
      <3>2. \A o \in obs'[j] \cup deferred'[j] : o \in obs[j] \cup deferred[j]
        BY <2>2
      <3> QED
        BY <2>1, <3>1, <3>2 DEF PodsSound, AfterTick
    <2>5. PodsSound(j, job[j], pods[j], obs[j] \cup deferred[j], hit)'
      BY <1>5, <2>4 DEF PodsSound
    <2>6. j \in completions' => Late(job'[j]) /\ job'[j].uid # 0
      BY <1>7, <2>1 DEF JobSound, AfterTick
    <2>7. j \in loaded' => job'[j].st # "Completing"
      BY <1>7
    <2>8. Caused(j, job[j], hit)' /\ Placed(job[j])'
      BY <1>5, <2>1 DEF AfterTick, Caused, Placed
    <2> QED
      BY <2>1, <2>3, <2>5, <2>6, <2>7, <2>8 DEF JobSound, AfterTick, Late, Terminal
  <1>11. RunTyped'
    <2>1. IsFiniteSet(results')
      BY <1>4, <1>6, FS_Subset DEF LiveRun, RunTyped
    <2>2. deferred' \in [Jobs -> SUBSET PodRec]
      <3>1. \A j \in Jobs : deferred'[j] \in SUBSET PodRec
        BY <1>6, <1>7 DEF Changes, LiveRun, RunTyped
      <3>2. deferred' = [j \in Jobs |-> deferred'[j]]
        BY <1>3 DEF TickWith
      <3> QED
        BY <3>1, <3>2
    <2> QED
      BY <1>4, <1>5, <1>6, <1>7, <2>1, <2>2 DEF LiveRun, RunTyped
  <1> QED
    BY <1>5, <1>6, <1>8, <1>9, <1>10, <1>11 DEF RunInv, LiveRun

(* Every step keeps the invariant.                                         *)
LEMMA RunNextInv == RunInv /\ [RunNext]_runVars => RunInv'
  <1> SUFFICES ASSUME RunInv, [RunNext]_runVars PROVE RunInv'
    OBVIOUS
  <1>1. CASE UNCHANGED runVars
    <2>1. UNCHANGED <<scene, phase, job, deferred, loaded, completions, results, obs, cleaning, pods, hit>>
      BY <1>1 DEF runVars, engineVars, kubeVars, clusterVars
    <2>2. LiveRun => LiveRun'
      BY <2>1 DEF LiveRun, RunTyped, JobSound, AnswerSound, PodsSound, Caused, Placed, Late
    <2> QED
      BY <2>1, <2>2 DEF RunInv, FailedForACause, Ended
  <1>2. CASE start \/ finish \/ cleanup
    BY <1>2, ApiKeeps
  <1>3. CASE tick
    BY <1>3, TickKeeps
  <1>4. CASE Working
    BY <1>4, CreateKeeps, CompletionKeeps DEF Working
  <1>5. CASE \E j \in Jobs : PodAppears(j) \/ PodMoves(j) \/ PodKilled(j)
    BY <1>5, PodStepsKeep
  <1> QED
    BY <1>1, <1>2, <1>3, <1>4, <1>5 DEF RunNext

(* A job of a run fails only for a fault of its own, for every trace,      *)
(* gang, cluster and order of answers, pod changes and pod names: what     *)
(* applyResults and observePods take for a failure is one.                 *)
THEOREM FailuresHaveCauses == RunSpec => []FailedForACause
  <1>1. RunInv => FailedForACause
    BY DEF RunInv
  <1> QED
    BY <1>1, RunInitInv, RunNextInv, PTL DEF RunSpec

(* A job becomes Completed in a tick or at the end of the run, and only    *)
(* from Completing.                                                        *)
LEMMA CompletedFromCompleting ==
    ASSUME RunInv, [RunNext]_runVars, NEW j \in Jobs, job'[j].st = "Completed", job[j].st # "Completed"
    PROVE  job[j].st = "Completing" /\ ~Ended
  <1>1. CASE UNCHANGED <<job>>
    BY <1>1
  <1>2. CASE tick
    <2>1. PICK in \in SUBSET results : \E slow : \E byName \in ByName : TickWith(in, slow, byName)
      BY <1>2 DEF tick
    <2>2. PICK slow : \E byName \in ByName : TickWith(in, slow, byName)
      BY <2>1
    <2>3. PICK byName \in ByName : TickWith(in, slow, byName)
      BY <2>2
    <2>4. ~Ended
      BY <2>3 DEF TickWith, Ended
    <2>5. AfterTick(j, job[j], job'[j])
      BY <2>3, <2>4, TickMoves DEF RunInv
    <2> QED
      BY <2>4, <2>5 DEF AfterTick
  <1>3. CASE finish /\ ~Ended
    <2>1. endLocked
      BY <1>3 DEF finish
    <2>2. job[j] \in JobRec
      BY <1>3 DEF RunInv, LiveRun, RunTyped
    <2>3. \A to : endJob(job[j], to).st = to
      BY <2>2 DEF endJob, JobRec
    <2>4. job'[j] = CASE job[j].st = "Completing" -> endJob(job[j], "Completed")
                      [] Terminal(job[j].st) -> job[j]
                      [] OTHER -> endJob(job[j], "Incomplete")
      BY <2>1 DEF endLocked
    <2>5. CASE Terminal(job[j].st) /\ job[j].st # "Completing"
      BY <2>4, <2>5
    <2>6. CASE ~Terminal(job[j].st) /\ job[j].st # "Completing"
      BY <2>3, <2>4, <2>6
    <2> QED
      BY <1>3, <2>5, <2>6
  <1>4. \/ UNCHANGED <<job>> \/ tick \/ (finish /\ ~Ended)
    <2>1. UNCHANGED engineVars => UNCHANGED <<job>>
      BY DEF engineVars
    <2> QED
      BY <2>1 DEF RunNext, runVars, start, finish, cleanup, Working, ExecCreate, ExecCompletion, PodAppears, PodMoves, PodKilled
  <1> QED
    BY <1>1, <1>2, <1>3, <1>4

(* The completed event of a job is written when the job no longer loads    *)
(* its node, for every trace and order of answers: it was Completing, and  *)
(* the step it was last loaded in has been attributed.                     *)
THEOREM EnergyComesFirst == RunSpec => EnergyBeforeTheEvent
  <1> DEFINE A == \A j \in Jobs : job'[j].st = "Completed" /\ job[j].st # "Completed" => j \notin loaded
  <1>1. RunInv /\ [RunNext]_runVars => A
    <2> SUFFICES ASSUME RunInv, [RunNext]_runVars, NEW j \in Jobs, job'[j].st = "Completed", job[j].st # "Completed"
                 PROVE  j \notin loaded
      OBVIOUS
    <2>1. job[j].st = "Completing" /\ LiveRun
      BY CompletedFromCompleting DEF RunInv
    <2> QED
      BY <2>1 DEF LiveRun, JobSound
  <1>2. RunInv /\ [RunNext]_runVars => [A]_runVars
    BY <1>1
  <1> HIDE DEF A
  <1>3. RunSpec => [][A]_runVars
    BY <1>2, RunInitInv, RunNextInv, PTL DEF RunSpec
  <1> QED
    BY <1>3 DEF EnergyBeforeTheEvent, A

-----------------------------------------------------------------------------
(* The exporters of the emulated nodes: what the series say is what the    *)
(* counters counted, for any span, powers, loads, steps, faults and        *)
(* restarts.                                                               *)

(* A share of an amount is no more than the amount.                        *)
LEMMA ShareIs ==
    ASSUME NEW d \in Nat, NEW n \in Nat, NEW p \in Nat, p > 0, n <= p
    PROVE  (d * n) \div p \in Nat /\ (d * n) \div p <= d
  <1> DEFINE x == d * n
             q == x \div p
  <1>1. x \in Nat /\ x <= d * p
    OBVIOUS
  <1> HIDE DEF x
  <1>2. q \in Nat /\ p * q <= x
    BY <1>1
  <1> HIDE DEF q
  <1>3. p * q <= p * d
    BY <1>1, <1>2
  <1>4. q <= d
    BY <1>2, <1>3
  <1> QED
    BY <1>2, <1>4 DEF q, x

(* The indices of one part, and of two.                                    *)
LEMMA FiniteOnesTwos == IsFiniteSet({1}) /\ IsFiniteSet({1, 2})
  <1>1. 1 \in Int /\ 2 \in Int
    OBVIOUS
  <1>2. IsFiniteSet(1..1) /\ IsFiniteSet(1..2)
    BY <1>1, FS_Interval, Zenon
  <1>3. (\A x : x \in 1..1 <=> x \in {1}) /\ (\A x : x \in 1..2 <=> x \in {1, 2})
    OBVIOUS
  <1> QED
    BY <1>2, <1>3

(* The total of one value, and of two.                                     *)
LEMMA FewTotals ==
    ASSUME NEW S, IsFiniteSet(S), NEW f \in [S -> Int], NEW a \in S, NEW b \in S
    PROVE  /\ S = {a} => Total(f, S) = f[a]
           /\ S = {a, b} /\ a # b => Total(f, S) = f[a] + f[b]
  <1>1. Part(f, S, {}) = 0
    BY PartDef
  <1>2. \A x \in S : Part(f, S, {x}) = f[x]
    <2> SUFFICES ASSUME NEW x \in S PROVE Part(f, S, {x}) = f[x]
      OBVIOUS
    <2>1. Part(f, S, {x}) = f[x] + Part(f, S, {x} \ {x}) /\ {x} \ {x} = {}
      BY PartSplit
    <2>2. f[x] \in Int
      OBVIOUS
    <2> QED
      BY <1>1, <2>1, <2>2
  <1>3. a # b => Part(f, S, {a, b}) = f[a] + Part(f, S, {a, b} \ {a}) /\ {a, b} \ {a} = {b}
    BY PartSplit
  <1> QED
    BY <1>2, <1>3, TotalIsPart

(* What of a reading is shown once the counter wraps.                      *)
LEMMA Shown ==
    ASSUME NEW a \in Nat
    PROVE  /\ a % Span \in 0..Range12 /\ a \div Span \in Nat
           /\ a = (Span * (a \div Span)) + (a % Span)
  BY CompatAssumption DEF Range12

(* Between two readings at most one wrap apart, an increment is what was   *)
(* counted, less a unit if the counter wrapped.                            *)
LEMMA DeltaIs ==
    ASSUME NEW a \in Nat, NEW b \in Nat, a <= b, b - a < Span
    PROVE  k012Delta(b % Span, a % Span, Range12) = (b - a) - ((b \div Span) - (a \div Span))
  <1> DEFINE qa == a \div Span
             qb == b \div Span
             ra == a % Span
             rb == b % Span
  <1>1. /\ qa \in Nat /\ qb \in Nat /\ ra \in 0..Range12 /\ rb \in 0..Range12
        /\ a = (Span * qa) + ra /\ b = (Span * qb) + rb
    BY Shown
  <1>2. Span \in Nat /\ Span > 1 /\ Range12 = Span - 1
    BY CompatAssumption DEF Range12
  <1> HIDE DEF qa, qb, ra, rb
  <1>3. CASE qb = qa
    <2> DEFINE u == Span * qa
    <2>1. u \in Int /\ a = u + ra /\ b = u + rb
      BY <1>1, <1>2, <1>3
    <2> HIDE DEF u
    <2>2. rb >= ra
      BY <1>1, <1>2, <2>1
    <2>3. k012Delta(rb, ra, Range12) = rb - ra
      BY <2>2 DEF k012Delta
    <2> QED
      BY <1>1, <1>3, <2>1, <2>3 DEF qa, qb, ra, rb
  <1>4. CASE qb = qa + 1
    <2>1. Span * qb = Span * qa + Span
      BY <1>1, <1>2, <1>4
    <2> DEFINE u == Span * qa
    <2>2. u \in Int /\ a = u + ra /\ b = (u + Span) + rb
      BY <1>1, <1>2, <2>1
    <2> HIDE DEF u
    <2>3. rb < ra /\ Range12 > 0
      BY <1>1, <1>2, <2>2
    <2>4. k012Delta(rb, ra, Range12) = (Range12 - ra) + rb
      BY <1>1, <1>2, <2>3 DEF k012Delta
    <2> QED
      BY <1>1, <1>2, <1>4, <2>2, <2>4 DEF qa, qb, ra, rb
  <1>5. CASE qb >= qa + 2
    <2>1. Span * qb >= Span * (qa + 2)
      BY <1>1, <1>2, <1>5
    <2>2. Span * (qa + 2) = Span * qa + 2 * Span
      BY <1>1, <1>2
    <2> DEFINE u == Span * qa
               v == Span * qb
    <2>3. u \in Int /\ v \in Int /\ v >= u + 2 * Span /\ a = u + ra /\ b = v + rb
      BY <1>1, <1>2, <2>1, <2>2
    <2> HIDE DEF u, v
    <2> QED
      BY <1>1, <1>2, <2>3
  <1>6. CASE qb < qa
    <2>1. Span * qa >= Span * (qb + 1)
      BY <1>1, <1>2, <1>6
    <2>2. Span * (qb + 1) = Span * qb + Span
      BY <1>1, <1>2
    <2> DEFINE u == Span * qa
               v == Span * qb
    <2>3. u \in Int /\ v \in Int /\ u >= v + Span /\ a = u + ra /\ b = v + rb
      BY <1>1, <1>2, <2>1, <2>2
    <2> HIDE DEF u, v
    <2> QED
      BY <1>1, <1>2, <2>3
  <1> QED
    BY <1>1, <1>3, <1>4, <1>5, <1>6 DEF qa, qb, ra, rb

(* What the last snapshot says a meter counted is what the files show or   *)
(* less, and that no more than it did count.                               *)
MetersInv ==
    /\ format \in {"k07", "k012", "gpu"} /\ kclock \in Nat
    /\ spent \in [Meters[format] -> Nat] /\ kshown \in [Meters[format] -> Nat]
    /\ kreading.e \in [Meters[format] -> Nat] /\ kreading.w \in [Meters[format] -> Nat] /\ kreading.load \in 0..KLoadMax
    /\ \A m \in Meters[format] : kreading.e[m] <= kshown[m] /\ kshown[m] <= spent[m]

(* A tick: the meters go on, and the exporter takes the snapshot.          *)
LEMMA TickIs ==
    ASSUME MetersInv, KxTicks
    PROVE  /\ MetersInv' /\ format' = format
           /\ \A m \in Meters[format] : kreading.e[m] <= kreading'.e[m] /\ kshown[m] <= kshown'[m]
           /\ \E bad, listed : ObserveSnapshot(kreading', kclock', bad, listed)
  <1>1. PICK dt \in KSteps, w \in [Meters[format] -> KPowers], busy \in KLoads, ok \in BOOLEAN, moved \in BOOLEAN,
             bad \in {{}} \cup {{p} : p \in Parts}, listed \in BOOLEAN :
          LET faults == (IF ok THEN 0 ELSE 1) + Cardinality(bad) + (IF listed THEN 0 ELSE 1)
              real == [m \in Meters[format] |-> spent[m] + w[m] * dt]
          IN  /\ kfaults + faults <= KFaults /\ kfaults' = kfaults + faults
              /\ (ok => moved) /\ (format # "k012" => bad = {} /\ listed) /\ (~listed => ~exporter.found)
              /\ kclock' = kclock + dt
              /\ spent' = real
              /\ kshown' = IF moved THEN real ELSE kshown
              /\ kreading' = IF ok THEN [e |-> real, w |-> w, load |-> busy] ELSE kreading
              /\ ObserveSnapshot(kreading', kclock', bad, listed)
    BY Zenon DEF KxTicks
  <1> DEFINE M == Meters[format]
             real == [m \in M |-> spent[m] + w[m] * dt]
  <1>2. format' = format
    BY DEF KxTicks
  <1>3. dt \in Nat /\ w \in [M -> Nat] /\ busy \in 0..KLoadMax
    BY CompatAssumption
  <1>4. /\ spent \in [M -> Nat] /\ kshown \in [M -> Nat] /\ kclock \in Nat
        /\ kreading.e \in [M -> Nat] /\ kreading.w \in [M -> Nat] /\ kreading.load \in 0..KLoadMax
        /\ \A m \in M : kreading.e[m] <= kshown[m] /\ kshown[m] <= spent[m]
    BY DEF MetersInv
  <1>5. /\ ok => moved
        /\ kclock' = kclock + dt /\ spent' = real
        /\ kshown' = IF moved THEN real ELSE kshown
        /\ kreading' = IF ok THEN [e |-> real, w |-> w, load |-> busy] ELSE kreading
    BY <1>1
  <1> HIDE DEF M
  <1>6. real \in [M -> Nat] /\ \A m \in M : spent[m] <= real[m]
    <2>1. \A m \in M : w[m] * dt \in Nat /\ spent[m] \in Nat
      BY <1>3, <1>4
    <2> QED
      BY <2>1
  <1> HIDE DEF real
  <1>7. \A m \in M : kshown[m] <= kshown'[m] /\ kshown'[m] <= spent'[m]
    BY <1>4, <1>5, <1>6
  <1>8. /\ kreading'.e \in [M -> Nat] /\ kreading'.w \in [M -> Nat] /\ kreading'.load \in 0..KLoadMax
        /\ \A m \in M : kreading.e[m] <= kreading'.e[m] /\ kreading'.e[m] <= kshown'[m]
    <2>1. CASE ok
      BY <1>3, <1>4, <1>5, <1>6, <2>1
    <2>2. CASE ~ok
      <3>1. kreading' = kreading
        BY <1>5, <2>2
      <3>2. \A m \in M : kreading.e[m] \in Nat /\ kshown[m] \in Nat /\ kshown'[m] \in Nat
        BY <1>4, <1>5, <1>6
      <3>3. \A m \in M : kreading.e[m] <= kreading.e[m] /\ kreading.e[m] <= kshown'[m]
        BY <1>4, <1>7, <3>2
      <3> QED
        BY <1>4, <3>1, <3>3
    <2> QED
      BY <2>1, <2>2
  <1>9. MetersInv'
    <2>1. Meters[format]' = M
      BY <1>2 DEF M, Meters
    <2> QED
      BY <1>2, <1>3, <1>4, <1>5, <1>6, <1>7, <1>8, <2>1 DEF MetersInv
  <1> QED
    BY <1>1, <1>2, <1>7, <1>8, <1>9 DEF M

(* A restart: the node goes on from what its files show.                   *)
LEMMA RestartIs ==
    ASSUME MetersInv, KxRestarts
    PROVE  /\ MetersInv' /\ format' = format
           /\ \A m \in Meters[format] : kreading.e[m] <= kreading'.e[m]
           /\ exporter' = NoExporter(format) /\ since' = Origin(format)
           /\ points' = [s \in DOMAIN points \cap Hardware |-> points[s]]
  <1> DEFINE M == Meters[format]
  <1>1. /\ spent' = kshown /\ kreading' = [NoReading(format) EXCEPT !.e = kshown]
        /\ format' = format /\ kclock' = kclock /\ kshown' = kshown
        /\ exporter' = NoExporter(format) /\ since' = Origin(format)
        /\ points' = [s \in DOMAIN points \cap Hardware |-> points[s]]
    BY DEF KxRestarts
  <1>2. Meters[format]' = M
    BY <1>1 DEF Meters
  <1>3. kreading' = [e |-> kshown, w |-> [m \in M |-> 0], load |-> 0]
    BY <1>1 DEF NoReading
  <1> HIDE DEF M
  <1>4. /\ kshown \in [M -> Nat] /\ \A m \in M : kreading.e[m] <= kshown[m]
        /\ format \in {"k07", "k012", "gpu"} /\ kclock \in Nat
    BY DEF MetersInv, M
  <1>5. kreading'.e = kshown /\ kreading'.w \in [M -> Nat] /\ kreading'.load \in 0..KLoadMax
    BY <1>3, CompatAssumption
  <1>6. MetersInv'
    BY <1>1, <1>2, <1>4, <1>5 DEF MetersInv
  <1> QED
    BY <1>1, <1>4, <1>5, <1>6 DEF M

(* The GPU's energy and its two shares.                                    *)
GpuShares(g, from) ==
    /\ g.seen \in BOOLEAN /\ g.at \in Nat /\ g.counter = [seen |-> g.seen, last |-> g.total] /\ g.total \in Nat
    /\ g.idleSeen \in BOOLEAN /\ g.minIdle \in Nat /\ g.active \in Nat /\ g.idle \in Nat /\ from \in Nat
    /\ g.seen => g.active + g.idle = g.total - from
    /\ ~g.seen => g.active = 0 /\ g.idle = 0
(* What was last served of a device counter is no more than it counted.    *)
GpuInv ==
    format = "gpu" =>
        /\ GpuShares(exporter, since) /\ exporter.total <= kreading.e["gpu"]
        /\ exporter.seen => points = gpuPoints(exporter)
        /\ ~exporter.seen => /\ DOMAIN points \subseteq {"dcgm", "amd", "total"}
                             /\ \A s \in DOMAIN points : points[s] \in Nat /\ points[s] <= kreading.e["gpu"]

(* What the GPU's series are.                                              *)
LEMMA GpuPointsAre ==
    ASSUME NEW st
    PROVE  /\ DOMAIN gpuPoints(st) = {"dcgm", "total", "active", "idle"} \cup IF st.total > 0 THEN {"amd"} ELSE {}
           /\ \A s \in DOMAIN gpuPoints(st) :
                 gpuPoints(st)[s] = IF s = "active" THEN st.active ELSE IF s = "idle" THEN st.idle ELSE st.total
  BY DEF gpuPoints, dcgmPoints, amdPoints, k012GpuPoints

(* A tick of a GPU's exporter.                                             *)
LEMMA GpuTick ==
    ASSUME MetersInv, GpuInv, KxTicks, format = "gpu"
    PROVE  GpuInv' /\ SeriesGrow
  <1> DEFINE r == kreading'
             p == r.w["gpu"]
             rest == r.load = 0 /\ (~exporter.idleSeen \/ p < exporter.minIdle)
             idleW == IF rest THEN p ELSE IF exporter.idleSeen THEN exporter.minIdle ELSE 0
             d == delta(exporter.counter, r.e["gpu"])
             active == IF p = 0 \/ p <= idleW THEN 0 ELSE (d * (p - idleW)) \div p
  <1>1. MetersInv' /\ format' = "gpu" /\ Meters[format] = {"gpu"}
        /\ kreading.e["gpu"] <= r.e["gpu"] /\ \E bad, listed : ObserveSnapshot(r, kclock', bad, listed)
    BY TickIs DEF Meters
  <1>2. /\ exporter' = gpuUpdate(exporter, r, kclock') /\ points' = gpuPoints(exporter')
        /\ since' = IF exporter.seen THEN since ELSE r.e["gpu"]
    BY <1>1 DEF ObserveSnapshot
  <1>3. r.e["gpu"] \in Nat /\ p \in Nat /\ kclock' \in Nat /\ kreading.e["gpu"] \in Nat
    BY <1>1 DEF MetersInv, Meters
  <1>4. /\ GpuShares(exporter, since) /\ exporter.total \in Nat /\ exporter.total <= r.e["gpu"]
        /\ exporter.seen \in BOOLEAN /\ (exporter.seen => points = gpuPoints(exporter))
    BY <1>1, <1>3 DEF GpuInv, GpuShares
  <1>41. ~exporter.seen => /\ DOMAIN points \subseteq {"dcgm", "amd", "total"}
                          /\ \A s \in DOMAIN points : points[s] \in Nat /\ points[s] <= r.e["gpu"]
    BY <1>1, <1>3 DEF GpuInv
  <1>5. CASE ~Later(exporter, kclock')
    <2>1. exporter' = exporter /\ exporter.seen
      BY <1>2, <1>5 DEF gpuUpdate, Later
    <2>2. points' = points /\ since' = since
      BY <1>2, <1>4, <2>1
    <2>3. GpuInv'
      BY <1>1, <1>4, <2>1, <2>2 DEF GpuInv
    <2>4. \A s \in DOMAIN points : points[s] \in Nat
      BY <1>4, <2>1, GpuPointsAre DEF GpuShares
    <2> QED
      BY <2>2, <2>3, <2>4 DEF SeriesGrow
  <1>6. CASE Later(exporter, kclock')
    <2>1. d \in Nat /\ d = IF exporter.seen THEN r.e["gpu"] - exporter.total ELSE 0
      BY <1>3, <1>4 DEF delta, GpuShares
    <2>2. idleW \in Nat
      BY <1>3, <1>4 DEF GpuShares
    <2>3. rest \in BOOLEAN
      BY <1>4 DEF GpuShares
    <2>4. exporter' = [seen |-> TRUE, at |-> kclock', counter |-> Counted(r.e["gpu"]), idleSeen |-> exporter.idleSeen \/ rest,
              minIdle |-> IF rest THEN p ELSE exporter.minIdle, active |-> exporter.active + active,
              idle |-> exporter.idle + (d - active), total |-> r.e["gpu"]]
      BY <1>2, <1>6 DEF gpuUpdate
    <2> HIDE DEF d, rest, idleW
    <2>5. active \in Nat /\ active <= d
      <3>1. CASE p = 0 \/ p <= idleW
        BY <2>1, <3>1
      <3>2. CASE ~(p = 0 \/ p <= idleW)
        <4>1. p - idleW \in Nat /\ p - idleW <= p /\ p > 0
          BY <1>3, <2>2, <3>2
        <4> QED
          BY <1>3, <2>1, <3>2, <4>1, ShareIs
      <3> QED
        BY <3>1, <3>2
    <2> HIDE DEF active, p
    <2>6. /\ exporter'.seen = TRUE /\ exporter'.at \in Nat /\ exporter'.total = r.e["gpu"]
          /\ exporter'.counter = [seen |-> exporter'.seen, last |-> exporter'.total]
          /\ exporter'.idleSeen \in BOOLEAN /\ exporter'.minIdle \in Nat
          /\ exporter'.active = exporter.active + active /\ exporter'.idle = exporter.idle + (d - active)
      BY <1>3, <1>4, <2>3, <2>4 DEF Counted, GpuShares
    <2> DEFINE v == r.e["gpu"]
    <2>61. v \in Nat /\ since' = (IF exporter.seen THEN since ELSE v) /\ exporter.total <= v /\ exporter'.total = v
           /\ d = IF exporter.seen THEN v - exporter.total ELSE 0
      BY <1>2, <1>3, <1>4, <2>1, <2>6
    <2> HIDE DEF r, v
    <2>7. /\ exporter'.active \in Nat /\ exporter'.active >= exporter.active
          /\ exporter'.idle \in Nat /\ exporter'.idle >= exporter.idle
          /\ since' \in Nat /\ exporter'.active + exporter'.idle = exporter'.total - since'
      <3>1. exporter.active \in Nat /\ exporter.idle \in Nat /\ since \in Nat
            /\ (exporter.seen => exporter.active + exporter.idle = exporter.total - since)
            /\ (~exporter.seen => exporter.active = 0 /\ exporter.idle = 0)
        BY <1>4 DEF GpuShares
      <3>2. active \in Nat /\ d - active \in Nat /\ d \in Nat
        BY <2>1, <2>5
      <3> DEFINE y == d - active
                 A == exporter.active
                 I == exporter.idle
      <3>3. /\ A \in Nat /\ I \in Nat /\ y \in Nat /\ active + y = d
            /\ exporter'.active = A + active /\ exporter'.idle = I + y
        BY <2>6, <3>1, <3>2
      <3> HIDE DEF y
      <3>4. /\ exporter'.active \in Nat /\ exporter'.active >= A /\ exporter'.idle \in Nat /\ exporter'.idle >= I
            /\ exporter'.active + exporter'.idle = (A + I) + d
        BY <3>2, <3>3
      <3>5. A + I = (IF exporter.seen THEN exporter.total - since ELSE 0)
        BY <1>4, <3>1
      <3> HIDE DEF A, I
      <3>6. since' \in Nat /\ (A + I) + d = v - since'
        BY <1>4, <2>61, <3>1, <3>5
      <3> QED
        BY <2>61, <3>4, <3>6 DEF A, I
    <2>8. GpuInv'
      <3>1. GpuShares(exporter, since)'
        BY <2>6, <2>61, <2>7 DEF GpuShares
      <3>2. exporter'.total <= kreading'.e["gpu"] /\ points' = gpuPoints(exporter)'
        BY <1>2, <2>61 DEF v, r
      <3> QED
        BY <1>1, <2>6, <3>1, <3>2 DEF GpuInv
    <2>9. SeriesGrow
      <3> SUFFICES ASSUME NEW s \in DOMAIN points \cap DOMAIN points' PROVE points'[s] >= points[s]
        BY DEF SeriesGrow
      <3>1. points'[s] = IF s = "active" THEN exporter'.active ELSE IF s = "idle" THEN exporter'.idle ELSE exporter'.total
        BY <1>2, GpuPointsAre
      <3>2. CASE exporter.seen
        <4>1. points[s] = IF s = "active" THEN exporter.active ELSE IF s = "idle" THEN exporter.idle ELSE exporter.total
          BY <1>4, <3>2, GpuPointsAre
        <4> QED
          BY <1>4, <2>61, <2>7, <3>1, <4>1
      <3>3. CASE ~exporter.seen
        BY <1>41, <2>61, <3>1, <3>3 DEF v
      <3> QED
        BY <3>2, <3>3
    <2> QED
      BY <2>8, <2>9
  <1> QED
    BY <1>5, <1>6

(* A restart of a GPU's exporter.                                          *)
LEMMA GpuRestart ==
    ASSUME MetersInv, GpuInv, KxRestarts, format = "gpu"
    PROVE  GpuInv' /\ SeriesGrow
  <1>1. /\ MetersInv' /\ format' = "gpu" /\ kreading.e["gpu"] <= kreading'.e["gpu"]
        /\ exporter' = k012Gpu /\ since' = 0
        /\ points' = [s \in DOMAIN points \cap {"dcgm", "amd", "total"} |-> points[s]]
    BY RestartIs DEF Meters, NoExporter, Origin, Hardware
  <1>2. kreading.e["gpu"] \in Nat /\ kreading'.e["gpu"] \in Nat
    BY <1>1 DEF MetersInv, Meters
  <1>3. \A s \in DOMAIN points \cap {"dcgm", "amd", "total"} : points[s] \in Nat /\ points[s] <= kreading.e["gpu"]
    <2>1. CASE exporter.seen
      BY <2>1, GpuPointsAre DEF GpuInv, GpuShares
    <2>2. CASE ~exporter.seen
      BY <2>2 DEF GpuInv
    <2> QED
      BY <2>1, <2>2
  <1>4. /\ ~exporter'.seen /\ exporter'.seen \in BOOLEAN /\ exporter'.at = 0 /\ exporter'.total = 0
        /\ exporter'.counter = [seen |-> exporter'.seen, last |-> exporter'.total]
        /\ exporter'.idleSeen \in BOOLEAN /\ exporter'.minIdle = 0 /\ exporter'.active = 0 /\ exporter'.idle = 0
    BY <1>1 DEF k012Gpu, NoCounter
  <1>5. \A s \in DOMAIN points' : points'[s] = points[s] /\ points[s] \in Nat /\ points'[s] <= kreading'.e["gpu"]
    BY <1>1, <1>2, <1>3
  <1>6. DOMAIN points' \subseteq {"dcgm", "amd", "total"}
    BY <1>1
  <1>7. GpuShares(exporter, since)' /\ exporter'.total <= kreading'.e["gpu"]
    BY <1>1, <1>2, <1>4 DEF GpuShares
  <1>8. SeriesGrow
    BY <1>5 DEF SeriesGrow
  <1>9. GpuInv'
    BY <1>1, <1>4, <1>5, <1>6, <1>7 DEF GpuInv
  <1> QED
    BY <1>8, <1>9

(* Kepler 0.7: a series, what it has split and where it began.             *)
IsSplit(s) ==
    /\ s = [f \in {"seen", "minLoad", "idleW", "idleJ", "dynJ", "excessJ"} |-> s[f]]
    /\ s.seen \in BOOLEAN /\ s.minLoad \in Nat /\ s.idleW \in Nat
    /\ s.idleJ \in Nat /\ s.dynJ \in Nat /\ s.excessJ \in Nat
SeriesInv(s, from) ==
    /\ IsSplit(s.split) /\ from \in Nat /\ s.counter.last \in Nat
    /\ s.split.idleJ + s.split.dynJ = (IF s.counter.seen THEN s.counter.last - from ELSE 0) + s.split.excessJ
K07Inv ==
    format = "k07" =>
        /\ exporter.seen \in BOOLEAN /\ exporter.at \in Nat /\ exporter.otherIdle \in Nat /\ exporter.otherDyn \in Nat
        /\ \A f \in k07Families : /\ SeriesInv(exporter.series[f], since[f]) /\ exporter.series[f].counter.seen = exporter.seen
                                  /\ exporter.series[f].counter.last <= EnergyOf(kreading, f)
        /\ points = k07Points(exporter) \/ DOMAIN points = {}

(* An increment is split without loss, and what it has too much is owned.  *)
LEMMA IncrementIs ==
    ASSUME NEW s, IsSplit(s), NEW d \in Nat, NEW dt \in Nat, d > 0 => dt > 0, NEW busy \in Nat
    PROVE  LET i == k07Increment(s, d, dt, busy)
           IN  /\ i.idle \in Nat /\ i.dyn \in Nat /\ i.excess \in Nat /\ i.lowest \in BOOLEAN
               /\ i.idle + i.dyn = d + i.excess
               /\ i.lowest => dt > 0
  <1> DEFINE low == ~s.seen \/ (busy <= s.minLoad /\ d \div dt <= s.idleW)
             idle == IF low THEN d ELSE s.idleW * dt
             i == k07Increment(s, d, dt, busy)
  <1>1. s.idleW * dt \in Nat
    BY DEF IsSplit
  <1>2. idle \in Nat /\ low \in BOOLEAN
    BY <1>1
  <1>3. i = IF d = 0 \/ dt = 0 THEN [idle |-> 0, dyn |-> 0, excess |-> 0, lowest |-> FALSE]
            ELSE [idle |-> idle, dyn |-> IF d > idle THEN d - idle ELSE 0,
                  excess |-> IF idle > d THEN idle - d ELSE 0, lowest |-> low]
    BY DEF k07Increment
  <1> HIDE DEF low, idle, i
  <1>4. CASE d = 0 \/ dt = 0
    <2>1. i.idle = 0 /\ i.dyn = 0 /\ i.excess = 0 /\ ~i.lowest /\ i.lowest \in BOOLEAN
      BY <1>3, <1>4
    <2>2. d = 0
      BY <1>4
    <2> QED
      BY <2>1, <2>2 DEF i
  <1>5. CASE ~(d = 0 \/ dt = 0)
    <2>1. /\ i.idle = idle /\ i.dyn = (IF d > idle THEN d - idle ELSE 0)
          /\ i.excess = (IF idle > d THEN idle - d ELSE 0) /\ i.lowest = low
      BY <1>3, <1>5
    <2> QED
      BY <1>2, <1>5, <2>1 DEF i
  <1> QED
    BY <1>4, <1>5

(* An increment that has an idle power only if time has passed.            *)
IsIncrement(i, dt) ==
    i.idle \in Nat /\ i.dyn \in Nat /\ i.excess \in Nat /\ i.lowest \in BOOLEAN /\ (i.lowest => dt > 0)

(* A split with an increment added.                                        *)
Added(n, s, i) ==
    IsSplit(n) /\ n.idleJ = s.idleJ + i.idle /\ n.dynJ = s.dynJ + i.dyn /\ n.excessJ = s.excessJ + i.excess

(* Adding an increment to a split.                                         *)
LEMMA AddIs ==
    ASSUME NEW s, IsSplit(s), NEW d \in Nat, NEW dt \in Nat, NEW busy \in Nat, NEW i, IsIncrement(i, dt)
    PROVE  Added(k07Add(s, i, d, dt, busy), s, i)
  <1> DEFINE a == s.idleJ + i.idle
             b == s.dynJ + i.dyn
             x == s.excessJ + i.excess
             sum == [s EXCEPT !.idleJ = a, !.dynJ = b, !.excessJ = x]
             w == d \div dt
             n == k07Add(s, i, d, dt, busy)
  <1>1. IsSplit(sum) /\ sum.idleJ = a /\ sum.dynJ = b /\ sum.excessJ = x
    <2>1. a \in Nat /\ b \in Nat /\ x \in Nat
      BY DEF IsSplit, IsIncrement
    <2> HIDE DEF a, b, x
    <2> QED
      BY <2>1 DEF IsSplit
  <1>2. n = IF i.lowest THEN [sum EXCEPT !.seen = TRUE, !.minLoad = busy, !.idleW = w] ELSE sum
    BY DEF k07Add, IsSplit
  <1>3. i.lowest => w \in Nat
    BY DEF IsIncrement
  <1> HIDE DEF sum, w, n, a, b, x
  <1>4. CASE i.lowest
    <2>2. IsSplit(n) /\ n.idleJ = a /\ n.dynJ = b /\ n.excessJ = x
      BY <1>1, <1>2, <1>3, <1>4 DEF IsSplit
    <2> QED
      BY <2>2 DEF Added, n, a, b, x
  <1>5. CASE ~i.lowest
    BY <1>1, <1>2, <1>5 DEF Added, n, a, b, x
  <1> QED
    BY <1>4, <1>5

(* Series that grow are served as growing.                                 *)
LEMMA K07PointsGrow ==
    ASSUME NEW st, NEW su,
           st.otherIdle \in Nat, st.otherDyn \in Nat, su.otherIdle \in Nat, su.otherDyn \in Nat,
           st.otherIdle <= su.otherIdle, st.otherDyn <= su.otherDyn,
           \A f \in k07Families :
              /\ st.series[f].split.idleJ \in Nat /\ su.series[f].split.idleJ \in Nat
              /\ st.series[f].split.dynJ \in Nat /\ su.series[f].split.dynJ \in Nat
              /\ st.series[f].split.idleJ <= su.series[f].split.idleJ
              /\ st.series[f].split.dynJ <= su.series[f].split.dynJ
    PROVE  \A s \in DOMAIN k07Points(st) \cap DOMAIN k07Points(su) : k07Points(su)[s] >= k07Points(st)[s]
  <1> DEFINE D(x) == {<<f, "dyn">> : f \in k07Families}
                        \cup {<<f, "idle">> : f \in {g \in k07Families : x.series[g].split.seen}}
                        \cup {<<"other", "idle">>, <<"other", "dyn">>}
             V(x, s) == IF s = <<"other", "idle">> THEN x.otherIdle ELSE IF s = <<"other", "dyn">> THEN x.otherDyn
                        ELSE IF s[2] = "idle" THEN x.series[s[1]].split.idleJ ELSE x.series[s[1]].split.dynJ
  <1>1. \A x : k07Points(x) = [s \in D(x) |-> V(x, s)]
    BY DEF k07Points
  <1>2. \A x : \A s \in D(x) : s = <<"other", "idle">> \/ s = <<"other", "dyn">> \/ s[1] \in k07Families
    OBVIOUS
  <1> HIDE DEF D
  <1>3. \A s \in D(st) : V(su, s) >= V(st, s)
    <2> SUFFICES ASSUME NEW s \in D(st) PROVE V(su, s) >= V(st, s)
      OBVIOUS
    <2>1. CASE s = <<"other", "idle">> \/ s = <<"other", "dyn">>
      BY <2>1
    <2>2. CASE s[1] \in k07Families /\ ~(s = <<"other", "idle">> \/ s = <<"other", "dyn">>)
      <3> DEFINE f == s[1]
      <3>1. /\ st.series[f].split.idleJ <= su.series[f].split.idleJ
            /\ st.series[f].split.dynJ <= su.series[f].split.dynJ
        BY <2>2
      <3> QED
        BY <2>2, <3>1
    <2> QED
      BY <1>2, <2>1, <2>2
  <1> HIDE DEF V
  <1>4. DOMAIN k07Points(st) = D(st) /\ (\A s \in D(st) : k07Points(st)[s] = V(st, s))
        /\ DOMAIN k07Points(su) = D(su) /\ (\A s \in D(su) : k07Points(su)[s] = V(su, s))
    BY <1>1
  <1> QED
    BY <1>3, <1>4

(* A tick of Kepler 0.7.                                                   *)
LEMMA K07Tick ==
    ASSUME MetersInv, K07Inv, KxTicks, format = "k07"
    PROVE  K07Inv' /\ SeriesGrow
  <1> DEFINE r == kreading'
             t == kclock'
             st == exporter
  <1>1. /\ MetersInv' /\ format' = "k07" /\ Meters[format] = {"package", "dram", "rest"}
        /\ (\A m \in {"package", "dram", "rest"} : kreading.e[m] <= r.e[m])
        /\ \E bad, listed : ObserveSnapshot(r, t, bad, listed)
    BY TickIs DEF Meters
  <1>2. /\ exporter' = k07Update(st, r, t) /\ points' = k07Points(exporter')
        /\ since' = IF st.seen THEN since ELSE [s \in k07Families |-> EnergyOf(r, s)]
    BY <1>1 DEF ObserveSnapshot
  <1>3. /\ \A m \in {"package", "dram", "rest"} : r.e[m] \in Nat /\ kreading.e[m] \in Nat
        /\ t \in Nat /\ r.load \in Nat
    BY <1>1, CompatAssumption DEF MetersInv, Meters
  <1>4. \A f \in k07Families : EnergyOf(r, f) \in Nat /\ EnergyOf(kreading, f) \in Nat /\ EnergyOf(kreading, f) <= EnergyOf(r, f)
    BY <1>1, <1>3 DEF EnergyOf, k07Families
  <1>5. /\ st.seen \in BOOLEAN /\ st.at \in Nat /\ st.otherIdle \in Nat /\ st.otherDyn \in Nat
        /\ \A f \in k07Families : /\ SeriesInv(st.series[f], since[f]) /\ st.series[f].counter.seen = st.seen
                                  /\ st.series[f].counter.last <= EnergyOf(kreading, f)
        /\ points = k07Points(st) \/ DOMAIN points = {}
    BY DEF K07Inv
  <1>6. \A f \in k07Families : IsSplit(st.series[f].split) /\ st.series[f].counter.last \in Nat
    BY <1>5 DEF SeriesInv
  <1>7. CASE ~Later(st, t)
    <2>1. exporter' = st /\ st.seen /\ since' = since
      BY <1>2, <1>7 DEF k07Update, Later
    <2>2. \A f \in k07Families : st.series[f].counter.last <= EnergyOf(r, f)
      BY <1>4, <1>5, <1>6
    <2>3. K07Inv'
      <3>1. \A f \in k07Families : exporter'.series[f].counter.last <= EnergyOf(kreading, f)'
        BY <2>1, <2>2 DEF EnergyOf
      <3>2. \A f \in k07Families : SeriesInv(exporter.series[f], since[f])' /\ exporter'.series[f].counter.seen = exporter'.seen
        BY <1>5, <2>1 DEF SeriesInv
      <3>3. points' = k07Points(exporter)'
        BY <1>2
      <3>4. exporter'.seen \in BOOLEAN /\ exporter'.at \in Nat /\ exporter'.otherIdle \in Nat /\ exporter'.otherDyn \in Nat
        BY <1>5, <2>1
      <3> QED
        BY <3>1, <3>2, <3>3, <3>4 DEF K07Inv
    <2>4. \A f \in k07Families : /\ st.series[f].split.idleJ \in Nat /\ st.series[f].split.dynJ \in Nat
                                 /\ st.series[f].split.idleJ <= st.series[f].split.idleJ
                                 /\ st.series[f].split.dynJ <= st.series[f].split.dynJ
      <3>1. \A x : IsSplit(x) => x.idleJ \in Nat /\ x.dynJ \in Nat
        BY DEF IsSplit
      <3>2. \A f \in k07Families : st.series[f].split.idleJ \in Nat /\ st.series[f].split.dynJ \in Nat
        BY <1>6, <3>1
      <3> QED
        BY <3>2
    <2>5. \A s \in DOMAIN k07Points(st) \cap DOMAIN k07Points(st) : k07Points(st)[s] >= k07Points(st)[s]
      BY <1>5, <2>4, K07PointsGrow
    <2>6. SeriesGrow
      BY <1>2, <1>5, <2>1, <2>5 DEF SeriesGrow
    <2> QED
      BY <2>3, <2>6
  <1>8. CASE Later(st, t)
    <2> DEFINE dt == IF st.seen THEN t - st.at ELSE 0
               d == [f \in k07Families |-> delta(st.series[f].counter, EnergyOf(r, f))]
               i == [f \in k07Families |-> k07Increment(st.series[f].split, d[f], dt, r.load)]
               sp(f) == k07Add(st.series[f].split, i[f], d[f], dt, r.load)
               Beyond(a, b) == IF a > b THEN a - b ELSE 0
               oi == Beyond(i["platform"].idle, i["package"].idle + i["dram"].idle)
               od == Beyond(i["platform"].dyn, i["package"].dyn + i["dram"].dyn)
    <2>1. exporter' = [seen |-> TRUE, at |-> t, otherIdle |-> st.otherIdle + oi, otherDyn |-> st.otherDyn + od,
              series |-> [f \in k07Families |-> [counter |-> Counted(EnergyOf(r, f)), split |-> sp(f)]]]
      BY <1>2, <1>8 DEF k07Update
    <2>2. dt \in Nat /\ (st.seen => dt > 0)
      BY <1>3, <1>5, <1>8 DEF Later
    <2>3. \A f \in k07Families : d[f] = (IF st.seen THEN EnergyOf(r, f) - st.series[f].counter.last ELSE 0) /\ d[f] \in Nat
      BY <1>4, <1>5, <1>6 DEF delta, SeriesInv
    <2> HIDE DEF dt, d
    <2>4. \A f \in k07Families : /\ i[f].idle \in Nat /\ i[f].dyn \in Nat /\ i[f].excess \in Nat /\ i[f].lowest \in BOOLEAN
                                 /\ i[f].idle + i[f].dyn = d[f] + i[f].excess
                                 /\ i[f].lowest => dt > 0
      <3> SUFFICES ASSUME NEW f \in k07Families
                   PROVE  /\ i[f].idle \in Nat /\ i[f].dyn \in Nat /\ i[f].excess \in Nat /\ i[f].lowest \in BOOLEAN
                          /\ i[f].idle + i[f].dyn = d[f] + i[f].excess
                          /\ i[f].lowest => dt > 0
        OBVIOUS
      <3> DEFINE s == st.series[f].split
                 df == d[f]
                 busy == r.load
      <3>1. IsSplit(s) /\ df \in Nat /\ (df > 0 => dt > 0) /\ busy \in Nat /\ dt \in Nat
        BY <1>3, <1>6, <2>2, <2>3
      <3>2. i[f] = k07Increment(s, df, dt, busy)
        OBVIOUS
      <3> HIDE DEF s, df, busy, i
      <3> QED
        BY <3>1, <3>2, IncrementIs DEF df
    <2> HIDE DEF i
    <2>5. oi \in Nat /\ od \in Nat
      <3>1. "platform" \in k07Families /\ "package" \in k07Families /\ "dram" \in k07Families
        BY DEF k07Families
      <3> QED
        BY <2>4, <3>1
    <2> HIDE DEF oi, od
    <2>6. \A f \in k07Families : /\ IsSplit(sp(f)) /\ sp(f).idleJ = st.series[f].split.idleJ + i[f].idle
                                 /\ sp(f).dynJ = st.series[f].split.dynJ + i[f].dyn
                                 /\ sp(f).excessJ = st.series[f].split.excessJ + i[f].excess
      <3> SUFFICES ASSUME NEW f \in k07Families
                   PROVE  /\ IsSplit(sp(f)) /\ sp(f).idleJ = st.series[f].split.idleJ + i[f].idle
                          /\ sp(f).dynJ = st.series[f].split.dynJ + i[f].dyn
                          /\ sp(f).excessJ = st.series[f].split.excessJ + i[f].excess
        OBVIOUS
      <3> DEFINE s == st.series[f].split
                 df == d[f]
                 j == i[f]
                 busy == r.load
      <3>1. /\ IsSplit(s) /\ df \in Nat /\ busy \in Nat /\ dt \in Nat
            /\ j.idle \in Nat /\ j.dyn \in Nat /\ j.excess \in Nat /\ j.lowest \in BOOLEAN /\ (j.lowest => dt > 0)
        BY <1>3, <1>6, <2>2, <2>3, <2>4
      <3>2. sp(f) = k07Add(s, j, df, dt, busy)
        OBVIOUS
      <3> DEFINE n == sp(f)
      <3>3. n = k07Add(s, j, df, dt, busy)
        BY <3>2
      <3> HIDE DEF s, df, busy, j, sp, n
      <3>5. IsIncrement(j, dt)
        BY <3>1 DEF IsIncrement
      <3>4. IsSplit(n) /\ n.idleJ = s.idleJ + j.idle /\ n.dynJ = s.dynJ + j.dyn /\ n.excessJ = s.excessJ + j.excess
        <4>1. Added(k07Add(s, j, df, dt, busy), s, j)
          BY <3>1, <3>5, AddIs
        <4> QED
          BY <3>3, <4>1 DEF Added
      <3> QED
        BY <3>4 DEF s, j, n
    <2> HIDE DEF sp
    <2>7. /\ exporter'.seen /\ exporter'.seen \in BOOLEAN /\ exporter'.at = t /\ exporter'.otherIdle = st.otherIdle + oi
          /\ exporter'.otherDyn = st.otherDyn + od
          /\ \A f \in k07Families : /\ exporter'.series[f].split = sp(f) /\ exporter'.series[f].counter.seen
                                    /\ exporter'.series[f].counter.last = EnergyOf(r, f)
      BY <2>1 DEF Counted
    <2>8. ASSUME NEW f \in k07Families
          PROVE  /\ SeriesInv(exporter'.series[f], since'[f])
                 /\ st.series[f].split.idleJ \in Nat /\ exporter'.series[f].split.idleJ \in Nat
                 /\ st.series[f].split.dynJ \in Nat /\ exporter'.series[f].split.dynJ \in Nat
                 /\ st.series[f].split.idleJ <= exporter'.series[f].split.idleJ
                 /\ st.series[f].split.dynJ <= exporter'.series[f].split.dynJ
      <3> DEFINE o == st.series[f].split
                 n == exporter'.series[f].split
                 v == EnergyOf(r, f)
                 l == st.series[f].counter.last
                 df == d[f]
                 a == i[f].idle
                 b == i[f].dyn
                 x == i[f].excess
      <3>1. /\ n.idleJ = o.idleJ + a /\ n.dynJ = o.dynJ + b /\ n.excessJ = o.excessJ + x /\ IsSplit(n)
            /\ a \in Nat /\ b \in Nat /\ x \in Nat /\ a + b = df + x /\ df \in Nat /\ v \in Nat /\ l \in Nat
            /\ df = IF st.seen THEN v - l ELSE 0
        BY <1>4, <1>6, <2>3, <2>4, <2>6, <2>7
      <3>2. /\ o.idleJ \in Nat /\ o.dynJ \in Nat /\ o.excessJ \in Nat
        BY <1>6 DEF IsSplit
      <3>3. o.idleJ + o.dynJ = (IF st.seen THEN l - since[f] ELSE 0) + o.excessJ /\ since[f] \in Nat
        BY <1>5 DEF SeriesInv
      <3>4. since'[f] = (IF st.seen THEN since[f] ELSE v) /\ exporter'.series[f].counter.seen
            /\ exporter'.series[f].counter.last = v
        BY <1>2, <2>7
      <3> HIDE DEF o, n, v, l, a, b, x, df
      <3>5. n.idleJ + n.dynJ = (v - since'[f]) + n.excessJ /\ since'[f] \in Nat
        <4>1. n.idleJ + n.dynJ = (o.idleJ + o.dynJ) + (df + x)
          BY <3>1, <3>2
        <4>2. CASE st.seen
          BY <3>1, <3>2, <3>3, <3>4, <4>1, <4>2
        <4>3. CASE ~st.seen
          BY <3>1, <3>2, <3>3, <3>4, <4>1, <4>3
        <4> QED
          BY <4>2, <4>3
      <3>6. SeriesInv(exporter'.series[f], since'[f])
        BY <3>1, <3>4, <3>5 DEF SeriesInv, n
      <3>7. o.idleJ <= n.idleJ /\ o.dynJ <= n.dynJ /\ n.idleJ \in Nat /\ n.dynJ \in Nat
        BY <3>1, <3>2
      <3> QED
        BY <3>2, <3>6, <3>7 DEF o, n
    <2>9. exporter'.otherIdle \in Nat /\ exporter'.otherDyn \in Nat /\ st.otherIdle <= exporter'.otherIdle
          /\ st.otherDyn <= exporter'.otherDyn
      BY <1>5, <2>5, <2>7
    <2>10. SeriesGrow
      <3>1. \A s \in DOMAIN k07Points(st) \cap DOMAIN k07Points(exporter') : k07Points(exporter')[s] >= k07Points(st)[s]
        BY <1>5, <2>8, <2>9, K07PointsGrow
      <3> QED
        BY <1>2, <1>5, <3>1 DEF SeriesGrow
    <2>11. K07Inv'
      <3>1. \A f : EnergyOf(r, f) = EnergyOf(kreading, f)'
        BY DEF EnergyOf
      <3>2. \A f \in k07Families : SeriesInv(exporter.series[f], since[f])' /\ exporter'.series[f].counter.seen = exporter'.seen
        BY <2>7, <2>8 DEF SeriesInv
      <3>3. points' = k07Points(exporter)'
        BY <1>2
      <3>4. \A f \in k07Families : exporter'.series[f].counter.last <= EnergyOf(kreading, f)'
        BY <1>4, <2>7, <3>1
      <3> QED
        BY <1>1, <1>3, <2>7, <2>9, <3>2, <3>3, <3>4 DEF K07Inv
    <2> QED
      BY <2>10, <2>11
  <1> QED
    BY <1>7, <1>8

(* An exporter of Kepler 0.7 that has just started.                        *)
LEMMA K07Starts ==
    ASSUME MetersInv, format = "k07", exporter = Kepler07, since = Origin("k07"), DOMAIN points = {}
    PROVE  K07Inv
  <1>1. /\ exporter.seen \in BOOLEAN /\ exporter.at = 0 /\ exporter.otherIdle = 0 /\ exporter.otherDyn = 0
        /\ \A f \in k07Families : /\ ~exporter.series[f].counter.seen /\ exporter.series[f].counter.seen = exporter.seen
                                  /\ exporter.series[f].counter.last = 0
                                  /\ exporter.series[f].split = NoSplit /\ since[f] = 0
    BY DEF Kepler07, Origin, NoCounter
  <1>2. IsSplit(NoSplit) /\ NoSplit.idleJ = 0 /\ NoSplit.dynJ = 0 /\ NoSplit.excessJ = 0
    BY DEF NoSplit, IsSplit
  <1>3. \A f \in k07Families : SeriesInv(exporter.series[f], since[f])
    BY <1>1, <1>2 DEF SeriesInv
  <1>4. \A f \in k07Families : EnergyOf(kreading, f) \in Nat
    <2>1. Meters[format] = {"package", "dram", "rest"}
      BY DEF Meters
    <2>2. kreading.e["package"] \in Nat /\ kreading.e["dram"] \in Nat /\ kreading.e["rest"] \in Nat
      BY <2>1 DEF MetersInv
    <2>3. EnergyOf(kreading, "package") \in Nat /\ EnergyOf(kreading, "dram") \in Nat
      BY <2>2 DEF EnergyOf
    <2>4. EnergyOf(kreading, "platform") \in Nat
      <3> DEFINE a == kreading.e["package"]
                 b == kreading.e["dram"]
                 x == kreading.e["rest"]
      <3>1. EnergyOf(kreading, "platform") = a + b + x
        BY DEF EnergyOf
      <3>2. a \in Nat /\ b \in Nat /\ x \in Nat
        BY <2>2
      <3> HIDE DEF a, b, x
      <3> QED
        BY <3>1, <3>2
    <2> QED
      BY <2>3, <2>4 DEF k07Families
  <1>5. \A f \in k07Families : exporter.series[f].counter.last <= EnergyOf(kreading, f)
    BY <1>1, <1>4
  <1> QED
    BY <1>1, <1>3, <1>5 DEF K07Inv


(* A zone's state.                                                         *)
IsZone(zs) ==
    /\ zs = [f \in {"has", "last", "current", "energy", "active", "idle"} |-> zs[f]]
    /\ zs.has \in BOOLEAN /\ zs.current \in Nat /\ zs.energy \in Nat /\ zs.active \in Nat /\ zs.idle \in Nat
(* What the parts of an aggregated zone last read.                         *)
Lasts == [{1, 2} -> [seen : BOOLEAN, last : 0..Range12]]
(* What a part counted since an origin, less its wraps.                    *)
Gained(o, p) == (o.upto[p] - o.at[p]) - ((o.upto[p] \div Span) - (o.at[p] \div Span))

(* The zones the node has.                                                 *)
LEMMA ZonesAre ==
    /\ ZoneNames = {"package", "psys"} /\ Parts = {"package-0", "package-1", "psys"}
    /\ Zones["package"] = <<"package-0", "package-1">> /\ Len(Zones["package"]) = 2 /\ DOMAIN Zones["package"] = {1, 2}
    /\ Zones["package"][1] = "package-0" /\ Zones["package"][2] = "package-1"
    /\ Zones["psys"] = <<"psys">> /\ Len(Zones["psys"]) = 1 /\ DOMAIN Zones["psys"] = {1} /\ Zones["psys"][1] = "psys"
    /\ MaxUJ("package") = 2 * Range12 /\ MaxUJ("psys") = Range12 /\ Range12 \in Nat /\ Range12 > 0
  BY CompatAssumption DEF ZoneNames, Zones, Parts, MaxUJ, Range12

(* An increment is a number, and no more than the range.                   *)
LEMMA DeltaTyped ==
    ASSUME NEW max \in Nat, NEW a \in 0..max, NEW b \in 0..max
    PROVE  k012Delta(b, a, max) \in 0..max
  BY DEF k012Delta

(* The counter of an aggregated zone across its own wrap.                  *)
LEMMA WrapIs ==
    ASSUME NEW max \in Nat, max > 0, NEW c \in Nat, c < max, NEW g \in Nat, g < max
    PROVE  /\ (c + g) % max \in Nat /\ (c + g) % max < max
           /\ k012Delta((c + g) % max, c, max) = g
  <1> DEFINE x == c + g
  <1>1. CASE x < max
    <2>1. x % max = x
      BY <1>1
    <2> QED
      BY <1>1, <2>1 DEF k012Delta
  <1>2. CASE x >= max
    <2> DEFINE y == x - max
    <2>1. y \in Nat /\ y < max /\ x = y + max
      BY <1>2
    <2> HIDE DEF y
    <2>2. (y + max) % max = y
      BY <2>1
    <2>3. x % max = y
      BY <2>1, <2>2
    <2> QED
      BY <1>2, <2>1, <2>3 DEF k012Delta
  <1> QED
    BY <1>1, <1>2

(* What a zone becomes of what its files read.                             *)
LEMMA UpdateIs ==
    ASSUME NEW zs, NEW z, NEW first \in BOOLEAN, NEW busy \in 0..KLoadMax, NEW tree, NEW bad, NEW e, NEW d,
           IsZone(zs), e = zoneEnergy(zs, z, tree, bad), IsZone(e.zone), e.zone.active = zs.active, e.zone.idle = zs.idle,
           e.abs \in Nat, e.failed \in BOOLEAN, d = k012Delta(e.abs, zs.energy, MaxUJ(z)), zs.has => d \in Nat
    PROVE  LET n == zoneUpdate(zs, z, first, busy, tree, bad)
           IN  /\ IsZone(n) /\ n.last = e.zone.last /\ n.current = e.zone.current
               /\ n.has => ~e.failed /\ n.energy = e.abs
               /\ n.has /\ (first \/ ~zs.has) => n.active = 0
               /\ n.has /\ zs.has /\ ~first => /\ n.active >= zs.active /\ n.idle >= zs.idle
                                              /\ n.active + n.idle = (zs.active + zs.idle) + d
  <1> DEFINE active == (d * busy) \div KLoadMax
             u == IF first \/ ~zs.has THEN 0 ELSE zs.active + active
             v == IF first THEN e.abs ELSE IF ~zs.has THEN 0 ELSE zs.idle + (d - active)
             n == zoneUpdate(zs, z, first, busy, tree, bad)
  <1>1. n = IF e.failed THEN [e.zone EXCEPT !.has = FALSE]
            ELSE [e.zone EXCEPT !.has = TRUE, !.energy = e.abs, !.active = u, !.idle = v]
    BY DEF zoneUpdate, IsZone
  <1>2. zs.has => active \in Nat /\ active <= d
    <2>1. busy \in Nat /\ busy <= KLoadMax /\ KLoadMax \in Nat /\ KLoadMax > 0
      BY CompatAssumption
    <2> QED
      BY <2>1, ShareIs
  <1>3. zs.active \in Nat /\ zs.idle \in Nat /\ zs.has \in BOOLEAN
    BY DEF IsZone
  <1> HIDE DEF active
  <1>4. u \in Nat /\ v \in Nat
    BY <1>2, <1>3
  <1>5. zs.has /\ ~first => u >= zs.active /\ v >= zs.idle /\ u + v = (zs.active + zs.idle) + d
    BY <1>2, <1>3
  <1>6. first \/ ~zs.has => u = 0
    OBVIOUS
  <1> HIDE DEF u, v, n
  <1>7. CASE e.failed
    <2>1. IsZone(n) /\ ~n.has /\ n.last = e.zone.last /\ n.current = e.zone.current
      BY <1>1, <1>7 DEF IsZone
    <2> QED
      BY <2>1 DEF n
  <1>8. CASE ~e.failed
    <2>1. IsZone(n) /\ n.has /\ n.last = e.zone.last /\ n.current = e.zone.current /\ n.energy = e.abs
          /\ n.active = u /\ n.idle = v
      BY <1>1, <1>4, <1>8 DEF IsZone
    <2> QED
      BY <1>5, <1>6, <1>8, <2>1 DEF n
  <1> QED
    BY <1>7, <1>8

(* What the platform zone reads.                                           *)
LEMMA PsysReads ==
    ASSUME NEW zs, NEW tree \in [Parts -> Nat], NEW bad
    PROVE  LET e == zoneEnergy(zs, "psys", tree, bad)
           IN  e.failed \in BOOLEAN /\ e.abs = tree["psys"] % Span /\ e.zone = zs
  <1> DEFINE reads == {i \in DOMAIN Zones["psys"] : \A j \in 1 .. i : Zones["psys"][j] \notin bad}
             failed == reads # DOMAIN Zones["psys"]
  <1>1. zoneEnergy(zs, "psys", tree, bad) = [failed |-> failed, abs |-> energy_uj(tree, Zones["psys"][1]), zone |-> zs]
    BY ZonesAre DEF zoneEnergy
  <1>2. failed \in BOOLEAN
    OBVIOUS
  <1> HIDE DEF failed
  <1> QED
    BY <1>1, <1>2, ZonesAre DEF energy_uj

(* What the package zone reads: each part's increment.                     *)
LEMMA PackageReads ==
    ASSUME NEW zs, IsZone(zs), zs.last \in Lasts, NEW tree \in [Parts -> Nat], NEW bad
    PROVE  LET e == zoneEnergy(zs, "package", tree, bad)
               g(i, p) == IF zs.last[i].seen THEN k012Delta(tree[p] % Span, zs.last[i].last, Range12) ELSE tree[p] % Span
               c == (zs.current + (g(1, "package-0") + g(2, "package-1"))) % (2 * Range12)
           IN  /\ e.failed \in BOOLEAN /\ IsZone(e.zone) /\ e.zone.last \in Lasts
               /\ e.zone.active = zs.active /\ e.zone.idle = zs.idle
               /\ ~e.failed => /\ e.zone.last[1] = Counted(tree["package-0"] % Span)
                               /\ e.zone.last[2] = Counted(tree["package-1"] % Span)
                               /\ e.abs = c /\ e.zone.current = c
               /\ e.failed => e.abs = 0 /\ e.zone.current = zs.current
  <1> DEFINE ps == Zones["package"]
             t0 == tree["package-0"] % Span
             t1 == tree["package-1"] % Span
             g(i, p) == IF zs.last[i].seen THEN k012Delta(tree[p] % Span, zs.last[i].last, Range12) ELSE tree[p] % Span
             reads == {i \in DOMAIN ps : \A j \in 1 .. i : ps[j] \notin bad}
             failed == reads # DOMAIN ps
             gain == [i \in DOMAIN ps |-> IF zs.last[i].seen THEN k012Delta(energy_uj(tree, ps[i]), zs.last[i].last, Range12)
                                          ELSE energy_uj(tree, ps[i])]
             last == [i \in DOMAIN ps |-> IF i \in reads THEN Counted(energy_uj(tree, ps[i])) ELSE zs.last[i]]
             current == (zs.current + Total(gain, DOMAIN ps)) % MaxUJ("package")
             e == zoneEnergy(zs, "package", tree, bad)
             sum == g(1, "package-0") + g(2, "package-1")
             c == (zs.current + sum) % (2 * Range12)
  <1>1. e = IF failed THEN [failed |-> TRUE, abs |-> 0, zone |-> [zs EXCEPT !.last = last]]
            ELSE [failed |-> FALSE, abs |-> current, zone |-> [zs EXCEPT !.last = last, !.current = current]]
    BY ZonesAre DEF zoneEnergy, Total
  <1>2. t0 \in 0..Range12 /\ t1 \in 0..Range12
    BY Shown, ZonesAre
  <1>3. g(1, "package-0") \in Nat /\ g(2, "package-1") \in Nat
    <2>1. zs.last[1].last \in 0..Range12 /\ zs.last[2].last \in 0..Range12
      BY DEF Lasts
    <2>2. k012Delta(t0, zs.last[1].last, Range12) \in 0..Range12 /\ k012Delta(t1, zs.last[2].last, Range12) \in 0..Range12
      BY <1>2, <2>1, DeltaTyped, ZonesAre
    <2> QED
      BY <1>2, <2>2, ZonesAre
  <1>4. gain \in [{1, 2} -> Nat] /\ gain[1] = g(1, "package-0") /\ gain[2] = g(2, "package-1")
    <2>1. DOMAIN gain = {1, 2} /\ gain[1] = g(1, "package-0") /\ gain[2] = g(2, "package-1")
      BY ZonesAre DEF energy_uj
    <2>2. gain = [i \in {1, 2} |-> gain[i]]
      BY ZonesAre
    <2> HIDE DEF gain, g
    <2> QED
      BY <1>3, <2>1, <2>2
  <1> HIDE DEF gain, g
  <1>5. Total(gain, DOMAIN ps) = sum
    <2>1. gain \in [{1, 2} -> Int] /\ IsFiniteSet({1, 2})
      <3>2. gain \in [{1, 2} -> Int]
        BY <1>4
      <3> QED
        BY <3>2, FiniteOnesTwos
    <2> QED
      BY <1>4, <2>1, FewTotals, ZonesAre
  <1>6. current = c
    BY <1>5, ZonesAre
  <1>7. c \in Nat
    <2>1. zs.current \in Nat /\ sum \in Nat /\ 2 * Range12 \in Nat /\ 2 * Range12 > 0
      BY <1>3, ZonesAre DEF IsZone
    <2> HIDE DEF sum
    <2> QED
      BY <2>1
  <1> HIDE DEF current, c
  <1>8. last \in Lasts
    <2>1. \A i \in {1, 2} : energy_uj(tree, ps[i]) \in 0..Range12
      BY <1>2, ZonesAre DEF energy_uj
    <2>2. \A i \in {1, 2} : Counted(energy_uj(tree, ps[i])) \in [seen : BOOLEAN, last : 0..Range12]
      BY <2>1 DEF Counted
    <2> QED
      BY <2>2, ZonesAre DEF Lasts
  <1>9. ~failed => last[1] = Counted(t0) /\ last[2] = Counted(t1)
    BY ZonesAre DEF energy_uj
  <1> HIDE DEF last, failed, e
  <1>10. CASE failed
    <2>1. e.failed /\ e.failed \in BOOLEAN /\ e.abs = 0 /\ e.zone = [zs EXCEPT !.last = last]
      BY <1>1, <1>10
    <2>2. IsZone(e.zone) /\ e.zone.last = last /\ e.zone.active = zs.active /\ e.zone.idle = zs.idle /\ e.zone.current = zs.current
      BY <2>1 DEF IsZone
    <2> QED
      BY <1>8, <2>1, <2>2 DEF e
  <1>11. CASE ~failed
    <2>1. ~e.failed /\ e.failed \in BOOLEAN /\ e.abs = c /\ e.zone = [zs EXCEPT !.last = last, !.current = c]
      BY <1>1, <1>6, <1>11
    <2>2. IsZone(e.zone) /\ e.zone.last = last /\ e.zone.active = zs.active /\ e.zone.idle = zs.idle /\ e.zone.current = c
      BY <1>7, <2>1 DEF IsZone
    <2> QED
      BY <1>8, <1>9, <1>11, <2>1, <2>2 DEF e, c, sum, g
  <1> QED
    BY <1>10, <1>11

(* Where a run of readings began and how far it is.                        *)
IsOrigin(o) ==
    /\ o = [f \in {"at", "base", "upto"} |-> o[f]]
    /\ o.at \in [Parts -> Nat] /\ o.upto \in [Parts -> Nat] /\ o.base \in Nat
(* The platform zone: its energy is what its file showed.                  *)
PsysInv(zs, o, shown) ==
    /\ IsZone(zs) /\ IsOrigin(o)
    /\ zs.has => /\ zs.energy = o.upto["psys"] % Span /\ o.upto["psys"] <= shown["psys"]
                 /\ zs.active + zs.idle = o.base + Gained(o, "psys")
(* The package zone: its energy is its own counter, which went on by what  *)
(* each part gained, and each part remembers what its file showed.         *)
PackageInv(zs, o, shown) ==
    /\ IsZone(zs) /\ IsOrigin(o) /\ zs.last \in Lasts /\ zs.current < 2 * Range12
    /\ zs.has => /\ zs.energy = zs.current
                 /\ zs.last[1] = Counted(o.upto["package-0"] % Span) /\ o.upto["package-0"] <= shown["package-0"]
                 /\ zs.last[2] = Counted(o.upto["package-1"] % Span) /\ o.upto["package-1"] <= shown["package-1"]
                 /\ zs.active + zs.idle = o.base + (Gained(o, "package-0") + Gained(o, "package-1"))
(* What since becomes.                                                     *)
NextOrigin(o, had, n, tree) ==
    IF ~n.has THEN o ELSE IF had THEN [o EXCEPT !.upto = tree] ELSE [at |-> tree, base |-> n.idle, upto |-> tree]

(* An origin after an update.                                              *)
LEMMA OriginIs ==
    ASSUME NEW o, IsOrigin(o), NEW had \in BOOLEAN, NEW n, IsZone(n), NEW tree \in [Parts -> Nat]
    PROVE  LET q == NextOrigin(o, had, n, tree)
           IN  /\ IsOrigin(q)
               /\ n.has => q.upto = tree
               /\ n.has /\ had => q.at = o.at /\ q.base = o.base
               /\ n.has /\ ~had => q.at = tree /\ q.base = n.idle
  <1> DEFINE q == NextOrigin(o, had, n, tree)
  <1>1. CASE ~n.has
    BY <1>1 DEF NextOrigin
  <1>2. CASE n.has /\ had
    <2>1. q = [o EXCEPT !.upto = tree]
      BY <1>2 DEF NextOrigin
    <2> HIDE DEF q
    <2>2. IsOrigin(q) /\ q.upto = tree /\ q.at = o.at /\ q.base = o.base
      BY <2>1 DEF IsOrigin
    <2> QED
      BY <1>2, <2>2 DEF q
  <1>3. CASE n.has /\ ~had
    <2>1. q = [at |-> tree, base |-> n.idle, upto |-> tree] /\ n.idle \in Nat
      BY <1>3 DEF NextOrigin, IsZone
    <2> HIDE DEF q
    <2>2. IsOrigin(q) /\ q.upto = tree /\ q.at = tree /\ q.base = n.idle
      BY <2>1 DEF IsOrigin
    <2> QED
      BY <1>3, <2>2 DEF q
  <1> QED
    BY <1>1, <1>2, <1>3 DEF IsZone

(* What was gained goes on by an increment.                                *)
LEMMA GainedIs ==
    ASSUME NEW o, NEW q, NEW p \in Parts, IsOrigin(o), IsOrigin(q)
    PROVE  /\ Gained(o, p) \in Int
           /\ q.at = q.upto => Gained(q, p) = 0
           /\ q.at = o.at /\ o.upto[p] <= q.upto[p] /\ q.upto[p] - o.upto[p] < Range12 =>
                 LET g == k012Delta(q.upto[p] % Span, o.upto[p] % Span, Range12)
                 IN  g \in Nat /\ g < Range12 /\ Gained(q, p) = Gained(o, p) + g
  <1> DEFINE a == o.at[p]
             b == o.upto[p]
             x == q.upto[p]
             da == a \div Span
             db == b \div Span
             dx == x \div Span
             y == q.at[p]
             dy == y \div Span
             g == k012Delta(x % Span, b % Span, Range12)
  <1>1. a \in Nat /\ b \in Nat /\ x \in Nat /\ y \in Nat
    BY DEF IsOrigin
  <1>2. da \in Nat /\ db \in Nat /\ dx \in Nat /\ dy \in Nat
    BY <1>1, Shown
  <1>3. Gained(o, p) = (b - a) - (db - da) /\ Gained(q, p) = (x - y) - (dx - dy)
    BY DEF Gained
  <1>4. b <= x /\ x - b < Range12 => g = (x - b) - (dx - db) /\ dx >= db
    <2> SUFFICES ASSUME b <= x, x - b < Range12 PROVE g = (x - b) - (dx - db) /\ dx >= db
      OBVIOUS
    <2>1. x - b < Span
      BY <1>1, CompatAssumption DEF Range12
    <2>2. g = (x - b) - (dx - db)
      BY <1>1, <2>1, DeltaIs
    <2>3. dx >= db
      <3>1. Span \in Nat /\ Span > 0
        BY CompatAssumption
      <3>2. /\ x % Span \in 0..Range12 /\ b % Span \in 0..Range12 /\ Range12 = Span - 1
            /\ x = (Span * dx) + (x % Span) /\ b = (Span * db) + (b % Span)
        BY <1>1, Shown DEF Range12
      <3> DEFINE rx == x % Span
                 rb == b % Span
      <3> HIDE DEF a, b, x, da, db, dx, rx, rb
      <3>3. SUFFICES ASSUME dx < db PROVE FALSE
        BY <1>2
      <3>4. Span * db >= Span * (dx + 1)
        BY <1>2, <3>1, <3>3
      <3>5. Span * (dx + 1) = Span * dx + Span
        BY <1>2, <3>1
      <3> DEFINE u == Span * dx
                 v == Span * db
      <3>6. u \in Int /\ v \in Int /\ v >= u + Span /\ x = u + rx /\ b = v + rb /\ rx \in 0..Range12 /\ rb \in 0..Range12
        BY <1>2, <3>1, <3>2, <3>4, <3>5 DEF rx, rb
      <3> HIDE DEF u, v
      <3> QED
        BY <1>1, <3>1, <3>2, <3>6
    <2> QED
      BY <2>2, <2>3
  <1>5. b <= x /\ x - b < Range12 => g \in Nat
    <2>1. x % Span \in 0..Range12 /\ b % Span \in 0..Range12 /\ Range12 \in Nat
      BY <1>1, Shown, ZonesAre
    <2> QED
      BY <2>1, DeltaTyped
  <1>6. (q.at = q.upto => y = x) /\ (q.at = o.at => y = a)
    OBVIOUS
  <1>7. Range12 \in Nat
    BY ZonesAre
  <1>8. y = x => dy = dx
    OBVIOUS
  <1>9. y = a => dy = da
    OBVIOUS
  <1> HIDE DEF a, b, x, y, da, db, dx, dy, g
  <1>10. Gained(o, p) \in Int
    BY <1>1, <1>2, <1>3
  <1>11. q.at = q.upto => Gained(q, p) = 0
    BY <1>1, <1>2, <1>3, <1>6, <1>8
  <1>12. q.at = o.at /\ b <= x /\ x - b < Range12 => g \in Nat /\ g < Range12 /\ Gained(q, p) = Gained(o, p) + g
    BY <1>1, <1>2, <1>3, <1>4, <1>5, <1>6, <1>7, <1>9
  <1> QED
    BY <1>10, <1>11, <1>12 DEF b, x, g

(* A part shown at b by the reading an origin is up to, and at x by the    *)
(* next one, g further.                                                    *)
GoesOn(o, q, p, b, x, g) ==
    /\ p \in Parts /\ IsOrigin(o) /\ IsOrigin(q) /\ q.at = o.at
    /\ b \in Nat /\ x \in Nat /\ o.upto[p] = b /\ q.upto[p] = x /\ b <= x /\ x - b < Range12
    /\ g = k012Delta(x % Span, b % Span, Range12)

(* What was gained goes on by what the part went on.                       *)
LEMMA GainedStep ==
    ASSUME NEW o, NEW q, NEW p, NEW b, NEW x, NEW g, GoesOn(o, q, p, b, x, g)
    PROVE  g < Range12 /\ Gained(o, p) \in Int /\ Gained(q, p) = Gained(o, p) + g
  BY GainedIs DEF GoesOn

(* A reading of the platform zone.                                         *)
LEMMA PsysStep ==
    ASSUME NEW zs, NEW o, NEW shown \in [Parts -> Nat], PsysInv(zs, o, shown), NEW tree \in [Parts -> Nat],
           \A p \in Parts : shown[p] <= tree[p],
           NEW first \in BOOLEAN, first => ~zs.has, NEW busy \in 0..KLoadMax, NEW bad,
           NEW n, n = zoneUpdate(zs, "psys", first, busy, tree, bad), NEW q, q = NextOrigin(o, zs.has, n, tree),
           zs.has => tree["psys"] - o.upto["psys"] < Range12
    PROVE  /\ PsysInv(n, q, tree)
           /\ n.has /\ zs.has => n.active >= zs.active /\ n.idle >= zs.idle
  <1> DEFINE e == zoneEnergy(zs, "psys", tree, bad)
             d == k012Delta(e.abs, zs.energy, MaxUJ("psys"))
             t == tree["psys"]
  <1>1. IsZone(zs) /\ IsOrigin(o) /\ zs.has \in BOOLEAN /\ "psys" \in Parts
    BY ZonesAre DEF PsysInv, IsZone
  <1>2. e.failed \in BOOLEAN /\ e.abs = t % Span /\ e.zone = zs
    BY PsysReads
  <1>3. t \in Nat /\ t % Span \in 0..Range12 /\ t % Span \in Nat /\ MaxUJ("psys") = Range12 /\ Range12 \in Nat
    BY <1>1, Shown, ZonesAre
  <1>4. zs.has => zs.energy = o.upto["psys"] % Span /\ o.upto["psys"] \in Nat /\ zs.energy \in 0..Range12
    BY <1>1, Shown DEF PsysInv, IsOrigin
  <1>0. t = tree["psys"] /\ e = zoneEnergy(zs, "psys", tree, bad) /\ d = k012Delta(e.abs, zs.energy, MaxUJ("psys"))
    OBVIOUS
  <1> HIDE DEF e, d, t
  <1>5. zs.has => d \in Nat
    <2>1. zs.has => k012Delta(t % Span, zs.energy, Range12) \in 0..Range12
      BY <1>3, <1>4, DeltaTyped
    <2>2. d = k012Delta(t % Span, zs.energy, Range12)
      BY <1>0, <1>2, <1>3
    <2> QED
      BY <1>3, <2>1, <2>2
  <1>6. /\ IsZone(n) /\ (n.has => n.energy = t % Span)
        /\ n.has /\ (first \/ ~zs.has) => n.active = 0
        /\ n.has /\ zs.has /\ ~first => /\ n.active >= zs.active /\ n.idle >= zs.idle
                                       /\ n.active + n.idle = (zs.active + zs.idle) + d
    BY <1>0, <1>1, <1>2, <1>3, <1>5, UpdateIs
  <1>7. /\ IsOrigin(q) /\ (n.has => q.upto = tree)
        /\ n.has /\ zs.has => q.at = o.at /\ q.base = o.base
        /\ n.has /\ ~zs.has => q.at = tree /\ q.base = n.idle
    BY <1>1, <1>6, OriginIs
  <1>8. CASE ~n.has
    BY <1>6, <1>7, <1>8 DEF PsysInv
  <1>9. CASE n.has /\ ~zs.has
    <2>1. n.active = 0 /\ n.idle \in Nat /\ Gained(q, "psys") = 0 /\ q.base = n.idle /\ q.upto = tree
      BY <1>1, <1>6, <1>7, <1>9, GainedIs DEF IsZone
    <2>2. n.active + n.idle = q.base + Gained(q, "psys")
      BY <2>1
    <2> QED
      BY <1>0, <1>3, <1>6, <1>7, <1>9, <2>1, <2>2 DEF PsysInv
  <1>10. CASE n.has /\ zs.has
    <2>1. o.upto["psys"] <= t /\ t - o.upto["psys"] < Range12 /\ t = q.upto["psys"]
      <3> DEFINE b == o.upto["psys"]
                 m == shown["psys"]
      <3>1. b <= m
        BY <1>10 DEF PsysInv
      <3>2. m \in Nat /\ m <= t /\ b \in Nat
        BY <1>0, <1>1, <1>4, <1>10
      <3>3. t - b < Range12 /\ t = q.upto["psys"]
        BY <1>0, <1>7, <1>10
      <3> HIDE DEF b, m
      <3>4. b <= t
        BY <1>3, <3>1, <3>2
      <3> QED
        BY <3>3, <3>4 DEF b
    <2>2. d = k012Delta(t % Span, o.upto["psys"] % Span, Range12)
      BY <1>0, <1>2, <1>3, <1>4, <1>10
    <2>3. Gained(o, "psys") \in Int /\ Gained(q, "psys") = Gained(o, "psys") + d
      <3>1. GoesOn(o, q, "psys", o.upto["psys"], t, d)
        BY <1>1, <1>3, <1>4, <1>7, <1>10, <2>1, <2>2 DEF GoesOn
      <3> QED
        BY <3>1, GainedStep
    <2>7. zs.active \in Nat /\ zs.idle \in Nat
      BY <1>1 DEF IsZone
    <2>4. n.active + n.idle = (zs.active + zs.idle) + d /\ zs.active + zs.idle = o.base + Gained(o, "psys")
          /\ q.base = o.base /\ o.base \in Nat /\ n.active >= zs.active /\ n.idle >= zs.idle
      BY <1>1, <1>6, <1>7, <1>10 DEF PsysInv, IsOrigin
    <2>5. n.active + n.idle = q.base + Gained(q, "psys")
      <3> DEFINE S == zs.active + zs.idle
                 b == o.base
                 x == Gained(o, "psys")
      <3>1. S = b + x /\ b \in Nat /\ x \in Int /\ d \in Nat /\ Gained(q, "psys") = x + d
            /\ n.active + n.idle = S + d /\ q.base = b
        BY <1>5, <1>10, <2>3, <2>4
      <3> HIDE DEF S, b, x
      <3> QED
        BY <3>1
    <2>6. q.upto["psys"] <= tree["psys"] /\ n.energy = q.upto["psys"] % Span
      <3>1. t <= t
        BY <1>3
      <3> QED
        BY <1>0, <1>6, <1>10, <2>1, <3>1
    <2> QED
      BY <1>6, <1>7, <2>4, <2>5, <2>6 DEF PsysInv
  <1> QED
    BY <1>6, <1>8, <1>9, <1>10 DEF IsZone

(* A reading of the package zone.                                          *)
LEMMA PackageStep ==
    ASSUME NEW zs, NEW o, NEW shown \in [Parts -> Nat], PackageInv(zs, o, shown), NEW tree \in [Parts -> Nat],
           \A p \in Parts : shown[p] <= tree[p],
           NEW first \in BOOLEAN, first => ~zs.has, NEW busy \in 0..KLoadMax, NEW bad,
           NEW n, n = zoneUpdate(zs, "package", first, busy, tree, bad), NEW q, q = NextOrigin(o, zs.has, n, tree),
           zs.has => /\ tree["package-0"] - o.upto["package-0"] < Range12
                     /\ tree["package-1"] - o.upto["package-1"] < Range12
    PROVE  /\ PackageInv(n, q, tree)
           /\ n.has /\ zs.has => n.active >= zs.active /\ n.idle >= zs.idle
  <1> DEFINE e == zoneEnergy(zs, "package", tree, bad)
             max == 2 * Range12
             d == k012Delta(e.abs, zs.energy, MaxUJ("package"))
             t0 == tree["package-0"]
             t1 == tree["package-1"]
             b0 == o.upto["package-0"]
             b1 == o.upto["package-1"]
             g(i, p) == IF zs.last[i].seen THEN k012Delta(tree[p] % Span, zs.last[i].last, Range12) ELSE tree[p] % Span
             g0 == g(1, "package-0")
             g1 == g(2, "package-1")
             c == (zs.current + (g0 + g1)) % max
  <1>1. IsZone(zs) /\ IsOrigin(o) /\ zs.has \in BOOLEAN /\ "package-0" \in Parts /\ "package-1" \in Parts
        /\ zs.last \in Lasts /\ zs.current \in Nat /\ zs.current < max
    BY ZonesAre DEF PackageInv, IsZone
  <1>2. /\ e.failed \in BOOLEAN /\ IsZone(e.zone) /\ e.zone.last \in Lasts
        /\ e.zone.active = zs.active /\ e.zone.idle = zs.idle
        /\ ~e.failed => /\ e.zone.last[1] = Counted(t0 % Span)
                        /\ e.zone.last[2] = Counted(t1 % Span)
                        /\ e.abs = c /\ e.zone.current = c
        /\ e.failed => e.abs = 0 /\ e.zone.current = zs.current
    BY <1>1, PackageReads
  <1>3. max \in Nat /\ max > 0 /\ MaxUJ("package") = max /\ t0 \in Nat /\ t1 \in Nat
        /\ t0 % Span \in 0..Range12 /\ t1 % Span \in 0..Range12 /\ Range12 \in Nat
    BY <1>1, Shown, ZonesAre
  <1>0. /\ e = zoneEnergy(zs, "package", tree, bad) /\ d = k012Delta(e.abs, zs.energy, MaxUJ("package"))
        /\ t0 = tree["package-0"] /\ t1 = tree["package-1"] /\ b0 = o.upto["package-0"] /\ b1 = o.upto["package-1"]
    OBVIOUS
  <1>4. g0 \in Nat /\ g1 \in Nat
    <2>1. zs.last[1].last \in 0..Range12 /\ zs.last[2].last \in 0..Range12
      BY <1>1 DEF Lasts
    <2>2. k012Delta(t0 % Span, zs.last[1].last, Range12) \in 0..Range12
          /\ k012Delta(t1 % Span, zs.last[2].last, Range12) \in 0..Range12
      BY <1>3, <2>1, DeltaTyped
    <2> QED
      BY <1>3, <2>2
  <1>5. zs.has => /\ g0 = k012Delta(t0 % Span, b0 % Span, Range12) /\ g1 = k012Delta(t1 % Span, b1 % Span, Range12)
                  /\ b0 \in Nat /\ b1 \in Nat /\ b0 <= t0 /\ b1 <= t1 /\ t0 - b0 < Range12 /\ t1 - b1 < Range12
    <2> SUFFICES ASSUME zs.has
                 PROVE  /\ g0 = k012Delta(t0 % Span, b0 % Span, Range12) /\ g1 = k012Delta(t1 % Span, b1 % Span, Range12)
                        /\ b0 \in Nat /\ b1 \in Nat /\ b0 <= t0 /\ b1 <= t1 /\ t0 - b0 < Range12 /\ t1 - b1 < Range12
      OBVIOUS
    <2>1. zs.last[1] = Counted(b0 % Span) /\ zs.last[2] = Counted(b1 % Span) /\ b0 <= shown["package-0"] /\ b1 <= shown["package-1"]
      BY DEF PackageInv
    <2>2. zs.last[1].seen /\ zs.last[1].last = b0 % Span /\ zs.last[2].seen /\ zs.last[2].last = b1 % Span
      BY <2>1 DEF Counted
    <2>3. b0 \in Nat /\ b1 \in Nat /\ shown["package-0"] \in Nat /\ shown["package-1"] \in Nat
          /\ shown["package-0"] <= t0 /\ shown["package-1"] <= t1
      BY <1>1 DEF IsOrigin
    <2>4. g0 = k012Delta(t0 % Span, b0 % Span, Range12) /\ g1 = k012Delta(t1 % Span, b1 % Span, Range12)
      BY <2>2
    <2>5. b0 <= t0 /\ b1 <= t1
      BY <1>3, <2>1, <2>3
    <2> QED
      BY <2>3, <2>4, <2>5
  <1> HIDE DEF g0, g1, g, e, d, max, t0, t1, b0, b1
  <1>6. c \in Nat /\ c < max
    <2> DEFINE x == zs.current + (g0 + g1)
    <2>1. x \in Nat /\ c = x % max
      BY <1>1, <1>4
    <2> HIDE DEF x, c
    <2> QED
      BY <1>3, <2>1
  <1>7. zs.has => zs.energy = zs.current
    BY DEF PackageInv
  <1>8. e.abs \in Nat /\ e.abs < max
    BY <1>2, <1>3, <1>6
  <1>9. zs.has => d \in Nat
    <2>1. zs.has => zs.energy \in 0..max /\ e.abs \in 0..max
      BY <1>1, <1>3, <1>7, <1>8
    <2> QED
      <3>1. zs.has => k012Delta(e.abs, zs.energy, max) \in 0..max
        BY <1>3, <2>1, DeltaTyped
      <3>2. d = k012Delta(e.abs, zs.energy, max)
        BY <1>0, <1>3
      <3> QED
        BY <1>3, <3>1, <3>2
  <1> HIDE DEF c
  <1>10. /\ IsZone(n) /\ n.last = e.zone.last /\ n.current = e.zone.current /\ (n.has => ~e.failed /\ n.energy = e.abs)
         /\ n.has /\ (first \/ ~zs.has) => n.active = 0
         /\ n.has /\ zs.has /\ ~first => /\ n.active >= zs.active /\ n.idle >= zs.idle
                                        /\ n.active + n.idle = (zs.active + zs.idle) + d
    BY <1>0, <1>1, <1>2, <1>8, <1>9, UpdateIs
  <1>11. /\ IsOrigin(q) /\ (n.has => q.upto = tree)
         /\ n.has /\ zs.has => q.at = o.at /\ q.base = o.base
         /\ n.has /\ ~zs.has => q.at = tree /\ q.base = n.idle
    BY <1>1, <1>10, OriginIs
  <1>12. n.last \in Lasts /\ n.current < max
    BY <1>1, <1>2, <1>6, <1>10
  <1>13. n.has => /\ n.energy = n.current /\ q.upto["package-0"] = t0 /\ q.upto["package-1"] = t1
                  /\ n.last[1] = Counted(t0 % Span) /\ n.last[2] = Counted(t1 % Span) /\ n.energy = c
    BY <1>0, <1>2, <1>10, <1>11
  <1>14. n.has => n.active + n.idle = q.base + (Gained(q, "package-0") + Gained(q, "package-1"))
    <2>1. CASE n.has /\ ~zs.has
      <3>1. n.active = 0 /\ n.idle \in Nat /\ Gained(q, "package-0") = 0 /\ Gained(q, "package-1") = 0 /\ q.base = n.idle
        BY <1>1, <1>10, <1>11, <2>1, GainedIs DEF IsZone
      <3> QED
        BY <3>1
    <2>2. CASE n.has /\ zs.has
      <3>1. /\ g0 < Range12 /\ Gained(o, "package-0") \in Int /\ Gained(q, "package-0") = Gained(o, "package-0") + g0
        <4>1. GoesOn(o, q, "package-0", b0, t0, g0)
          BY <1>0, <1>1, <1>3, <1>5, <1>11, <1>13, <2>2 DEF GoesOn
        <4> QED
          BY <4>1, GainedStep
      <3>2. /\ g1 < Range12 /\ Gained(o, "package-1") \in Int /\ Gained(q, "package-1") = Gained(o, "package-1") + g1
        <4>1. GoesOn(o, q, "package-1", b1, t1, g1)
          BY <1>0, <1>1, <1>3, <1>5, <1>11, <1>13, <2>2 DEF GoesOn
        <4> QED
          BY <4>1, GainedStep
      <3>3. g0 + g1 \in Nat /\ g0 + g1 < max
        BY <1>3, <1>4, <3>1, <3>2 DEF max
      <3>4. d = g0 + g1
        <4> DEFINE y == g0 + g1
        <4>1. y \in Nat /\ y < max
          BY <3>3
        <4>2. c = (zs.current + y) % max
          BY DEF c
        <4> HIDE DEF y
        <4>3. k012Delta(c, zs.current, max) = y
          BY <1>1, <1>3, <4>1, <4>2, WrapIs
        <4> QED
          BY <1>0, <1>3, <1>7, <1>10, <1>13, <2>2, <4>3 DEF y
      <3>5. n.active + n.idle = (zs.active + zs.idle) + d /\ q.base = o.base /\ o.base \in Nat
            /\ zs.active + zs.idle = o.base + (Gained(o, "package-0") + Gained(o, "package-1"))
        BY <1>1, <1>10, <1>11, <2>2 DEF PackageInv, IsOrigin
      <3> DEFINE S == zs.active + zs.idle
                 b == o.base
                 x0 == Gained(o, "package-0")
                 x1 == Gained(o, "package-1")
      <3>6. S = b + (x0 + x1) /\ b \in Nat /\ x0 \in Int /\ x1 \in Int /\ n.active + n.idle = S + (g0 + g1) /\ q.base = b
            /\ Gained(q, "package-0") = x0 + g0 /\ Gained(q, "package-1") = x1 + g1
        BY <3>1, <3>2, <3>4, <3>5
      <3> HIDE DEF S, b, x0, x1
      <3> QED
        BY <1>4, <3>6
    <2> QED
      BY <1>1, <2>1, <2>2
  <1>15. n.has => q.upto["package-0"] <= tree["package-0"] /\ q.upto["package-1"] <= tree["package-1"]
    <2>1. t0 <= t0 /\ t1 <= t1
      BY <1>3
    <2> QED
      BY <1>0, <1>13, <2>1
  <1>16. PackageInv(n, q, tree)
    BY <1>0, <1>10, <1>11, <1>12, <1>13, <1>14, <1>15 DEF PackageInv, max
  <1>17. n.has /\ zs.has => n.active >= zs.active /\ n.idle >= zs.idle
    BY <1>10
  <1> QED
    BY <1>16, <1>17

(* Kepler 0.12: its two zones, and what is served of them.                 *)
K012Inv ==
    format = "k012" =>
        /\ exporter = [f \in {"seen", "at", "found", "zones"} |-> exporter[f]] /\ exporter.seen \in BOOLEAN
        /\ PackageInv(exporter.zones["package"], since["package"], kshown)
        /\ PsysInv(exporter.zones["psys"], since["psys"], kshown)
        /\ ~exporter.seen => ~exporter.zones["package"].has /\ ~exporter.zones["psys"].has
        /\ points = k012Points(exporter) \/ DOMAIN points = {}
(* No part of a zone that was read wraps its range between two readings:   *)
(* what k012Delta, like its upstream, cannot see.                          *)
OneWrap ==
    format = "k012" =>
        \A z \in ZoneNames : exporter.zones[z].has =>
            \A i \in DOMAIN Zones[z] : kshown'[Zones[z][i]] - since[z].upto[Zones[z][i]] < Range12

(* Series that grow are served as growing.                                 *)
LEMMA K012PointsGrow ==
    ASSUME NEW st, NEW su,
           \A z \in ZoneNames : st.zones[z].has /\ su.zones[z].has =>
              su.zones[z].active >= st.zones[z].active /\ su.zones[z].idle >= st.zones[z].idle
    PROVE  \A s \in DOMAIN k012Points(st) \cap DOMAIN k012Points(su) : k012Points(su)[s] >= k012Points(st)[s]
  <1> DEFINE D(x) == {<<z, m>> : z \in {y \in ZoneNames : x.zones[y].has}, m \in {"active", "idle"}}
  <1>1. \A x : k012Points(x) = [s \in D(x) |-> x.zones[s[1]][s[2]]]
    BY DEF k012Points
  <1>2. \A x : \A s \in D(x) : s[1] \in ZoneNames /\ x.zones[s[1]].has /\ (s[2] = "active" \/ s[2] = "idle")
    OBVIOUS
  <1> HIDE DEF D
  <1>3. DOMAIN k012Points(st) = D(st) /\ (\A s \in D(st) : k012Points(st)[s] = st.zones[s[1]][s[2]])
        /\ DOMAIN k012Points(su) = D(su) /\ (\A s \in D(su) : k012Points(su)[s] = su.zones[s[1]][s[2]])
    BY <1>1
  <1> SUFFICES ASSUME NEW s \in D(st), s \in D(su) PROVE su.zones[s[1]][s[2]] >= st.zones[s[1]][s[2]]
    BY <1>3
  <1> DEFINE z == s[1]
             m == s[2]
  <1>4. z \in ZoneNames /\ st.zones[z].has /\ su.zones[z].has /\ (m = "active" \/ m = "idle")
    BY <1>2
  <1> HIDE DEF z, m
  <1>5. su.zones[z].active >= st.zones[z].active /\ su.zones[z].idle >= st.zones[z].idle
    BY <1>4
  <1>6. su.zones[z][m] >= st.zones[z][m]
    BY <1>4, <1>5
  <1> QED
    BY <1>6 DEF z, m

(* The files only go on, so a zone that was not read stays as it was.      *)
LEMMA ZonesRest ==
    ASSUME NEW shown \in [Parts -> Nat], NEW tree \in [Parts -> Nat], \A p \in Parts : shown[p] <= tree[p], NEW zs, NEW o
    PROVE  /\ PackageInv(zs, o, shown) => PackageInv(zs, o, tree)
           /\ PsysInv(zs, o, shown) => PsysInv(zs, o, tree)
  <1>1. ASSUME NEW p \in Parts, NEW a \in Nat, a <= shown[p] PROVE a <= tree[p]
    <2>1. shown[p] \in Nat /\ tree[p] \in Nat /\ shown[p] <= tree[p]
      OBVIOUS
    <2> QED
      BY <1>1, <2>1
  <1>2. "package-0" \in Parts /\ "package-1" \in Parts /\ "psys" \in Parts
    BY ZonesAre
  <1>3. \A x : IsOrigin(x) => \A p \in Parts : x.upto[p] \in Nat
    BY DEF IsOrigin
  <1>4. PackageInv(zs, o, shown) => PackageInv(zs, o, tree)
    <2> SUFFICES ASSUME PackageInv(zs, o, shown) PROVE PackageInv(zs, o, tree)
      OBVIOUS
    <2>1. o.upto["package-0"] \in Nat /\ o.upto["package-1"] \in Nat
      BY <1>2, <1>3 DEF PackageInv
    <2>2. zs.has => o.upto["package-0"] <= shown["package-0"] /\ o.upto["package-1"] <= shown["package-1"]
      BY DEF PackageInv
    <2>3. zs.has => o.upto["package-0"] <= tree["package-0"] /\ o.upto["package-1"] <= tree["package-1"]
      BY <1>1, <1>2, <2>1, <2>2
    <2> QED
      BY <2>3 DEF PackageInv
  <1>5. PsysInv(zs, o, shown) => PsysInv(zs, o, tree)
    <2> SUFFICES ASSUME PsysInv(zs, o, shown) PROVE PsysInv(zs, o, tree)
      OBVIOUS
    <2>1. o.upto["psys"] \in Nat
      BY <1>2, <1>3 DEF PsysInv
    <2>2. zs.has => o.upto["psys"] <= shown["psys"]
      BY DEF PsysInv
    <2>3. zs.has => o.upto["psys"] <= tree["psys"]
      BY <1>1, <1>2, <2>1, <2>2
    <2> QED
      BY <2>3 DEF PsysInv
  <1> QED
    BY <1>4, <1>5

(* A zone that was never read.                                             *)
LEMMA NoZones ==
    ASSUME NEW shown, NEW o, IsOrigin(o)
    PROVE  PackageInv(NoZone("package"), o, shown) /\ PsysInv(NoZone("psys"), o, shown)
           /\ ~NoZone("package").has /\ ~NoZone("psys").has
  <1>1. NoZone("package") = [has |-> FALSE, last |-> [i \in {1, 2} |-> NoCounter], current |-> 0,
                             energy |-> 0, active |-> 0, idle |-> 0]
    BY ZonesAre DEF NoZone
  <1>2. NoZone("psys") = [has |-> FALSE, last |-> [i \in {1} |-> NoCounter], current |-> 0,
                          energy |-> 0, active |-> 0, idle |-> 0]
    BY ZonesAre DEF NoZone
  <1>3. [i \in {1, 2} |-> NoCounter] \in Lasts /\ 0 < 2 * Range12
    BY ZonesAre DEF Lasts, NoCounter
  <1> DEFINE a == NoZone("package")
             b == NoZone("psys")
             l == [i \in {1, 2} |-> NoCounter]
  <1>4. a.last = l /\ a.current = 0 /\ ~a.has /\ ~b.has
    BY <1>1, <1>2
  <1> DEFINE lb == [i \in {1} |-> NoCounter]
  <1>7. a = [has |-> FALSE, last |-> l, current |-> 0, energy |-> 0, active |-> 0, idle |-> 0]
        /\ b = [has |-> FALSE, last |-> lb, current |-> 0, energy |-> 0, active |-> 0, idle |-> 0]
    BY <1>1, <1>2
  <1> HIDE DEF a, b, l, lb
  <1>5. IsZone(a) /\ IsZone(b)
    <2>1. IsZone(a)
      BY <1>7 DEF IsZone
    <2>2. IsZone(b)
      BY <1>7 DEF IsZone
    <2> QED
      BY <2>1, <2>2
  <1>6. PackageInv(a, o, shown) /\ PsysInv(b, o, shown)
    BY <1>3, <1>4, <1>5 DEF PackageInv, PsysInv, l
  <1> QED
    BY <1>4, <1>6 DEF a, b

(* The exporter of Kepler 0.12 that has just started.                      *)
LEMMA K012Is ==
    /\ Kepler012 = [f \in {"seen", "at", "found", "zones"} |-> Kepler012[f]] /\ Kepler012.seen \in BOOLEAN
    /\ Kepler012.zones["package"] = NoZone("package") /\ Kepler012.zones["psys"] = NoZone("psys")
  BY ZonesAre DEF Kepler012

(* An exporter of Kepler 0.12 that has just started.                       *)
LEMMA K012Starts ==
    ASSUME MetersInv, format = "k012", exporter = Kepler012, since = Origin("k012"), DOMAIN points = {}
    PROVE  K012Inv
  <1>1. since = [z \in ZoneNames |-> [at |-> [p \in Parts |-> 0], base |-> 0, upto |-> [p \in Parts |-> 0]]]
    BY DEF Origin
  <1>2. IsOrigin(since["package"]) /\ IsOrigin(since["psys"])
    BY <1>1, ZonesAre DEF IsOrigin
  <1>3. PackageInv(NoZone("package"), since["package"], kshown) /\ PsysInv(NoZone("psys"), since["psys"], kshown)
        /\ ~NoZone("package").has /\ ~NoZone("psys").has
    BY <1>2, NoZones
  <1> QED
    BY <1>3, K012Is DEF K012Inv

(* A tick of Kepler 0.12.                                                  *)
LEMMA K012Tick ==
    ASSUME MetersInv, K012Inv, KxTicks, OneWrap, format = "k012"
    PROVE  K012Inv' /\ SeriesGrow
  <1> DEFINE r == kreading'
             t == kclock'
             st == exporter
             su == exporter'
             tree == kshown'
             a == st.zones["package"]
             b == st.zones["psys"]
             oa == since["package"]
             ob == since["psys"]
  <1>1. /\ MetersInv' /\ format' = "k012" /\ Meters[format] = Parts
        /\ (\A p \in Parts : kshown[p] <= tree[p])
        /\ \E bad, listed : ObserveSnapshot(r, t, bad, listed)
    BY TickIs DEF Meters
  <1>2. PICK bad, listed : /\ su = k012Observe(st, r, t, tree, bad, listed)
                           /\ points' = k012Points(su)
                           /\ since' = [z \in ZoneNames |->
                                IF ~su.zones[z].has \/ ~Later(st, t) THEN since[z]
                                ELSE IF st.zones[z].has THEN [since[z] EXCEPT !.upto = tree]
                                ELSE [at |-> tree, base |-> su.zones[z].idle, upto |-> tree]]
    BY <1>1 DEF ObserveSnapshot
  <1>3. tree \in [Parts -> Nat] /\ kshown \in [Parts -> Nat] /\ r.load \in 0..KLoadMax
    <2>1. Meters[format]' = Parts /\ Meters[format] = Parts
      BY <1>1 DEF Meters
    <2>2. kshown' \in [Meters[format]' -> Nat] /\ kshown \in [Meters[format] -> Nat] /\ kreading'.load \in 0..KLoadMax
      BY <1>1 DEF MetersInv
    <2> QED
      BY <2>1, <2>2
  <1>4. /\ st = [f \in {"seen", "at", "found", "zones"} |-> st[f]] /\ st.seen \in BOOLEAN
        /\ PackageInv(a, oa, kshown) /\ PsysInv(b, ob, kshown) /\ (~st.seen => ~a.has /\ ~b.has)
        /\ points = k012Points(st) \/ DOMAIN points = {}
    BY DEF K012Inv
  <1>5. IsZone(a) /\ IsZone(b) /\ IsOrigin(oa) /\ IsOrigin(ob)
    BY <1>4 DEF PackageInv, PsysInv
  <1>6. "package" \in ZoneNames /\ "psys" \in ZoneNames
    BY ZonesAre
  <1>7. /\ since'["package"] = IF Later(st, t) THEN NextOrigin(oa, a.has, su.zones["package"], tree) ELSE oa
        /\ since'["psys"] = IF Later(st, t) THEN NextOrigin(ob, b.has, su.zones["psys"], tree) ELSE ob
    BY <1>2, <1>6 DEF NextOrigin
  <1>8. SUFFICES /\ su = [f \in {"seen", "at", "found", "zones"} |-> su[f]] /\ su.seen \in BOOLEAN
                 /\ PackageInv(su.zones["package"], since'["package"], tree)
                 /\ PsysInv(su.zones["psys"], since'["psys"], tree)
                 /\ ~su.seen => ~su.zones["package"].has /\ ~su.zones["psys"].has
                 /\ a.has /\ su.zones["package"].has => su.zones["package"].active >= a.active /\ su.zones["package"].idle >= a.idle
                 /\ b.has /\ su.zones["psys"].has => su.zones["psys"].active >= b.active /\ su.zones["psys"].idle >= b.idle
    <2>1. K012Inv'
      <3>1. PackageInv(exporter.zones["package"], since["package"], kshown)'
        BY <1>8, Zenon DEF PackageInv
      <3>2. PsysInv(exporter.zones["psys"], since["psys"], kshown)'
        BY <1>8, Zenon DEF PsysInv
      <3>3. points' = k012Points(exporter)'
        BY <1>2
      <3> QED
        BY <1>8, <3>1, <3>2, <3>3, Zenon DEF K012Inv
    <2>2. \A z \in ZoneNames : st.zones[z].has /\ su.zones[z].has =>
              su.zones[z].active >= st.zones[z].active /\ su.zones[z].idle >= st.zones[z].idle
      BY <1>8, ZonesAre
    <2>3. \A s \in DOMAIN k012Points(st) \cap DOMAIN k012Points(su) : k012Points(su)[s] >= k012Points(st)[s]
      BY <2>2, K012PointsGrow
    <2>4. SeriesGrow
      <3>1. points' = k012Points(su) /\ (points = k012Points(st) \/ DOMAIN points = {})
        BY <1>2, <1>4, Zenon
      <3> HIDE DEF st, su
      <3>2. CASE points = k012Points(st)
        BY <2>3, <3>1, <3>2 DEF SeriesGrow
      <3>3. CASE DOMAIN points = {}
        BY <3>3 DEF SeriesGrow
      <3> QED
        BY <3>1, <3>2, <3>3
    <2> QED
      BY <2>1, <2>4
  <1>9. CASE ~st.found /\ ~listed
    <2>1. su = Kepler012
      BY <1>2, <1>9 DEF k012Observe
    <2>2. ~su.zones["package"].has /\ ~su.zones["psys"].has
      BY <1>5, <2>1, K012Is, NoZones
    <2>3. since'["package"] = oa /\ since'["psys"] = ob
      BY <1>7, <2>2 DEF NextOrigin
    <2> QED
      BY <1>5, <2>1, <2>2, <2>3, K012Is, NoZones
  <1>10. CASE ~(~st.found /\ ~listed) /\ ~Later(st, t)
    <2>1. su = [st EXCEPT !.found = TRUE]
      BY <1>2, <1>10 DEF k012Observe
    <2>2. su = [f \in {"seen", "at", "found", "zones"} |-> su[f]] /\ su.seen = st.seen /\ su.zones = st.zones
      BY <1>4, <2>1
    <2>3. since'["package"] = oa /\ since'["psys"] = ob
      BY <1>7, <1>10
    <2>4. PackageInv(a, oa, tree) /\ PsysInv(b, ob, tree)
      BY <1>1, <1>3, <1>4, ZonesRest
    <2>5. a.active \in Nat /\ a.idle \in Nat /\ b.active \in Nat /\ b.idle \in Nat
      BY <1>5 DEF IsZone
    <2> HIDE DEF su, st
    <2>6. su.zones["package"] = a /\ su.zones["psys"] = b
      BY <2>2
    <2> HIDE DEF a, b
    <2>7. a.active >= a.active /\ a.idle >= a.idle /\ b.active >= b.active /\ b.idle >= b.idle
      BY <2>5
    <2> QED
      BY <1>4, <2>2, <2>3, <2>4, <2>6, <2>7
  <1>11. CASE ~(~st.found /\ ~listed) /\ Later(st, t)
    <2> DEFINE first == ~st.seen
               na == zoneUpdate(a, "package", first, r.load, tree, bad)
               nb == zoneUpdate(b, "psys", first, r.load, tree, bad)
    <2>1. su = [seen |-> TRUE, at |-> t, found |-> TRUE,
                zones |-> [z \in ZoneNames |-> zoneUpdate(st.zones[z], z, ~st.seen, r.load, tree, bad)]]
      BY <1>2, <1>11 DEF k012Observe
    <2>2. su = [f \in {"seen", "at", "found", "zones"} |-> su[f]] /\ su.seen /\ su.seen \in BOOLEAN
          /\ su.zones["package"] = na /\ su.zones["psys"] = nb
      BY <1>6, <2>1
    <2>3. since'["package"] = NextOrigin(oa, a.has, na, tree) /\ since'["psys"] = NextOrigin(ob, b.has, nb, tree)
      BY <1>7, <1>11, <2>2
    <2>4. first \in BOOLEAN /\ (first => ~a.has) /\ (first => ~b.has)
      BY <1>4
    <2>5. /\ a.has => /\ tree["package-0"] - oa.upto["package-0"] < Range12
                      /\ tree["package-1"] - oa.upto["package-1"] < Range12
          /\ b.has => tree["psys"] - ob.upto["psys"] < Range12
      BY ZonesAre DEF OneWrap
    <2> DEFINE busy == r.load
               qa == since'["package"]
               qb == since'["psys"]
    <2>6. na = zoneUpdate(a, "package", first, busy, tree, bad) /\ nb = zoneUpdate(b, "psys", first, busy, tree, bad)
          /\ qa = NextOrigin(oa, a.has, na, tree) /\ qb = NextOrigin(ob, b.has, nb, tree) /\ busy \in 0..KLoadMax
      BY <1>3, <2>3
    <2> HIDE DEF first, na, nb, a, b, oa, ob, tree, busy, qa, qb
    <2>7. PackageInv(na, qa, tree) /\ (na.has /\ a.has => na.active >= a.active /\ na.idle >= a.idle)
      BY <1>1, <1>3, <1>4, <2>4, <2>5, <2>6, PackageStep
    <2>8. PsysInv(nb, qb, tree) /\ (nb.has /\ b.has => nb.active >= b.active /\ nb.idle >= b.idle)
      BY <1>1, <1>3, <1>4, <2>4, <2>5, <2>6, PsysStep
    <2> QED
      BY <2>2, <2>7, <2>8 DEF qa, qb
  <1> QED
    BY <1>9, <1>10, <1>11

(* The inductive invariant: the meters, and the exporter followed.         *)
ExporterInv == MetersInv /\ K07Inv /\ K012Inv /\ GpuInv

(* It says that the exporters conserve.                                    *)
LEMMA ExporterInvConserves ==
    ASSUME ExporterInv
    PROVE  K07Conserves /\ K012Conserves /\ GpuConserves
  <1>1. K07Conserves
    <2> SUFFICES ASSUME format = "k07", exporter.seen, NEW f \in k07Families
                 PROVE  exporter.series[f].split.idleJ + exporter.series[f].split.dynJ
                          = (exporter.series[f].counter.last - since[f]) + exporter.series[f].split.excessJ
      BY Zenon DEF K07Conserves
    <2>1. SeriesInv(exporter.series[f], since[f]) /\ exporter.series[f].counter.seen = exporter.seen
      BY DEF ExporterInv, K07Inv
    <2> QED
      BY <2>1 DEF SeriesInv
  <1>2. GpuConserves
    <2>1. format = "gpu" => GpuShares(exporter, since)
      BY DEF ExporterInv, GpuInv
    <2>2. format = "gpu" => exporter.counter.last = exporter.total
      BY <2>1 DEF GpuShares
    <2> QED
      BY <2>1, <2>2 DEF GpuShares, GpuConserves
  <1>3. K012Conserves
    <2> SUFFICES ASSUME format = "k012", NEW z \in ZoneNames, exporter.zones[z].has
                 PROVE  exporter.zones[z].active + exporter.zones[z].idle =
                          since[z].base + Total([i \in DOMAIN Zones[z] |-> Gained(since[z], Zones[z][i])], DOMAIN Zones[z])
      BY Zenon DEF K012Conserves, Total, Gained
    <2> DEFINE o == since[z]
               f == [i \in DOMAIN Zones[z] |-> Gained(o, Zones[z][i])]
    <2>1. CASE z = "package"
      <3>1. PackageInv(exporter.zones["package"], since["package"], kshown)
        BY DEF ExporterInv, K012Inv
      <3>2. IsOrigin(o) /\ Gained(o, "package-0") \in Int /\ Gained(o, "package-1") \in Int
        BY <2>1, <3>1, GainedIs, ZonesAre DEF PackageInv
      <3>3. exporter.zones[z].active + exporter.zones[z].idle = o.base + (Gained(o, "package-0") + Gained(o, "package-1"))
        BY <2>1, <3>1 DEF PackageInv
      <3>4. f = [i \in {1, 2} |-> Gained(o, Zones[z][i])] /\ DOMAIN Zones[z] = {1, 2}
            /\ Zones[z][1] = "package-0" /\ Zones[z][2] = "package-1"
        BY <2>1, ZonesAre
      <3> HIDE DEF f, o
      <3>5. f \in [{1, 2} -> Int] /\ f[1] = Gained(o, "package-0") /\ f[2] = Gained(o, "package-1")
        BY <3>2, <3>4
      <3>6. IsFiniteSet({1, 2}) /\ 1 \in {1, 2} /\ 2 \in {1, 2} /\ 1 # 2
        BY FiniteOnesTwos
      <3>7. Total(f, {1, 2}) = f[1] + f[2]
        BY <3>5, <3>6, FewTotals
      <3> QED
        BY <3>3, <3>4, <3>5, <3>7 DEF f, o
    <2>2. CASE z = "psys"
      <3>1. PsysInv(exporter.zones["psys"], since["psys"], kshown)
        BY DEF ExporterInv, K012Inv
      <3>2. IsOrigin(o) /\ Gained(o, "psys") \in Int
        BY <2>2, <3>1, GainedIs, ZonesAre DEF PsysInv
      <3>3. exporter.zones[z].active + exporter.zones[z].idle = o.base + Gained(o, "psys")
        BY <2>2, <3>1 DEF PsysInv
      <3>4. f = [i \in {1} |-> Gained(o, Zones[z][i])] /\ DOMAIN Zones[z] = {1} /\ Zones[z][1] = "psys"
        BY <2>2, ZonesAre
      <3> HIDE DEF f, o
      <3>5. f \in [{1} -> Int] /\ f[1] = Gained(o, "psys")
        BY <3>2, <3>4
      <3>6. IsFiniteSet({1}) /\ 1 \in {1}
        BY FiniteOnesTwos
      <3>7. Total(f, {1}) = f[1]
        BY <3>5, <3>6, FewTotals
      <3> QED
        BY <3>3, <3>4, <3>5, <3>7 DEF f, o
    <2> QED
      BY <2>1, <2>2, ZonesAre
  <1> QED
    BY <1>1, <1>2, <1>3

(* The exporters start with it.                                            *)
LEMMA ExportersStart == KxInit => ExporterInv
  <1> SUFFICES ASSUME KxInit PROVE ExporterInv
    OBVIOUS
  <1>1. MetersInv
    <2> DEFINE M == Meters[format]
    <2>1. format \in {"k07", "k012", "gpu"} /\ kclock = 1 /\ spent = [m \in M |-> 0] /\ kshown = spent
          /\ kreading = [e |-> [m \in M |-> 0], w |-> [m \in M |-> 0], load |-> 0]
      BY DEF KxInit, NoReading
    <2> HIDE DEF M
    <2>2. kreading.e = spent /\ kreading.w = spent /\ kreading.load = 0
      BY <2>1
    <2>3. 0 \in 0..KLoadMax
      BY CompatAssumption
    <2>4. spent \in [M -> Nat] /\ \A m \in M : spent[m] <= spent[m]
      BY <2>1
    <2> QED
      BY <2>1, <2>2, <2>3, <2>4 DEF MetersInv, M
  <1>2. DOMAIN points = {} /\ exporter = NoExporter(format) /\ since = Origin(format)
    BY DEF KxInit
  <1>3. K07Inv
    <2>1. CASE format = "k07"
      <3>1. exporter = Kepler07 /\ since = Origin("k07")
        BY <1>2, <2>1 DEF NoExporter
      <3> QED
        BY <1>1, <1>2, <2>1, <3>1, K07Starts
    <2> QED
      BY <2>1 DEF K07Inv
  <1>4. K012Inv
    <2>1. CASE format = "k012"
      <3>1. exporter = Kepler012 /\ since = Origin("k012")
        BY <1>2, <2>1 DEF NoExporter
      <3> QED
        BY <1>1, <1>2, <2>1, <3>1, K012Starts
    <2> QED
      BY <2>1 DEF K012Inv
  <1>5. GpuInv
    <2> SUFFICES ASSUME format = "gpu" PROVE GpuInv
      BY DEF GpuInv
    <2>1. exporter = k012Gpu /\ since = 0
      BY <1>2 DEF NoExporter, Origin
    <2>2. kreading.e["gpu"] \in Nat
      BY <1>1 DEF MetersInv, Meters
    <2>3. ~exporter.seen /\ exporter.total = 0 /\ GpuShares(exporter, since)
      BY <2>1 DEF k012Gpu, NoCounter, GpuShares
    <2> QED
      BY <1>2, <2>2, <2>3 DEF GpuInv
  <1> QED
    BY <1>1, <1>3, <1>4, <1>5 DEF ExporterInv

(* A restart leaves no series of a counter of the exporter's own.          *)
LEMMA RestartForgets ==
    ASSUME MetersInv, KxRestarts, format # "gpu"
    PROVE  K07Inv' /\ K012Inv' /\ GpuInv' /\ SeriesGrow
  <1>1. /\ MetersInv' /\ format' = format /\ exporter' = NoExporter(format) /\ since' = Origin(format)
        /\ points' = [s \in DOMAIN points \cap Hardware |-> points[s]] /\ Hardware = {}
    BY RestartIs DEF Hardware
  <1>2. DOMAIN points' = {}
    BY <1>1
  <1>3. SeriesGrow
    BY <1>2 DEF SeriesGrow
  <1>4. K07Inv'
    <2>1. CASE format = "k07"
      <3>1. exporter' = Kepler07 /\ since' = Origin("k07") /\ format' = "k07"
        BY <1>1, <2>1 DEF NoExporter
      <3>2. (MetersInv /\ format = "k07" /\ exporter = Kepler07 /\ since = Origin("k07") /\ DOMAIN points = {})'
        BY <1>1, <1>2, <3>1
      <3>3. (MetersInv /\ format = "k07" /\ exporter = Kepler07 /\ since = Origin("k07") /\ DOMAIN points = {} => K07Inv)'
        BY K07Starts, PTL
      <3> QED
        BY <3>2, <3>3
    <2> QED
      BY <1>1, <2>1 DEF K07Inv
  <1>5. K012Inv'
    <2>1. CASE format = "k012"
      <3>1. exporter' = Kepler012 /\ since' = Origin("k012") /\ format' = "k012"
        BY <1>1, <2>1 DEF NoExporter
      <3>2. (MetersInv /\ format = "k012" /\ exporter = Kepler012 /\ since = Origin("k012") /\ DOMAIN points = {})'
        BY <1>1, <1>2, <3>1
      <3>3. (MetersInv /\ format = "k012" /\ exporter = Kepler012 /\ since = Origin("k012") /\ DOMAIN points = {} => K012Inv)'
        BY K012Starts, PTL
      <3> QED
        BY <3>2, <3>3
    <2> QED
      BY <1>1, <2>1 DEF K012Inv
  <1>6. GpuInv'
    BY <1>1 DEF GpuInv
  <1> QED
    BY <1>3, <1>4, <1>5, <1>6

(* Every step keeps it, and no series falls.                               *)
LEMMA ExportersStep ==
    ASSUME ExporterInv, [KxNext]_kxVars, [OneWrap]_kxVars
    PROVE  ExporterInv' /\ [SeriesGrow]_kxVars
  <1>1. MetersInv /\ K07Inv /\ K012Inv /\ GpuInv
    BY DEF ExporterInv
  <1>2. CASE UNCHANGED kxVars
    <2>1. MetersInv'
      BY <1>1, <1>2 DEF kxVars, MetersInv
    <2>2. K07Inv'
      BY <1>1, <1>2, Zenon DEF kxVars, K07Inv
    <2>3. K012Inv'
      BY <1>1, <1>2, Zenon DEF kxVars, K012Inv
    <2>4. GpuInv'
      BY <1>1, <1>2, Zenon DEF kxVars, GpuInv
    <2> QED
      BY <1>2, <2>1, <2>2, <2>3, <2>4 DEF ExporterInv
  <1>3. CASE KxTicks /\ ~UNCHANGED kxVars
    <2>1. MetersInv' /\ format' = format /\ format \in {"k07", "k012", "gpu"} /\ OneWrap
      BY <1>1, <1>3, TickIs DEF MetersInv
    <2>2. CASE format = "k07"
      <3>1. K07Inv' /\ SeriesGrow
        BY <1>1, <1>3, <2>2, K07Tick
      <3>2. K012Inv' /\ GpuInv'
        BY <2>1, <2>2 DEF K012Inv, GpuInv
      <3> QED
        BY <2>1, <3>1, <3>2 DEF ExporterInv
    <2>3. CASE format = "k012"
      <3>1. K012Inv' /\ SeriesGrow
        BY <1>1, <1>3, <2>1, <2>3, K012Tick
      <3>2. K07Inv' /\ GpuInv'
        BY <2>1, <2>3 DEF K07Inv, GpuInv
      <3> QED
        BY <2>1, <3>1, <3>2 DEF ExporterInv
    <2>4. CASE format = "gpu"
      <3>1. GpuInv' /\ SeriesGrow
        BY <1>1, <1>3, <2>4, GpuTick
      <3>2. K07Inv' /\ K012Inv'
        BY <2>1, <2>4 DEF K07Inv, K012Inv
      <3> QED
        BY <2>1, <3>1, <3>2 DEF ExporterInv
    <2> QED
      BY <2>1, <2>2, <2>3, <2>4
  <1>4. CASE KxRestarts
    <2>1. MetersInv' /\ format' = format
      BY <1>1, <1>4, RestartIs
    <2>2. CASE format = "gpu"
      <3>1. GpuInv' /\ SeriesGrow
        BY <1>1, <1>4, <2>2, GpuRestart
      <3>2. K07Inv' /\ K012Inv'
        BY <2>1, <2>2 DEF K07Inv, K012Inv
      <3> QED
        BY <2>1, <3>1, <3>2 DEF ExporterInv
    <2>3. CASE format # "gpu"
      BY <1>1, <1>4, <2>1, <2>3, RestartForgets DEF ExporterInv
    <2> QED
      BY <2>2, <2>3
  <1> QED
    BY <1>2, <1>3, <1>4 DEF KxNext

(* The exporters neither lose nor make energy, and no series they serve    *)
(* falls (kepler07.go, kepler012.go, dcgm.go, amd.go), through failed      *)
(* steps, unreadable files, repeated times and restarts, as long as no     *)
(* counter of Kepler 0.12 wraps twice between two readings.                *)
THEOREM ExportersKeepEnergy == KxSpec /\ [][OneWrap]_kxVars => ExportersConserve
  <1>1. KxInit => ExporterInv
    BY ExportersStart
  <1>2. ExporterInv /\ [KxNext]_kxVars /\ [OneWrap]_kxVars => ExporterInv' /\ [SeriesGrow]_kxVars
    BY ExportersStep
  <1>3. ExporterInv => K07Conserves /\ K012Conserves /\ GpuConserves
    BY ExporterInvConserves
  <1> QED
    BY <1>1, <1>2, <1>3, PTL DEF KxSpec, ExportersConserve
=============================================================================
