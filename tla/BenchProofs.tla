------------------------------ MODULE BenchProofs -----------------------------
(***************************************************************************)
(* Proofs about BenchRuns and LoadTest for any jobs and context lengths,   *)
(* any number of users and phases of any length.                           *)
(***************************************************************************)
EXTENDS LoadTest, BenchRuns, FiniteSetTheorems, WellFoundedInduction, TLAPS

(* The greater one of two.                                                 *)
LEMMA MaxOfTwo ==
    ASSUME NEW a \in Int, NEW b \in Int
    PROVE  Max({a, b}) \in {a, b} /\ a <= Max({a, b}) /\ b <= Max({a, b})
<1>1. \E x \in {a, b} : \A y \in {a, b} : x >= y
  <2>1. CASE a >= b
    BY <2>1
  <2>2. CASE b >= a
    BY <2>2
  <2> QED  BY <2>1, <2>2
<1> DEFINE m == Max({a, b})
<1>2. m \in {a, b} /\ \A y \in {a, b} : m >= y
  BY <1>1 DEF Max
<1> HIDE DEF m
<1>3. m \in {a, b} /\ a <= m /\ b <= m
  BY <1>2
<1> QED  BY <1>3 DEF m

-----------------------------------------------------------------------------
(* The bench jobs                                                          *)

(* What the matrix asks for fits whatever window leaves it in.             *)
LEMMA RawAre ==
    /\ DOMAIN RawScenarios = 1..4
    /\ \A i \in 1..4 : /\ RawScenarios[i] \in [est : Nat, out : Nat]
                        /\ RawScenarios[i].out >= 64 /\ RawScenarios[i].est >= 512
<1>1. DOMAIN RawScenarios = 1..4
  BY DEF RawScenarios
<1>2. /\ RawScenarios[1] = [est |-> 512, out |-> 256]
      /\ RawScenarios[2] = [est |-> 2048, out |-> 512]
      /\ RawScenarios[3] = [est |-> 8192, out |-> 1024]
      /\ RawScenarios[4] = [est |-> 512, out |-> 2048]
  BY DEF RawScenarios
<1>3. ASSUME NEW i \in 1..4
      PROVE  /\ RawScenarios[i] \in [est : Nat, out : Nat]
             /\ RawScenarios[i].out >= 64 /\ RawScenarios[i].est >= 512
  <2>1. i = 1 \/ i = 2 \/ i = 3 \/ i = 4
    OBVIOUS
  <2> QED  BY <1>2, <2>1
<1> QED  BY <1>1, <1>3

(* A scenario that is not skipped fits, cut down or not.                   *)
LEMMA ResizedFits ==
    ASSUME NEW max \in Nat, max # 0, NEW i \in Scenarios(max)
    PROVE  LET s == Resized(RawScenarios[i], max)
           IN  /\ s.est \in Nat /\ s.est >= 512 /\ s.out \in Int
               /\ s.est + s.out <= max /\ s.out >= 64
<1> DEFINE raw == RawScenarios[i]
           cut == Max({64, max - raw.est - 64})
<1>1. /\ raw \in [est : Nat, out : Nat] /\ raw.out >= 64 /\ raw.est >= 512
      /\ ~(TooLong(raw, max) /\ raw.est + 64 >= max)
  BY RawAre DEF Scenarios, Safety
<1>2. TooLong(raw, max) <=> raw.est + raw.out + 64 > max
  BY DEF TooLong, Safety
<1> HIDE DEF raw
<1>3. CASE ~TooLong(raw, max)
  <2>1. Resized(raw, max) = raw
    BY <1>3 DEF Resized
  <2> QED  BY <1>1, <1>2, <1>3, <2>1 DEF raw
<1>4. CASE TooLong(raw, max)
  <2>1. Resized(raw, max) = [raw EXCEPT !.out = cut]
    BY <1>4 DEF Resized, Safety
  <2>2. Resized(raw, max).out = cut /\ Resized(raw, max).est = raw.est
    BY <1>1, <2>1
  <2>3. 64 \in Int /\ max - raw.est - 64 \in Int
    BY <1>1
  <2>4. cut \in {64, max - raw.est - 64} /\ 64 <= cut
    BY <2>3, MaxOfTwo
  <2> HIDE DEF cut
  <2>5. raw.est + cut <= max /\ cut >= 64 /\ cut \in Int
    BY <1>1, <1>4, <2>4
  <2> QED  BY <1>1, <2>2, <2>5 DEF raw
<1> QED  BY <1>3, <1>4

(* The states of a job and of its script, and a row of a job.              *)
Ats     == {"new", "running", "succeeded", "failed", "cancelled", "orphaned"}
Scripts == {"none", "run", "write", "exit 0", "exit 1", "gone"}
BenchRows == [kind : Kinds \cup {"none"}, dir : Dirs \cup {NoDir}, at : Ats]

(* Another job has been started on the engine and in the second of job j.  *)
Shared(j) == \E o \in Jobs \ {j} : bench[o].at # "new" /\ bench[o].dir = bench[j].dir
(* The script of job j has run so far.                                     *)
Progress(j) ==
    /\ bench[j].at = "new" <=> script[j] = "none"
    /\ bench[j].at = "new" => ahead[j] = {} /\ measured[j] = 0
    /\ bench[j].at # "new" => bench[j].kind \in Kinds /\ bench[j].dir \in Dirs
    /\ bench[j].at = "succeeded" => script[j] \in {"exit 0", "gone"}
    /\ ahead[j] \subseteq Scenarios(length)
    /\ bench[j].kind = "scenario" =>
         measured[j] + Cardinality(ahead[j]) = Cardinality(Scenarios(length))
    /\ script[j] \in {"write", "exit 0"} \/ bench[j].at = "succeeded" => ahead[j] = {}
(* What it has written is there, or two have shared the directory.         *)
Written(j) ==
    /\ script[j] = "write" => outcome[bench[j].dir] = Empty \/ Shared(j)
    /\ script[j] = "exit 0" \/ bench[j].at = "succeeded" =>
         outcome[bench[j].dir] = j \/ Shared(j)

(* No job writes into a directory that is another's alone; a script that   *)
(* has come to its summary has measured every scenario.                    *)
BenchIInv ==
    /\ BenchTypeOK
    /\ length \in ModelLengths
    /\ bench \in [Jobs -> BenchRows] /\ script \in [Jobs -> Scripts]
    /\ ahead \in [Jobs -> SUBSET (1..4)] /\ measured \in [Jobs -> Nat]
    /\ \A j \in Jobs : Progress(j) /\ Written(j)

(* The scenarios are finitely many.                                        *)
LEMMA FewScenarios ==
    ASSUME NEW S \in SUBSET (1..4)
    PROVE  IsFiniteSet(S) /\ Cardinality(S) \in Nat
<1> DEFINE one == 1
           four == 4
<1>1. IsFiniteSet(1..4)
  <2>1. one \in Int /\ four \in Int
    OBVIOUS
  <2> HIDE DEF one, four
  <2>2. IsFiniteSet(one..four)
    BY <2>1, FS_Interval
  <2> QED  BY <2>2 DEF one, four
<1>2. IsFiniteSet(S)
  BY <1>1, FS_Subset
<1> QED  BY <1>2, FS_CardinalityType

(* Those of a context length, too.                                         *)
LEMMA FewOfLength ==
    ASSUME NEW max
    PROVE  Scenarios(max) \in SUBSET (1..4) /\ Cardinality(Scenarios(max)) \in Nat
<1> DEFINE S == Scenarios(max)
<1>1. S \in SUBSET (1..4)
  BY RawAre DEF Scenarios
<1> HIDE DEF S
<1>2. Cardinality(S) \in Nat
  BY <1>1, FewScenarios
<1> QED  BY <1>1, <1>2 DEF S

(* The start of a job: its directory is shared from then on with whoever   *)
(* has been started on the same engine in the same second.                 *)
LEMMA StartStep ==
    ASSUME BenchIInv, NEW j \in Jobs, NEW kind \in Kinds, NEW engine \in Engines,
           StartBench(j, kind, engine),
           \/ kind = "scenario" /\ ahead' = [ahead EXCEPT ![j] = Scenarios(length)]
           \/ kind = "load" /\ ahead' = ahead
    PROVE  BenchIInv'
<1> DEFINE b == [kind |-> kind, dir |-> <<engine, second>>, at |-> "running"]
<1>1. /\ bench' = [bench EXCEPT ![j] = b] /\ script' = [script EXCEPT ![j] = "run"]
      /\ bench[j].at = "new"
      /\ second' = second /\ length' = length /\ measured' = measured /\ outcome' = outcome
  BY DEF StartBench
<1>2. /\ second \in Seconds /\ length \in ModelLengths
      /\ outcome \in [Dirs -> Jobs \cup {NoFile, Empty, Mixed}]
      /\ bench \in [Jobs -> BenchRows]
      /\ script \in [Jobs -> Scripts]
      /\ ahead \in [Jobs -> SUBSET (1..4)] /\ measured \in [Jobs -> Nat]
  BY DEF BenchIInv, BenchTypeOK
<1>3. b \in BenchRows /\ b.kind = kind /\ b.dir \in Dirs /\ b.at = "running"
  BY <1>2 DEF BenchRows, Ats, Dirs
<1> HIDE DEF b
<1>4. Scenarios(length) \in SUBSET (1..4)
  BY FewOfLength
<1>5. ahead' \in [Jobs -> SUBSET (1..4)]
  BY <1>2, <1>4
<1>6. /\ bench' \in [Jobs -> BenchRows]
      /\ script' \in [Jobs -> Scripts]
  BY <1>1, <1>2, <1>3 DEF Scripts
<1>7. ASSUME NEW i \in Jobs PROVE Progress(i)' /\ Written(i)'
  <2>1. CASE i = j
    <3>1. bench'[i] = b /\ script'[i] = "run"
      BY <1>1, <1>2, <2>1
    <3>2. ahead[i] = {} /\ measured[i] = 0
      BY <1>1, <2>1 DEF BenchIInv, Progress
    <3>3. /\ bench'[i].at = "running" /\ bench'[i].kind = kind /\ bench'[i].kind \in Kinds
          /\ bench'[i].dir \in Dirs /\ script'[i] = "run" /\ measured'[i] = 0 /\ length' = length
      BY <1>1, <1>3, <3>1, <3>2
    <3>4. Written(i)'
      BY <3>3 DEF Written
    <3>5. CASE kind = "scenario"
      <4>1. ahead'[i] = Scenarios(length)
        BY <1>2, <2>1, <3>5
      <4>2. measured'[i] + Cardinality(ahead'[i]) = Cardinality(Scenarios(length))
        BY <3>3, <4>1, FewOfLength
      <4> QED  BY <3>3, <3>4, <4>1, <4>2 DEF Progress
    <3>6. CASE kind = "load"
      BY <3>2, <3>3, <3>4, <3>6 DEF Progress
    <3> QED  BY <3>5, <3>6 DEF Kinds
  <2>2. CASE i # j
    <3>1. /\ bench'[i] = bench[i] /\ script'[i] = script[i] /\ ahead'[i] = ahead[i]
          /\ measured'[i] = measured[i]
      BY <1>1, <1>2, <2>2
    <3>2. Progress(i) /\ Written(i)
      BY DEF BenchIInv
    <3>3. Progress(i)'
      BY <1>1, <3>1, <3>2 DEF Progress
    <3>4. Shared(i) => Shared(i)'
      <4>1. SUFFICES ASSUME Shared(i) PROVE Shared(i)'
        OBVIOUS
      <4>2. PICK o \in Jobs \ {i} : bench[o].at # "new" /\ bench[o].dir = bench[i].dir
        BY <4>1 DEF Shared
      <4>3. bench'[o] = bench[o]
        BY <1>1, <1>2, <4>2
      <4> QED  BY <3>1, <4>2, <4>3 DEF Shared
    <3>5. Written(i)'
      BY <1>1, <3>1, <3>2, <3>4 DEF Written
    <3> QED  BY <3>3, <3>5
  <2> QED  BY <2>1, <2>2
<1>8. BenchTypeOK'
  BY <1>1, <1>2, <1>6 DEF BenchTypeOK, BenchRows, Ats, Scripts
<1> QED  BY <1>1, <1>2, <1>5, <1>6, <1>7, <1>8 DEF BenchIInv

(* A step of a job that has been started, and of its script: from now on   *)
(* they are at a and s, with t to do and m measured.  It writes into its   *)
(* own directory only, and what Progress and Written say still holds.      *)
StepOf(j, a, s, t, m) ==
    /\ bench[j].at # "new" /\ a \in Ats \ {"new"} /\ s \in Scripts \ {"none"}
    /\ t \subseteq Scenarios(length) /\ m \in Nat
    /\ bench' = [bench EXCEPT ![j] = [bench[j] EXCEPT !.at = a]]
    /\ script' = [script EXCEPT ![j] = s]
    /\ ahead' = [ahead EXCEPT ![j] = t] /\ measured' = [measured EXCEPT ![j] = m]
    /\ second' = second /\ length' = length
    /\ outcome' \in [Dirs -> Jobs \cup {NoFile, Empty, Mixed}]
    /\ \A d \in Dirs \ {bench[j].dir} : outcome'[d] = outcome[d]
    /\ bench[j].kind = "scenario" => m + Cardinality(t) = Cardinality(Scenarios(length))
    /\ s \in {"write", "exit 0"} \/ a = "succeeded" => t = {}
    /\ a = "succeeded" => s \in {"exit 0", "gone"}
    /\ s = "write" => outcome'[bench[j].dir] = Empty \/ Shared(j)
    /\ s = "exit 0" \/ a = "succeeded" => outcome'[bench[j].dir] = j \/ Shared(j)

(* Whoever has an outcome there as well has to share it.                   *)
LEMMA OneJobStep ==
    ASSUME BenchIInv, NEW j \in Jobs, NEW a, NEW s, NEW t, NEW m, StepOf(j, a, s, t, m)
    PROVE  BenchIInv'
<1> DEFINE b == [bench[j] EXCEPT !.at = a]
<1>1. /\ second \in Seconds /\ length \in ModelLengths /\ bench \in [Jobs -> BenchRows]
      /\ script \in [Jobs -> Scripts]
      /\ ahead \in [Jobs -> SUBSET (1..4)] /\ measured \in [Jobs -> Nat]
  BY DEF BenchIInv, BenchTypeOK
<1>2. b \in BenchRows /\ b.kind = bench[j].kind /\ b.dir = bench[j].dir /\ b.at = a
  BY <1>1 DEF BenchRows, StepOf
<1>3. bench' = [bench EXCEPT ![j] = b] /\ bench[j].at # "new"
  BY DEF StepOf
<1> HIDE DEF b
<1>4. t \in SUBSET (1..4)
  BY FewOfLength DEF StepOf
<1>5. bench' \in [Jobs -> BenchRows] /\ script' \in [Jobs -> Scripts]
  BY <1>1, <1>2, <1>3 DEF StepOf
<1>6. ahead' \in [Jobs -> SUBSET (1..4)] /\ measured' \in [Jobs -> Nat]
  BY <1>1, <1>4 DEF StepOf
<1>7. /\ bench'[j] = b /\ script'[j] = s /\ ahead'[j] = t /\ measured'[j] = m
  BY <1>1, <1>3 DEF StepOf
<1>8. ASSUME NEW i \in Jobs, i # j
      PROVE  /\ bench'[i] = bench[i] /\ script'[i] = script[i] /\ ahead'[i] = ahead[i]
             /\ measured'[i] = measured[i]
  BY <1>1, <1>3, <1>8 DEF StepOf
<1>9. ASSUME NEW i \in Jobs
      PROVE  bench'[i].dir = bench[i].dir /\ (bench[i].at # "new" => bench'[i].at # "new")
  <2>1. CASE i = j
    BY <1>2, <1>7, <2>1 DEF StepOf
  <2>2. CASE i # j
    BY <1>8, <2>2
  <2> QED  BY <2>1, <2>2
<1>10. ASSUME NEW i \in Jobs, Shared(i) PROVE Shared(i)'
  <2>1. PICK o \in Jobs \ {i} : bench[o].at # "new" /\ bench[o].dir = bench[i].dir
    BY <1>10 DEF Shared
  <2> QED  BY <1>9, <2>1 DEF Shared
<1>11. Progress(j)' /\ Written(j)'
  <2>1. bench[j].kind \in Kinds /\ bench[j].dir \in Dirs
    BY <1>3 DEF BenchIInv, Progress
  <2>2. Progress(j)'
    BY <1>2, <1>7, <2>1 DEF Progress, StepOf
  <2>3. Written(j)'
    BY <1>2, <1>7, <1>10 DEF Written, StepOf
  <2> QED  BY <2>2, <2>3
<1>12. ASSUME NEW i \in Jobs, i # j PROVE Progress(i)' /\ Written(i)'
  <2>1. Progress(i) /\ Written(i)
    BY DEF BenchIInv
  <2>2. Progress(i)'
    BY <1>8, <1>12, <2>1 DEF Progress, StepOf
  <2>3. CASE bench[i].dir = bench[j].dir
    <3>1. Shared(i)'
      <4>1. bench'[j].at # "new" /\ bench'[j].dir = bench'[i].dir /\ j \in Jobs \ {i}
        BY <1>3, <1>9, <1>12, <2>3
      <4> QED  BY <4>1 DEF Shared
    <3> QED  BY <2>2, <3>1 DEF Written
  <2>4. CASE bench[i].dir # bench[j].dir
    <3>1. bench[i].at # "new" => bench[i].dir \in Dirs
      BY <2>1 DEF Progress
    <3>2. bench[i].at # "new" => outcome'[bench[i].dir] = outcome[bench[i].dir]
      BY <2>4, <3>1 DEF StepOf
    <3>4. bench[i].at = "new" => script[i] = "none"
      BY <2>1 DEF Progress
    <3>3. Written(i)'
      BY <1>8, <1>10, <1>12, <2>1, <3>2, <3>4 DEF Written
    <3> QED  BY <2>2, <3>3
  <2> QED  BY <2>3, <2>4
<1>13. \A i \in Jobs : Progress(i)' /\ Written(i)'
  BY <1>11, <1>12
<1>14. BenchTypeOK'
  BY <1>1, <1>5 DEF BenchTypeOK, BenchRows, Ats, Scripts, StepOf
<1> QED  BY <1>1, <1>5, <1>6, <1>13, <1>14 DEF BenchIInv, StepOf

(* What the actions leave as it is.                                        *)
LEMMA JobAsItIs ==
    ASSUME BenchIInv, NEW j \in Jobs
    PROVE  /\ bench = [bench EXCEPT ![j] = [bench[j] EXCEPT !.at = bench[j].at]]
           /\ script = [script EXCEPT ![j] = script[j]] /\ ahead = [ahead EXCEPT ![j] = ahead[j]]
           /\ measured = [measured EXCEPT ![j] = measured[j]]
           /\ bench[j].at \in Ats /\ script[j] \in Scripts /\ measured[j] \in Nat
           /\ bench[j].at # "new" => bench[j].dir \in Dirs
           /\ outcome \in [Dirs -> Jobs \cup {NoFile, Empty, Mixed}]
           /\ ahead[j] \in SUBSET (1..4) /\ ahead[j] \subseteq Scenarios(length)
           /\ bench[j].at = "new" <=> script[j] = "none"
           /\ bench[j].at = "succeeded" => script[j] \in {"exit 0", "gone"}
           /\ bench[j].kind = "scenario" =>
                measured[j] + Cardinality(ahead[j]) = Cardinality(Scenarios(length))
           /\ script[j] \in {"write", "exit 0"} => ahead[j] = {}
           /\ script[j] = "write" => outcome[bench[j].dir] = Empty \/ Shared(j)
           /\ script[j] = "exit 0" => outcome[bench[j].dir] = j \/ Shared(j)
<1>1. /\ bench \in [Jobs -> BenchRows] /\ script \in [Jobs -> Scripts]
      /\ ahead \in [Jobs -> SUBSET (1..4)] /\ measured \in [Jobs -> Nat]
      /\ Progress(j) /\ Written(j) /\ outcome \in [Dirs -> Jobs \cup {NoFile, Empty, Mixed}]
  BY DEF BenchIInv, BenchTypeOK
<1>2. bench[j] \in BenchRows
  BY <1>1
<1>3. [bench[j] EXCEPT !.at = bench[j].at] = bench[j]
  BY <1>2 DEF BenchRows
<1>4. bench[j].at \in Ats /\ (bench[j].at # "new" => bench[j].dir \in Dirs)
  BY <1>1, <1>2 DEF BenchRows, Progress
<1>5. /\ ahead[j] \subseteq Scenarios(length)
      /\ bench[j].at = "new" <=> script[j] = "none"
      /\ bench[j].at = "succeeded" => script[j] \in {"exit 0", "gone"}
      /\ bench[j].kind = "scenario" =>
           measured[j] + Cardinality(ahead[j]) = Cardinality(Scenarios(length))
      /\ script[j] \in {"write", "exit 0"} => ahead[j] = {}
  BY <1>1 DEF Progress
<1>6. /\ script[j] = "write" => outcome[bench[j].dir] = Empty \/ Shared(j)
      /\ script[j] = "exit 0" => outcome[bench[j].dir] = j \/ Shared(j)
  BY <1>1 DEF Written
<1>7. /\ script = [script EXCEPT ![j] = script[j]] /\ ahead = [ahead EXCEPT ![j] = ahead[j]]
      /\ measured = [measured EXCEPT ![j] = measured[j]]
      /\ script[j] \in Scripts /\ measured[j] \in Nat /\ ahead[j] \in SUBSET (1..4)
  BY <1>1
<1>8. bench = [bench EXCEPT ![j] = [bench[j] EXCEPT !.at = bench[j].at]]
  BY <1>1, <1>3
<1> QED  BY <1>1, <1>4, <1>5, <1>6, <1>7, <1>8

(* The steps of a script and the ends of a job.                            *)
LEMMA ScriptSteps ==
    ASSUME BenchIInv, NEW j \in Jobs,
           \/ RunScenario(j) \/ OpenSummary(j) \/ WriteSummary(j) \/ ScriptFails(j)
           \/ BenchEnds(j) \/ ReadFails(j)
    PROVE  BenchIInv'
<1>1. CASE RunScenario(j)
  <2>1. PICK i \in ahead[j] : ahead' = [ahead EXCEPT ![j] = @ \ {i}]
    BY <1>1 DEF RunScenario
  <2> DEFINE t == ahead[j] \ {i}
             m == measured[j] + 1
  <2>2. /\ script[j] = "run" /\ bench[j].at # "new" /\ bench[j].at # "succeeded"
        /\ script' = script /\ bench' = bench
        /\ second' = second /\ length' = length /\ outcome' = outcome
        /\ measured' = [measured EXCEPT ![j] = m] /\ ahead' = [ahead EXCEPT ![j] = t]
    BY <1>1, <2>1, JobAsItIs DEF RunScenario
  <2>3. /\ ahead[j] \subseteq Scenarios(length) /\ measured[j] \in Nat
        /\ bench[j].kind = "scenario" =>
             measured[j] + Cardinality(ahead[j]) = Cardinality(Scenarios(length))
    BY JobAsItIs
  <2>4. IsFiniteSet(ahead[j]) /\ Cardinality(ahead[j]) \in Nat
    BY JobAsItIs, FewScenarios
  <2>5. Cardinality(t) = Cardinality(ahead[j]) - 1
    BY <2>4, FS_RemoveElement
  <2>6. bench[j].kind = "scenario" => m + Cardinality(t) = Cardinality(Scenarios(length))
    BY <2>4, <2>5, <2>3
  <2>7. t \subseteq Scenarios(length) /\ m \in Nat
    BY <2>3
  <2> HIDE DEF t, m
  <2>8. StepOf(j, bench[j].at, "run", t, m)
    BY <2>2, <2>6, <2>7, JobAsItIs DEF StepOf, Scripts
  <2> QED  BY <2>8, OneJobStep
<1>2. CASE OpenSummary(j)
  <2>1. /\ script[j] = "run" /\ bench[j].at # "new" /\ bench[j].at # "succeeded" /\ ahead[j] = {}
        /\ script' = [script EXCEPT ![j] = "write"] /\ bench' = bench
        /\ second' = second /\ length' = length /\ ahead' = ahead /\ measured' = measured
        /\ outcome' = [outcome EXCEPT ![bench[j].dir] = Empty]
    BY <1>2, JobAsItIs DEF OpenSummary
  <2>2. /\ outcome' \in [Dirs -> Jobs \cup {NoFile, Empty, Mixed}]
        /\ outcome'[bench[j].dir] = Empty
        /\ \A d \in Dirs \ {bench[j].dir} : outcome'[d] = outcome[d]
    BY <2>1, JobAsItIs
  <2>3. StepOf(j, bench[j].at, "write", {}, measured[j])
    BY <2>1, <2>2, JobAsItIs DEF StepOf, Scripts
  <2> QED  BY <2>3, OneJobStep
<1>3. CASE WriteSummary(j)
  <2> DEFINE o == IF outcome[bench[j].dir] = Empty \/ bench[j].kind = "scenario" THEN j ELSE Mixed
  <2>1. /\ script[j] = "write" /\ bench[j].at # "new" /\ bench[j].at # "succeeded" /\ ahead[j] = {}
        /\ script' = [script EXCEPT ![j] = "exit 0"] /\ bench' = bench
        /\ second' = second /\ length' = length /\ ahead' = ahead /\ measured' = measured
        /\ outcome' = [outcome EXCEPT ![bench[j].dir] = o]
    BY <1>3, JobAsItIs DEF WriteSummary
  <2>2. o = j \/ Shared(j)
    BY <2>1, JobAsItIs
  <2>3. o \in Jobs \cup {NoFile, Empty, Mixed}
    OBVIOUS
  <2> HIDE DEF o
  <2>4. /\ outcome' \in [Dirs -> Jobs \cup {NoFile, Empty, Mixed}]
        /\ outcome'[bench[j].dir] = o
        /\ \A d \in Dirs \ {bench[j].dir} : outcome'[d] = outcome[d]
    BY <2>1, <2>3, JobAsItIs
  <2>5. StepOf(j, bench[j].at, "exit 0", {}, measured[j])
    BY <2>1, <2>2, <2>4, JobAsItIs DEF StepOf, Scripts
  <2> QED  BY <2>5, OneJobStep
<1>4. CASE ScriptFails(j)
  <2>1. /\ bench[j].at # "new" /\ bench[j].at # "succeeded"
        /\ script' = [script EXCEPT ![j] = "exit 1"] /\ bench' = bench
        /\ second' = second /\ length' = length /\ ahead' = ahead /\ measured' = measured
        /\ outcome' = outcome
    BY <1>4, JobAsItIs DEF ScriptFails
  <2>2. StepOf(j, bench[j].at, "exit 1", ahead[j], measured[j])
    BY <2>1, JobAsItIs DEF StepOf, Scripts
  <2> QED  BY <2>2, OneJobStep
<1>5. CASE BenchEnds(j)
  <2> DEFINE a == IF script[j] = "exit 0" THEN "succeeded" ELSE "failed"
  <2>1. /\ bench[j].at = "running" /\ script[j] \in {"exit 0", "exit 1"}
        /\ bench' = [bench EXCEPT ![j] = [bench[j] EXCEPT !.at = a]] /\ script' = script
        /\ second' = second /\ length' = length /\ ahead' = ahead /\ measured' = measured
        /\ outcome' = outcome
    BY <1>5 DEF BenchEnds
  <2>2. a \in Ats /\ a # "new" /\ (a = "succeeded" <=> script[j] = "exit 0")
    BY DEF Ats
  <2> HIDE DEF a
  <2>3. bench[j].at # "new" /\ script[j] # "none"
    BY <2>1
  <2>4. StepOf(j, a, script[j], ahead[j], measured[j])
    BY <2>1, <2>2, <2>3, JobAsItIs DEF StepOf
  <2> QED  BY <2>4, OneJobStep
<1>6. CASE ReadFails(j)
  <2>1. /\ bench[j].at = "running" /\ script[j] # "none" /\ script[j] # "exit 0"
        /\ bench' = [bench EXCEPT ![j] = [bench[j] EXCEPT !.at = "failed"]] /\ script' = script
        /\ second' = second /\ length' = length /\ ahead' = ahead /\ measured' = measured
        /\ outcome' = outcome
    BY <1>6 DEF ReadFails
  <2>2. StepOf(j, "failed", script[j], ahead[j], measured[j])
    BY <2>1, JobAsItIs DEF StepOf, Ats
  <2> QED  BY <2>2, OneJobStep
<1> QED  BY <1>1, <1>2, <1>3, <1>4, <1>5, <1>6

(* The clock changes nothing of the jobs.                                  *)
LEMMA SecondStep ==
    ASSUME BenchIInv, Second \/ UNCHANGED benchVars
    PROVE  BenchIInv'
<1>1. /\ length' = length /\ bench' = bench /\ script' = script /\ ahead' = ahead
      /\ measured' = measured /\ outcome' = outcome
  BY DEF Second, benchVars
<1>2. second' \in Seconds
  <2>1. second \in 0..MaxSecond /\ MaxSecond \in Nat
    BY BenchAssumption DEF BenchIInv, BenchTypeOK, Seconds
  <2> QED  BY <2>1 DEF Second, Seconds, benchVars
<1>3. BenchTypeOK'
  BY <1>1, <1>2 DEF BenchIInv, BenchTypeOK
<1>4. ASSUME NEW j \in Jobs PROVE Progress(j)' /\ Written(j)'
  <2>1. Progress(j) /\ Written(j)
    BY DEF BenchIInv
  <2>2. Shared(j)' <=> Shared(j)
    BY <1>1 DEF Shared
  <2> QED  BY <1>1, <2>1, <2>2 DEF Progress, Written
<1> QED  BY <1>1, <1>3, <1>4 DEF BenchIInv

(* A restart makes no job one that has succeeded, and no script writes on. *)
LEMMA BenchRestartStep ==
    ASSUME BenchIInv, BenchRestart
    PROVE  BenchIInv'
<1>1. /\ second' = second /\ length' = length /\ ahead' = ahead
      /\ measured' = measured /\ outcome' = outcome
      /\ script' = [j \in Jobs |-> IF script[j] = "none" THEN "none" ELSE "gone"]
  BY DEF BenchRestart
<1>2. PICK a \in {"cancelled", "orphaned"} :
        bench' = [j \in Jobs |-> IF bench[j].at = "running"
                                 THEN [bench[j] EXCEPT !.at = a] ELSE bench[j]]
  BY DEF BenchRestart
<1>3. \A j \in Jobs : bench[j] \in BenchRows
  BY DEF BenchIInv
<1>4. ASSUME NEW j \in Jobs
      PROVE  /\ bench'[j] \in BenchRows /\ bench'[j].dir = bench[j].dir
             /\ bench'[j].kind = bench[j].kind
             /\ bench'[j].at = "new" <=> bench[j].at = "new"
             /\ bench'[j].at = "succeeded" <=> bench[j].at = "succeeded"
  <2>1. CASE bench[j].at = "running"
    <3>1. bench'[j] = [bench[j] EXCEPT !.at = a]
      BY <1>2, <2>1
    <3>2. /\ bench'[j].dir = bench[j].dir /\ bench'[j].kind = bench[j].kind /\ bench'[j].at = a
          /\ bench'[j] \in BenchRows
      BY <1>3, <3>1 DEF BenchRows, Ats
    <3> QED  BY <2>1, <3>2
  <2>2. CASE bench[j].at # "running"
    BY <1>2, <1>3, <2>2
  <2> QED  BY <2>1, <2>2
<1>5. bench' \in [Jobs -> BenchRows]
  <2>1. bench' = [j \in Jobs |-> bench'[j]]
    BY <1>2
  <2> QED  BY <1>4, <2>1
<1>6. script' \in [Jobs -> Scripts] /\ \A j \in Jobs :
        script'[j] = IF script[j] = "none" THEN "none" ELSE "gone"
  BY <1>1 DEF Scripts
<1>7. BenchTypeOK'
  BY <1>1, <1>5, <1>6 DEF BenchIInv, BenchTypeOK, BenchRows, Ats, Scripts
<1>8. ASSUME NEW j \in Jobs PROVE Progress(j)' /\ Written(j)'
  <2>1. Progress(j) /\ Written(j)
    BY DEF BenchIInv
  <2>2. Shared(j) => Shared(j)'
    <3>1. SUFFICES ASSUME Shared(j) PROVE Shared(j)'
      OBVIOUS
    <3>2. PICK o \in Jobs \ {j} : bench[o].at # "new" /\ bench[o].dir = bench[j].dir
      BY <3>1 DEF Shared
    <3>3. bench'[o].at # "new" /\ bench'[o].dir = bench'[j].dir
      BY <1>4, <3>2
    <3> QED  BY <3>3 DEF Shared
  <2>3. Progress(j)'
    BY <1>1, <1>4, <1>6, <2>1 DEF Progress
  <2>4. Written(j)'
    BY <1>1, <1>4, <1>6, <2>1, <2>2 DEF Written
  <2> QED  BY <2>3, <2>4
<1> QED  BY <1>1, <1>5, <1>6, <1>7, <1>8 DEF BenchIInv

(* The invariant holds in every state of the bench jobs.                   *)
THEOREM BenchIInvHolds == BenchSpec => []BenchIInv
<1>1. BenchInit => BenchIInv
  <2> SUFFICES ASSUME BenchInit PROVE BenchIInv
    OBVIOUS
  <2>1. 0 \in Seconds
    BY BenchAssumption DEF Seconds
  <2>2. NoBench \in BenchRows /\ NoBench.at = "new" /\ NoBench.kind = "none"
        /\ NoBench.dir \in Dirs \cup {NoDir}
    BY <2>1 DEF NoBench, BenchRows, Ats
  <2>3. /\ bench \in [Jobs -> BenchRows] /\ script \in [Jobs -> Scripts]
        /\ ahead \in [Jobs -> SUBSET (1..4)] /\ measured \in [Jobs -> Nat]
        /\ \A j \in Jobs : bench[j] = NoBench /\ script[j] = "none" /\ ahead[j] = {} /\ measured[j] = 0
    BY <2>2 DEF BenchInit, Scripts
  <2>4. BenchTypeOK
    BY <2>1, <2>2, <2>3 DEF BenchInit, BenchTypeOK, Scripts
  <2>5. \A j \in Jobs : Progress(j) /\ Written(j)
    BY <2>2, <2>3 DEF Progress, Written
  <2> QED  BY <2>3, <2>4, <2>5 DEF BenchIInv, BenchInit
<1>2. BenchIInv /\ [BenchNext]_benchVars => BenchIInv'
  <2> SUFFICES ASSUME BenchIInv, [BenchNext]_benchVars PROVE BenchIInv'
    OBVIOUS
  <2>1. ASSUME NEW j \in Jobs, NEW engine \in Engines,
               StartScenario(j, engine) \/ StartLoad(j, engine)
        PROVE  BenchIInv'
    <3>1. "scenario" \in Kinds /\ "load" \in Kinds
      BY DEF Kinds
    <3> QED  BY <2>1, <3>1, StartStep DEF StartScenario, StartLoad
  <2> QED  BY <2>1, SecondStep, BenchRestartStep, ScriptSteps DEF BenchNext
<1> QED  BY <1>1, <1>2, PTL DEF BenchSpec

(* Whatever is still to be sent fits the context window by the estimate of *)
(* four characters to a token, with an answer of at least 64 tokens.       *)
THEOREM EstimatesFitHolds == BenchSpec => []EstimatesFit
<1>1. BenchIInv => EstimatesFit
  <2> SUFFICES ASSUME BenchIInv, NEW j \in Jobs, NEW i \in ahead[j], length # 0
               PROVE  LET s == Resized(RawScenarios[i], length)
                      IN  PromptChars(s) <= 4 * (length - s.out) /\ s.out >= 64
    BY DEF EstimatesFit
  <2>1. length \in Nat
    BY BenchAssumption DEF BenchIInv
  <2>2. i \in Scenarios(length)
    BY DEF BenchIInv, Progress
  <2> DEFINE s == Resized(RawScenarios[i], length)
  <2>3. s.est \in Nat /\ s.est >= 512 /\ s.out \in Int /\ s.est + s.out <= length /\ s.out >= 64
    BY <2>1, <2>2, ResizedFits
  <2> HIDE DEF s
  <2>4. 32 \in Int /\ 4 * s.est \in Int
    BY <2>3
  <2>5. PromptChars(s) \in {32, 4 * s.est}
    BY <2>4, MaxOfTwo DEF PromptChars
  <2>6. PromptChars(s) <= 4 * (length - s.out)
    BY <2>1, <2>3, <2>5
  <2> QED  BY <2>3, <2>6 DEF s
<1> QED  BY <1>1, BenchIInvHolds, PTL

(* The runs are listed in a strict order.                                  *)
LEMMA RunsInOrder ==
    ASSUME BenchIInv
    PROVE  /\ IsFiniteSet(Runs) /\ Runs \subseteq Dirs
           /\ \A c \in Runs : ~Earlier(c, c)
           /\ \A c, d \in Runs : c # d => Earlier(c, d) \/ Earlier(d, c)
           /\ \A c, d, e \in Runs : Earlier(c, d) /\ Earlier(d, e) => Earlier(c, e)
<1> DEFINE J == {o \in Jobs : bench[o].at # "new"}
           g == [o \in J |-> bench[o].dir]
<1>1. Runs \subseteq Dirs
  BY DEF Runs, BenchIInv, Progress
<1>2. IsFiniteSet(J)
  BY BenchAssumption, FS_Subset
<1>3. g \in Surjection(J, Runs)
  BY DEF Surjection, Runs
<1>4. IsFiniteSet(Runs)
  BY <1>2, <1>3, FS_Surjection
<1>5. Dirs \subseteq Nat \X Nat
  <2>1. Engines \subseteq Nat /\ Seconds \subseteq Nat
    BY BenchAssumption DEF Seconds
  <2> QED  BY <2>1 DEF Dirs
<1>6. \A c \in Runs : c[1] \in Nat /\ c[2] \in Nat /\ c = <<c[1], c[2]>>
  BY <1>1, <1>5
<1>7. \A c, d \in Runs : c # d => c[1] # d[1] \/ c[2] # d[2]
  BY <1>6
<1> HIDE DEF J, g
<1>8. \A c \in Runs : ~Earlier(c, c)
  BY <1>6 DEF Earlier
<1>9. \A c, d \in Runs : c # d => Earlier(c, d) \/ Earlier(d, c)
  BY <1>6, <1>7 DEF Earlier
<1>10. \A c, d, e \in Runs : Earlier(c, d) /\ Earlier(d, e) => Earlier(c, e)
  BY <1>6 DEF Earlier
<1> QED  BY <1>1, <1>4, <1>8, <1>9, <1>10

(* How many runs come before c.                                            *)
Rank(c) == Cardinality({e \in Runs : Earlier(e, c)})

(* The earlier a run, the smaller its rank.                                *)
LEMMA RankClimbs ==
    ASSUME BenchIInv, NEW c \in Runs
    PROVE  /\ Rank(c) \in 0..(Cardinality(Runs) - 1)
           /\ \A d \in Runs : Earlier(d, c) => Rank(d) < Rank(c)
<1> DEFINE R(x) == {d \in Runs : Earlier(d, x)}
<1>1. /\ IsFiniteSet(Runs) /\ \A x \in Runs : ~Earlier(x, x)
      /\ \A x, y, z \in Runs : Earlier(x, y) /\ Earlier(y, z) => Earlier(x, z)
  BY RunsInOrder
<1>2. \A x \in Runs : IsFiniteSet(R(x)) /\ Cardinality(R(x)) \in Nat
  <2> TAKE x \in Runs
  <2>1. IsFiniteSet(R(x))
    BY <1>1, FS_Subset
  <2> QED  BY <2>1, FS_CardinalityType
<1>3. ASSUME NEW x \in Runs, NEW T \in SUBSET Runs, R(x) \subseteq T, x \in T
      PROVE  Cardinality(R(x)) < Cardinality(T) /\ Cardinality(T) \in Nat
  <2>1. x \notin R(x)
    BY <1>1
  <2>2. Cardinality(R(x) \cup {x}) = Cardinality(R(x)) + 1
    BY <1>2, <2>1, FS_AddElement
  <2>3. IsFiniteSet(T) /\ Cardinality(T) \in Nat
    BY <1>1, <1>3, FS_Subset, FS_CardinalityType
  <2>4. R(x) \cup {x} \in SUBSET T
    BY <1>3
  <2>5. Cardinality(R(x) \cup {x}) <= Cardinality(T)
    BY <2>3, <2>4, FS_Subset
  <2> QED  BY <1>2, <2>2, <2>3, <2>5
<1>4. Cardinality(R(c)) < Cardinality(Runs) /\ Cardinality(Runs) \in Nat
  BY <1>3
<1>5. ASSUME NEW d \in Runs, Earlier(d, c) PROVE Cardinality(R(d)) < Cardinality(R(c))
  <2>1. R(d) \subseteq R(c) /\ d \in R(c) /\ R(c) \in SUBSET Runs
    BY <1>1, <1>5
  <2> QED  BY <1>3, <2>1
<1>6. \A x \in Runs : Rank(x) = Cardinality(R(x))
  BY DEF Rank
<1> HIDE DEF R
<1>7. Rank(c) \in 0..(Cardinality(Runs) - 1)
  BY <1>2, <1>4, <1>6
<1>8. \A d \in Runs : Earlier(d, c) => Rank(d) < Rank(c)
  BY <1>5, <1>6
<1> QED  BY <1>7, <1>8

(* So no place stays empty: with n runs or more, n have ranks below n.     *)
LEMMA FirstRuns ==
    ASSUME BenchIInv, NEW n \in Nat, n <= Cardinality(Runs)
    PROVE  Cardinality({c \in Runs : Rank(c) < n}) = n
<1> DEFINE m == Cardinality(Runs)
           K == {c \in Runs : Rank(c) < n}
           f == [c \in Runs |-> Rank(c)]
           g == [c \in K |-> Rank(c)]
<1>1. IsFiniteSet(Runs) /\ m \in Nat
  BY RunsInOrder, FS_CardinalityType
<1>2. \A c, d \in Runs : c # d => Rank(c) # Rank(d)
  <2> SUFFICES ASSUME NEW c \in Runs, NEW d \in Runs, c # d PROVE Rank(c) # Rank(d)
    OBVIOUS
  <2>1. Rank(c) \in Nat /\ Rank(d) \in Nat
    BY <1>1, RankClimbs
  <2>2. Earlier(c, d) \/ Earlier(d, c)
    BY RunsInOrder
  <2>3. Rank(c) < Rank(d) \/ Rank(d) < Rank(c)
    BY <2>2, RankClimbs
  <2> QED  BY <2>1, <2>3
<1>3. f \in [Runs -> 0..(m - 1)]
  BY RankClimbs
<1>4. f \in Injection(Runs, 0..(m - 1))
  BY <1>2, <1>3 DEF Injection, IsInjective
<1>5. \A x \in Nat : IsFiniteSet(0..(x - 1)) /\ Cardinality(0..(x - 1)) = x
  <2> TAKE x \in Nat
  <2>1. 0 \in Int /\ x - 1 \in Int
    OBVIOUS
  <2>2. IsFiniteSet(0..(x - 1))
        /\ Cardinality(0..(x - 1)) = IF 0 > x - 1 THEN 0 ELSE (x - 1) - 0 + 1
    BY <2>1, FS_Interval
  <2>3. (IF 0 > x - 1 THEN 0 ELSE (x - 1) - 0 + 1) = x
    OBVIOUS
  <2> QED  BY <2>2, <2>3
<1>6. f \in Surjection(Runs, 0..(m - 1))
  BY <1>1, <1>4, <1>5, FS_Injection
<1>7. \A i \in 0..(m - 1) : \E c \in Runs : Rank(c) = i
  BY <1>6 DEF Surjection
<1>8. g \in [K -> 0..(n - 1)] /\ \A c \in K : c \in Runs
  BY <1>1, RankClimbs
<1>9. g \in Surjection(K, 0..(n - 1))
  <2>1. \A i \in 0..(n - 1) : \E c \in K : g[c] = i
    BY <1>1, <1>7
  <2> QED  BY <1>8, <2>1 DEF Surjection
<1>10. g \in Injection(K, 0..(n - 1))
  BY <1>2, <1>8 DEF Injection, IsInjective
<1> QED  BY <1>5, <1>9, <1>10, FS_Injection

(* A run that is not listed finds the list full of earlier ones.           *)
LEMMA ListedAre ==
    ASSUME BenchIInv, NEW c \in Runs, c \notin Listed
    PROVE  Cardinality(Listed) = MaxListed /\ \A d \in Listed : Earlier(d, c)
<1>1. Listed = {d \in Runs : Rank(d) < MaxListed} /\ MaxListed \in Nat
  BY BenchAssumption DEF Listed, Rank
<1>2. ~(Rank(c) < MaxListed)
  BY <1>1
<1>3. \A d \in Runs : Rank(d) \in 0..(Cardinality(Runs) - 1)
  BY RankClimbs
<1>4. Cardinality(Runs) \in Nat
  BY RunsInOrder, FS_CardinalityType
<1>5. MaxListed <= Cardinality(Runs)
  BY <1>1, <1>2, <1>3, <1>4
<1>6. Cardinality(Listed) = MaxListed
  BY <1>1, <1>5, FirstRuns
<1>7. ASSUME NEW d \in Listed PROVE Earlier(d, c)
  <2>1. d \in Runs /\ Rank(d) < MaxListed
    BY <1>1
  <2>2. ~(Rank(c) < Rank(d)) /\ c # d
    BY <1>1, <1>2, <1>3, <1>4, <2>1
  <2>3. ~Earlier(c, d)
    BY <2>1, <2>2, RankClimbs
  <2> QED  BY <2>1, <2>2, <2>3, RunsInOrder
<1> QED  BY <1>6, <1>7

(* A job that succeeded finds its own summary, unless it had to share its  *)
(* second with another one on its engine, and it is in the list, unless    *)
(* the list is full of runs that come before it.                           *)
THEOREM SucceededIsListedHolds == BenchSpec => []SucceededIsListed
<1>1. BenchIInv => SucceededIsListed
  <2> SUFFICES ASSUME BenchIInv PROVE SucceededIsListed
    OBVIOUS
  <2>1. ASSUME NEW j \in Jobs, bench[j].at = "succeeded", ~Shared(j)
        PROVE  /\ ListedKind(bench[j].dir) = bench[j].kind /\ outcome[bench[j].dir] = j
               /\ bench[j].kind = "scenario" => measured[j] = Cardinality(Scenarios(length))
    <3>1. Progress(j) /\ Written(j) /\ measured[j] \in Nat
      BY DEF BenchIInv
    <3>2. outcome[bench[j].dir] = j /\ ahead[j] = {}
      BY <2>1, <3>1 DEF Progress, Written
    <3>3. ListedKind(bench[j].dir) = bench[j].kind
      BY <3>2 DEF ListedKind
    <3>4. bench[j].kind = "scenario" => measured[j] + Cardinality({}) = Cardinality(Scenarios(length))
      BY <3>1, <3>2 DEF Progress
    <3>5. Cardinality({}) = 0
      BY FS_EmptySet
    <3> QED  BY <3>1, <3>2, <3>3, <3>4, <3>5
  <2>2. BenchTypeOK
    BY DEF BenchIInv
  <2>3. ASSUME NEW j \in Jobs, bench[j].at = "succeeded"
        PROVE  \/ bench[j].dir \in Listed
               \/ /\ Cardinality(Listed) = MaxListed
                  /\ \A d \in Listed : Earlier(d, bench[j].dir)
    <3>1. bench[j].dir \in Runs
      BY <2>3 DEF Runs
    <3> QED  BY <3>1, ListedAre
  <2> QED  BY <2>1, <2>2, <2>3 DEF SucceededIsListed, Shared
<1> QED  BY <1>1, BenchIInvHolds, PTL

-----------------------------------------------------------------------------
(* The load test                                                           *)

(* What one request leaves in the list of its user.                        *)
Results == {StreamChat(stream) : stream \in Streams}
RowOfSeries == [requests : Int, window : Int]
WorkerAts == {"check", "think", "request", "count", "ended"}

(* The lists and the counters differ by the request of the worker that     *)
(* holds the lock between the two.                                         *)
Counted ==
    /\ IsFiniteSet(Answers)
    /\ Cardinality(Answers) = sinceStart + IF lockHolder = Free THEN 0 ELSE 1
    /\ \A u \in Users : worker[u] = "count" <=> lockHolder = u
(* The series, and the counter the collector goes by.                      *)
Series ==
    /\ rows \in Seq(RowOfSeries)
    /\ snapshot = IF rows = <<>> THEN 0 ELSE rows[Len(rows)].requests
    /\ \A i \in DOMAIN rows :
         rows[i].requests = rows[i].window + IF i = 1 THEN 0 ELSE rows[i - 1].requests
(* A user who thinks while switched off has not sent a request since.      *)
Switched ==
    /\ late \in [Users -> Nat]
    /\ \A u \in Users : ~active[u] => /\ late[u] <= 1
                                      /\ worker[u] = "think" => late[u] = 0
LoadIInv ==
    /\ LoadTypeOK
    /\ main \in [at : {"phases", "collector", "join", "summary", "counters", "results", "done"},
                 user : Users]
    /\ ctl \in [at : {"loop", "switch", "finish", "ended"}, elapsed : -1..Duration]
    /\ ctl.at = "switch" => ctl.elapsed \in 0..Duration
    /\ results \in [Users -> Seq(Results)]
    /\ Counted /\ Series /\ Switched

(* The constants as numbers.                                               *)
LEMMA LoadConstants ==
    /\ NUsers \in Nat /\ NUsers >= 1 /\ RampUp \in Nat /\ Steady \in Nat /\ RampDown \in Nat
    /\ Duration \in Nat /\ Duration = RampUp + Steady + RampDown
    /\ 0 \in Users /\ Users \subseteq Nat /\ Free \notin Users /\ Free \in Int
  BY LoadTestAssumption DEF Duration, Users, Free

(* A share of a number of users is not more than these.                    *)
LEMMA ShareOf ==
    ASSUME NEW n \in Nat, NEW a \in Nat, NEW b \in Nat, a <= b, b # 0
    PROVE  (n * a) \div b \in 0..n
<1> DEFINE m == n * a
           q == m \div b
<1>1. m \in Nat /\ m <= n * b
  OBVIOUS
<1>2. q \in Nat /\ b * q <= m
  <2> HIDE DEF m
  <2> QED  BY <1>1
<1>3. q <= n
  <2> HIDE DEF m, q
  <2>1. b * q <= n * b
    BY <1>1, <1>2
  <2>2. CASE q >= n + 1
    <3>1. b * q >= b * (n + 1)
      BY <1>2, <2>2
    <3>2. b * (n + 1) = n * b + b
      OBVIOUS
    <3> QED  BY <1>1, <1>2, <2>1, <3>1, <3>2
  <2> QED  BY <1>2, <2>2
<1> QED  BY <1>2, <1>3

(* Never more users are to be active than there are.                       *)
LEMMA TargetInRange ==
    ASSUME NEW t \in 0..Duration
    PROVE  TargetActiveUsers(t) \in 0..NUsers
<1>1. t \in Nat /\ t <= Duration /\ NUsers \in Nat /\ NUsers >= 1
  BY LoadConstants
<1>2. CASE CurrentPhase(t) = "ramp_up"
  <2>1. t < RampUp
    BY <1>1, <1>2, LoadConstants DEF CurrentPhase
  <2>2. (NUsers * t) \div RampUp \in 0..NUsers
    BY <1>1, <2>1, LoadConstants, ShareOf
  <2> DEFINE q == (NUsers * t) \div RampUp
  <2>3. q \in 0..NUsers
    BY <2>2
  <2>4. TargetActiveUsers(t) = Max({1, q})
    BY <1>2 DEF TargetActiveUsers
  <2> HIDE DEF q
  <2>5. 1 \in Int /\ q \in Int
    BY <1>1, <2>3
  <2>6. Max({1, q}) \in {1, q}
    BY <2>5, MaxOfTwo
  <2> QED  BY <1>1, <2>3, <2>4, <2>6
<1>3. CASE CurrentPhase(t) = "steady"
  BY <1>1, <1>3 DEF TargetActiveUsers
<1>4. CASE CurrentPhase(t) = "ramp_down"
  <2>1. t \in RampUp + Steady .. Duration - 1
    BY <1>1, <1>4, LoadConstants DEF CurrentPhase
  <2>2. Duration - t \in Nat /\ Duration - t <= RampDown /\ RampDown # 0
    BY <1>1, <2>1, LoadConstants
  <2>3. (NUsers * (Duration - t)) \div RampDown \in 0..NUsers
    BY <1>1, <2>2, LoadConstants, ShareOf
  <2>4. TargetActiveUsers(t) = (NUsers * (Duration - t)) \div RampDown
    BY <1>4 DEF TargetActiveUsers
  <2> QED  BY <2>3, <2>4
<1>5. CASE CurrentPhase(t) \notin {"ramp_up", "steady", "ramp_down"}
  BY <1>1, <1>5 DEF TargetActiveUsers
<1> QED  BY <1>2, <1>3, <1>4, <1>5


(* Who touches no user, leaves the lists and counters right.               *)
LEMMA UsersKept ==
    ASSUME LoadIInv, UNCHANGED userVars
    PROVE  /\ Counted' /\ Switched' /\ results' \in [Users -> Seq(Results)]
           /\ lockHolder' = lockHolder /\ worker' = worker /\ active' = active
           /\ sinceStart' = sinceStart /\ counted' = counted
<1>1. /\ results' = results /\ lockHolder' = lockHolder /\ worker' = worker /\ active' = active
      /\ sinceStart' = sinceStart /\ late' = late /\ counted' = counted
  BY DEF userVars
<1>2. Answers' = Answers
  BY <1>1 DEF Answers
<1>3. Counted'
  BY <1>1, <1>2 DEF LoadIInv, Counted
<1>4. Switched'
  BY <1>1 DEF LoadIInv, Switched
<1> QED  BY <1>1, <1>3, <1>4 DEF LoadIInv

(* And who is not the collector the series.                                *)
LEMMA SeriesKept ==
    ASSUME LoadIInv, UNCHANGED colVars
    PROVE  Series' /\ collector' = collector /\ snapshot' = snapshot
<1>1. collector' = collector /\ snapshot' = snapshot /\ rows' = rows
  BY DEF colVars
<1> QED  BY <1>1 DEF LoadIInv, Series

(* The phases: a new target switches users off with nothing sent since.    *)
LEMMA ControllerStep ==
    ASSUME LoadIInv, Controller
    PROVE  LoadIInv'
<1>1. CASE ReadPhase
  <2>1. /\ stop' = stop /\ activeCount' = activeCount /\ UNCHANGED userVars /\ UNCHANGED colVars
        /\ main' = main /\ outlived' = outlived
    BY <1>1 DEF ReadPhase, mainVars
  <2>2. /\ ctl' \in [at : {"loop", "switch", "finish", "ended"}, elapsed : -1..Duration]
        /\ ctl'.at = "switch" => ctl'.elapsed \in 0..Duration
        /\ curPhase' \in Phases
    <3>1. CASE stop /\ ctl' = [ctl EXCEPT !.at = "ended"] /\ curPhase' = curPhase
      BY <3>1 DEF LoadIInv, LoadTypeOK
    <3>2. ASSUME NEW now \in ctl.elapsed + 1 .. Duration, ctl' = [at |-> "switch", elapsed |-> now],
                 curPhase' = CurrentPhase(now)
          PROVE  /\ ctl' \in [at : {"loop", "switch", "finish", "ended"}, elapsed : -1..Duration]
                 /\ ctl'.at = "switch" => ctl'.elapsed \in 0..Duration
                 /\ curPhase' \in Phases
      <4>1. ctl.elapsed \in -1..Duration /\ Duration \in Nat
        BY LoadConstants DEF LoadIInv
      <4>2. now \in 0..Duration /\ now \in -1..Duration
        BY <4>1
      <4>3. CurrentPhase(now) \in Phases
        BY DEF CurrentPhase, Phases
      <4> QED  BY <3>2, <4>2, <4>3
    <3> QED  BY <1>1, <3>1, <3>2 DEF ReadPhase
  <2>3. Counted' /\ Switched' /\ results' \in [Users -> Seq(Results)] /\ Series'
    BY <2>1, UsersKept, SeriesKept
  <2>4. LoadTypeOK'
    BY <2>1, <2>2, UsersKept, SeriesKept DEF LoadIInv, LoadTypeOK
  <2> QED  BY <2>1, <2>2, <2>3, <2>4 DEF LoadIInv
<1>2. CASE SwitchUsers
  <2> DEFINE target == TargetActiveUsers(ctl.elapsed)
  <2>1. /\ ctl.at = "switch" /\ activeCount' = target
        /\ active' = [u \in Users |-> u < target]
        /\ late' = [u \in Users |-> IF active[u] /\ u >= target THEN 0 ELSE late[u]]
        /\ ctl' = [ctl EXCEPT !.at = IF curPhase = "done" THEN "finish" ELSE "loop"]
        /\ stop' = stop /\ curPhase' = curPhase /\ worker' = worker /\ results' = results
        /\ counted' = counted /\ sinceStart' = sinceStart /\ lockHolder' = lockHolder
        /\ UNCHANGED colVars /\ main' = main /\ outlived' = outlived
    BY <1>2 DEF SwitchUsers, mainVars
  <2>2. target \in 0..NUsers
    BY <2>1, TargetInRange DEF LoadIInv
  <2> HIDE DEF target
  <2>3. /\ ctl' \in [at : {"loop", "switch", "finish", "ended"}, elapsed : -1..Duration]
        /\ ctl'.at # "switch"
    BY <2>1 DEF LoadIInv
  <2>4. Answers' = Answers
    BY <2>1 DEF Answers
  <2>5. Counted'
    BY <2>1, <2>4 DEF LoadIInv, Counted
  <2>6. Switched'
    <3>1. late' \in [Users -> Nat]
      BY <2>1 DEF LoadIInv, Switched
    <3>2. ASSUME NEW u \in Users, ~active'[u]
          PROVE  late'[u] <= 1 /\ (worker'[u] = "think" => late'[u] = 0)
      <4>1. ~(u < target)
        BY <2>1, <3>2
      <4>2. u >= target
        BY <2>2, <4>1, LoadConstants
      <4>3. CASE active[u]
        BY <2>1, <4>2, <4>3
      <4>4. CASE ~active[u]
        BY <2>1, <4>4 DEF LoadIInv, Switched
      <4> QED  BY <4>3, <4>4
    <3> QED  BY <3>1, <3>2 DEF Switched
  <2>7. active' \in [Users -> BOOLEAN]
    BY <2>1
  <2>8. LoadTypeOK'
    BY <2>1, <2>2, <2>3, <2>7, SeriesKept DEF LoadIInv, LoadTypeOK
  <2> QED  BY <2>1, <2>3, <2>5, <2>6, <2>8, SeriesKept DEF LoadIInv
<1>3. CASE FinishPhases
  <2>1. /\ stop' = TRUE /\ curPhase' = curPhase /\ activeCount' = activeCount
        /\ ctl' = [ctl EXCEPT !.at = "ended"]
        /\ UNCHANGED userVars /\ UNCHANGED colVars /\ main' = main /\ outlived' = outlived
    BY <1>3 DEF FinishPhases, mainVars
  <2>2. /\ ctl' \in [at : {"loop", "switch", "finish", "ended"}, elapsed : -1..Duration]
        /\ ctl'.at = "ended"
    BY <2>1 DEF LoadIInv
  <2>3. LoadTypeOK'
    BY <2>1, <2>2, UsersKept, SeriesKept DEF LoadIInv, LoadTypeOK
  <2> QED  BY <2>1, <2>2, <2>3, UsersKept, SeriesKept DEF LoadIInv
<1> QED  BY <1>1, <1>2, <1>3 DEF Controller

(* A new entry of a list is one more.                                      *)
LEMMA OneMoreAnswer ==
    ASSUME LoadIInv, NEW u \in Users, NEW x \in Results,
           results' = [results EXCEPT ![u] = Append(@, x)]
    PROVE  /\ results' \in [Users -> Seq(Results)]
           /\ IsFiniteSet(Answers') /\ Cardinality(Answers') = Cardinality(Answers) + 1
<1>1. results \in [Users -> Seq(Results)] /\ IsFiniteSet(Answers)
  BY DEF LoadIInv, Counted
<1> DEFINE n == Len(results[u]) + 1
<1>2. results[u] \in Seq(Results)
  BY <1>1
<1>3. /\ results'[u] = Append(results[u], x) /\ results'[u] \in Seq(Results)
      /\ DOMAIN results[u] = 1..Len(results[u]) /\ Len(results[u]) \in Nat
      /\ DOMAIN results'[u] = 1..n
  BY <1>1, <1>2
<1>4. DOMAIN results'[u] = DOMAIN results[u] \cup {n} /\ n \notin DOMAIN results[u]
  BY <1>3
<1> HIDE DEF n
<1>5. \A v \in Users \ {u} : results'[v] = results[v]
  BY <1>1
<1>6. Answers' = Answers \cup {<<u, n>>}
  BY <1>4, <1>5 DEF Answers
<1>7. <<u, n>> \notin Answers
  BY <1>4 DEF Answers
<1>8. results' \in [Users -> Seq(Results)]
  BY <1>1, <1>3
<1>9. /\ IsFiniteSet(Answers \cup {<<u, n>>})
      /\ Cardinality(Answers \cup {<<u, n>>}) = Cardinality(Answers) + 1
  BY <1>1, <1>7, FS_AddElement
<1> QED  BY <1>6, <1>8, <1>9

(* The workers: who begins a request while switched off was thinking of it *)
(* already, and the lock is held between the list and the counters.        *)
LEMMA WorkerStep ==
    ASSUME LoadIInv, NEW u \in Users, Worker(u)
    PROVE  LoadIInv'
<1>1. /\ worker \in [Users -> WorkerAts] /\ active \in [Users -> BOOLEAN] /\ late \in [Users -> Nat]
      /\ sinceStart \in Nat /\ counted \in [Users -> Nat]
      /\ lockHolder \in Users \cup {Free} /\ Free \notin Users
      /\ IsFiniteSet(Answers)
      /\ Cardinality(Answers) = sinceStart + IF lockHolder = Free THEN 0 ELSE 1
      /\ \A v \in Users : worker[v] = "count" <=> lockHolder = v
      /\ \A v \in Users : ~active[v] => late[v] <= 1 /\ (worker[v] = "think" => late[v] = 0)
  BY LoadConstants DEF LoadIInv, LoadTypeOK, Counted, Switched, WorkerAts
<1>2. ASSUME UNCHANGED <<stop, ctlVars, colVars, mainVars>>, active' = active,
             worker' \in [Users -> WorkerAts], lockHolder' \in Users \cup {Free},
             sinceStart' \in Nat, counted' \in [Users -> Nat],
             results' \in [Users -> Seq(Results)], Counted', Switched'
      PROVE  LoadIInv'
  <2>1. /\ stop' = stop /\ ctl' = ctl /\ curPhase' = curPhase /\ activeCount' = activeCount
        /\ main' = main /\ outlived' = outlived /\ UNCHANGED colVars
    BY <1>2 DEF ctlVars, mainVars
  <2>2. LoadTypeOK'
    BY <1>2, <2>1, SeriesKept DEF LoadIInv, LoadTypeOK, WorkerAts
  <2> QED  BY <1>2, <2>1, <2>2, SeriesKept DEF LoadIInv
<1>3. CASE Check(u)
  <2> DEFINE w == IF stop THEN "ended" ELSE "think"
  <2>1. /\ worker[u] = "check" /\ lockHolder = Free /\ (stop \/ active[u])
        /\ worker' = [worker EXCEPT ![u] = w]
        /\ UNCHANGED <<stop, ctlVars, colVars, mainVars>>
        /\ active' = active /\ results' = results /\ counted' = counted
        /\ sinceStart' = sinceStart /\ lockHolder' = lockHolder /\ late' = late
    BY <1>3 DEF Check
  <2>2. w \in WorkerAts /\ w # "count" /\ (w = "think" => active[u])
    BY <2>1 DEF WorkerAts
  <2> HIDE DEF w
  <2>3. worker' \in [Users -> WorkerAts]
    BY <1>1, <2>1, <2>2
  <2>4. \A v \in Users : worker'[v] = IF v = u THEN w ELSE worker[v]
    BY <1>1, <2>1
  <2>5. Answers' = Answers
    BY <2>1 DEF Answers
  <2>6. Counted'
    BY <1>1, <2>1, <2>2, <2>4, <2>5 DEF Counted
  <2>7. Switched'
    BY <1>1, <2>1, <2>2, <2>4 DEF Switched
  <2> QED  BY <1>1, <1>2, <2>1, <2>3, <2>6, <2>7 DEF LoadIInv
<1>4. CASE Request(u)
  <2> DEFINE w == IF stop THEN "ended" ELSE "request"
  <2>1. /\ worker[u] = "think" /\ worker' = [worker EXCEPT ![u] = w]
        /\ late' = IF stop \/ active[u] THEN late ELSE [late EXCEPT ![u] = @ + 1]
        /\ UNCHANGED <<stop, ctlVars, colVars, mainVars>>
        /\ active' = active /\ results' = results /\ counted' = counted
        /\ sinceStart' = sinceStart /\ lockHolder' = lockHolder
    BY <1>4 DEF Request
  <2>2. w \in WorkerAts /\ w # "count" /\ w # "think"
    BY DEF WorkerAts
  <2> HIDE DEF w
  <2>3. worker' \in [Users -> WorkerAts]
    BY <1>1, <2>1, <2>2
  <2>4. \A v \in Users : worker'[v] = IF v = u THEN w ELSE worker[v]
    BY <1>1, <2>1
  <2>5. Answers' = Answers
    BY <2>1 DEF Answers
  <2>6. Counted'
    BY <1>1, <2>1, <2>2, <2>4, <2>5 DEF Counted
  <2>7. Switched'
    <3>1. late' \in [Users -> Nat]
      BY <1>1, <2>1
    <3>2. \A v \in Users : v # u => late'[v] = late[v]
      BY <1>1, <2>1
    <3>3. ~active[u] => late'[u] <= 1
      <4>1. SUFFICES ASSUME ~active[u] PROVE late'[u] <= 1
        OBVIOUS
      <4>2. late[u] = 0
        BY <1>1, <2>1, <4>1
      <4>3. late'[u] = late[u] \/ late'[u] = late[u] + 1
        BY <1>1, <2>1
      <4> QED  BY <4>2, <4>3
    <3> QED  BY <1>1, <2>1, <2>2, <2>4, <3>1, <3>2, <3>3 DEF Switched
  <2> QED  BY <1>1, <1>2, <2>1, <2>3, <2>6, <2>7 DEF LoadIInv
<1>5. CASE Record(u)
  <2>1. PICK stream \in Streams : results' = [results EXCEPT ![u] = Append(@, StreamChat(stream))]
    BY <1>5 DEF Record
  <2>2. /\ worker[u] = "request" /\ lockHolder = Free /\ lockHolder' = u
        /\ worker' = [worker EXCEPT ![u] = "count"]
        /\ UNCHANGED <<stop, ctlVars, colVars, mainVars>>
        /\ active' = active /\ counted' = counted
        /\ sinceStart' = sinceStart /\ late' = late
    BY <1>5 DEF Record
  <2>3. StreamChat(stream) \in Results
    BY DEF Results
  <2> DEFINE x == StreamChat(stream)
  <2> HIDE DEF x
  <2>4. /\ results' \in [Users -> Seq(Results)] /\ IsFiniteSet(Answers')
        /\ Cardinality(Answers') = Cardinality(Answers) + 1
    BY <2>1, <2>3, OneMoreAnswer DEF x
  <2>5. worker' \in [Users -> WorkerAts]
    BY <1>1, <2>2 DEF WorkerAts
  <2>6. \A v \in Users : worker'[v] = IF v = u THEN "count" ELSE worker[v]
    BY <1>1, <2>2
  <2>7. Counted'
    <3>1. Cardinality(Answers') = sinceStart' + IF lockHolder' = Free THEN 0 ELSE 1
      BY <1>1, <2>2, <2>4
    <3> QED  BY <1>1, <2>2, <2>4, <2>6, <3>1 DEF Counted
  <2>8. Switched'
    BY <1>1, <2>2, <2>6 DEF Switched
  <2> QED  BY <1>1, <1>2, <2>2, <2>4, <2>5, <2>7, <2>8
<1>6. CASE Count(u)
  <2>1. /\ worker[u] = "count" /\ lockHolder' = Free
        /\ counted' = [counted EXCEPT ![u] = @ + 1] /\ sinceStart' = sinceStart + 1
        /\ worker' = [worker EXCEPT ![u] = "check"]
        /\ UNCHANGED <<stop, ctlVars, colVars, mainVars>>
        /\ active' = active /\ results' = results /\ late' = late
    BY <1>6 DEF Count
  <2>2. worker' \in [Users -> WorkerAts] /\ counted' \in [Users -> Nat] /\ sinceStart' \in Nat
    BY <1>1, <2>1 DEF WorkerAts
  <2>3. \A v \in Users : worker'[v] = IF v = u THEN "check" ELSE worker[v]
    BY <1>1, <2>1
  <2>4. lockHolder = u /\ u # Free
    BY <1>1, <2>1
  <2>5. Answers' = Answers
    BY <2>1 DEF Answers
  <2>6. Counted'
    <3>1. Cardinality(Answers') = sinceStart'
      BY <1>1, <2>1, <2>4, <2>5
    <3>2. \A v \in Users : worker'[v] # "count" /\ lockHolder' # v
      BY <1>1, <2>1, <2>3, <2>4
    <3> QED  BY <1>1, <2>1, <2>2, <2>5, <3>1, <3>2 DEF Counted
  <2>7. Switched'
    BY <1>1, <2>1, <2>3 DEF Switched
  <2> QED  BY <1>1, <1>2, <2>1, <2>2, <2>6, <2>7 DEF LoadIInv
<1> QED  BY <1>3, <1>4, <1>5, <1>6 DEF Worker

(* The collector takes its row while nobody is between list and counters.  *)
LEMMA CollectStep ==
    ASSUME LoadIInv, Collect
    PROVE  LoadIInv'
<1>1. /\ UNCHANGED userVars /\ stop' = stop
      /\ ctl' = ctl /\ curPhase' = curPhase /\ activeCount' = activeCount
      /\ main' = main /\ outlived' = outlived
  BY DEF Collect, CollectHead, CollectRow, CollectorEnds, ctlVars, mainVars
<1>2. collector' \in {"wait", "collect", "ended"} /\ snapshot' \in Nat
  BY DEF Collect, CollectHead, CollectRow, CollectorEnds, LoadIInv, LoadTypeOK
<1>3. LoadTypeOK'
  BY <1>1, <1>2, UsersKept DEF LoadIInv, LoadTypeOK
<1>4. Series'
  <2>1. CASE CollectHead \/ CollectorEnds
    BY <2>1 DEF CollectHead, CollectorEnds, LoadIInv, Series
  <2>2. CASE CollectRow
    <3> DEFINE r == [requests |-> Cardinality(Answers), window |-> sinceStart - snapshot]
               n == Len(rows)
    <3>1. rows' = Append(rows, r) /\ snapshot' = sinceStart /\ lockHolder = Free
      BY <2>2 DEF CollectRow
    <3>2. Cardinality(Answers) = sinceStart /\ sinceStart \in Nat /\ snapshot \in Nat
      BY <3>1 DEF LoadIInv, LoadTypeOK, Counted
    <3>3. r \in RowOfSeries /\ r.requests = sinceStart /\ r.window = sinceStart - snapshot
      BY <3>2 DEF RowOfSeries
    <3> HIDE DEF r
    <3>4. rows \in Seq(RowOfSeries) /\ n \in Nat /\ DOMAIN rows = 1..n
      BY DEF LoadIInv, Series
    <3>5. /\ rows' \in Seq(RowOfSeries) /\ Len(rows') = n + 1 /\ DOMAIN rows' = 1..(n + 1)
          /\ rows'[n + 1] = r /\ \A i \in 1..n : rows'[i] = rows[i]
      BY <3>1, <3>3, <3>4
    <3>6. rows' # <<>> /\ snapshot' = rows'[Len(rows')].requests
      BY <3>1, <3>3, <3>4, <3>5
    <3> HIDE DEF n
    <3>7. ASSUME NEW i \in DOMAIN rows'
          PROVE  rows'[i].requests = rows'[i].window + IF i = 1 THEN 0 ELSE rows'[i - 1].requests
      <4>1. CASE i \in 1..n
        <5>1. i # 1 => i - 1 \in 1..n
          BY <3>4, <4>1
        <5>2. rows[i].requests = rows[i].window + IF i = 1 THEN 0 ELSE rows[i - 1].requests
          BY <3>4, <4>1 DEF LoadIInv, Series
        <5> QED  BY <3>5, <4>1, <5>1, <5>2
      <4>2. CASE i = n + 1 /\ n = 0
        <5>1. snapshot = 0
          BY <3>4, <4>2 DEF LoadIInv, Series, n
        <5> QED  BY <3>2, <3>3, <3>5, <4>2, <5>1
      <4>3. CASE i = n + 1 /\ n # 0
        <5>1. snapshot = rows[n].requests
          BY <3>4, <4>3 DEF LoadIInv, Series, n
        <5>2. n \in 1..n /\ i # 1 /\ i - 1 = n
          BY <3>4, <4>3
        <5>3. rows'[i] = r /\ rows'[i - 1] = rows[n]
          BY <3>5, <4>3, <5>2
        <5> QED  BY <3>2, <3>3, <5>1, <5>2, <5>3
      <4> QED  BY <3>4, <3>5, <4>1, <4>2, <4>3
    <3> QED  BY <3>5, <3>6, <3>7 DEF Series
  <2> QED  BY <2>1, <2>2 DEF Collect
<1> QED  BY <1>1, <1>3, <1>4, UsersKept DEF LoadIInv

(* Main changes nothing of the users and the series.                       *)
LEMMA MainStep ==
    ASSUME LoadIInv, Main
    PROVE  LoadIInv'
<1>1. /\ UNCHANGED userVars /\ UNCHANGED colVars
      /\ ctl' = ctl /\ curPhase' = curPhase /\ activeCount' = activeCount
  BY DEF Main, JoinPhases, StopUsers, JoinUser, SumUser, LineCounters, LineResults, ctlVars
<1> DEFINE M == [at : {"phases", "collector", "join", "summary", "counters", "results", "done"},
                 user : Users]
<1>2. main \in M /\ main.user \in Users
  BY DEF LoadIInv
<1>3. ASSUME NEW next \in {"summary", "counters", "done"} PROVE Onward(next) \in M
  <2>1. main.user + 1 < NUsers => main.user + 1 \in Users
    BY <1>2, LoadConstants DEF Users
  <2>2. main.user + 1 < NUsers => [main EXCEPT !.user = main.user + 1] \in M
    BY <1>2, <2>1
  <2>3. [at |-> next, user |-> 0] \in M
    BY LoadConstants
  <2> HIDE DEF M
  <2> QED  BY <2>2, <2>3 DEF Onward
<1>4. main' \in M
  <2>1. CASE JoinPhases \/ StopUsers \/ LineCounters
    BY <1>2, <2>1, LoadConstants DEF JoinPhases, StopUsers, LineCounters
  <2>2. CASE JoinUser \/ SumUser
    <3>1. main' = Onward("summary") \/ main' = Onward("counters")
      BY <2>2 DEF JoinUser, SumUser
    <3> HIDE DEF M
    <3> QED  BY <1>3, <3>1
  <2>3. CASE LineResults
    <3>1. main' = [Onward("done") EXCEPT !.at = IF @ = "done" THEN @ ELSE "counters"]
      BY <2>3 DEF LineResults
    <3>2. Onward("done") \in M
      BY <1>3
    <3> QED  BY <3>1, <3>2
  <2> QED  BY <2>1, <2>2, <2>3 DEF Main
<1>5. stop' \in BOOLEAN /\ outlived' \subseteq Users
  BY <1>2 DEF Main, JoinPhases, StopUsers, JoinUser, SumUser, LineCounters, LineResults, LoadIInv,
              LoadTypeOK
<1>6. LoadTypeOK'
  BY <1>1, <1>4, <1>5, UsersKept, SeriesKept DEF LoadIInv, LoadTypeOK
<1> QED  BY <1>1, <1>4, <1>6, UsersKept, SeriesKept DEF LoadIInv

(* The invariant holds in every state of the load test.                    *)
THEOREM LoadIInvHolds == LoadSpec => []LoadIInv
<1>1. LoadInit => LoadIInv
  <2> SUFFICES ASSUME LoadInit PROVE LoadIInv
    OBVIOUS
  <2> USE DEF LoadInit
  <2>1. LoadTypeOK
    <3>1. active \in [Users -> BOOLEAN] /\ stop \in BOOLEAN
      OBVIOUS
    <3>2. /\ ctl.at = "loop" /\ main.at = "phases" /\ main.user \in Users /\ activeCount \in 0..NUsers
          /\ lockHolder \in Users \cup {Free} /\ sinceStart \in Nat /\ snapshot \in Nat
          /\ counted \in [Users -> Nat]
      BY LoadConstants
    <3>3. /\ worker \in [Users -> {"check", "think", "request", "count", "ended"}]
          /\ curPhase \in Phases /\ collector = "wait" /\ outlived \subseteq Users
      BY DEF Phases
    <3> QED  BY <3>1, <3>2, <3>3 DEF LoadTypeOK
  <2>2. \A u \in Users : DOMAIN results[u] = {}
    OBVIOUS
  <2>3. Answers = {}
    BY <2>2 DEF Answers
  <2>4. Counted
    BY <2>3, LoadConstants, FS_EmptySet DEF Counted
  <2>5. Series
    BY DEF Series
  <2>6. Switched
    BY DEF Switched
  <2>7. /\ ctl \in [at : {"loop", "switch", "finish", "ended"}, elapsed : -1..Duration]
        /\ ctl.at # "switch"
    BY LoadConstants
  <2> QED  BY <2>1, <2>4, <2>5, <2>6, <2>7, LoadConstants DEF LoadIInv
<1>2. LoadIInv /\ [LoadNext]_loadVars => LoadIInv'
  <2> SUFFICES ASSUME LoadIInv, [LoadNext]_loadVars PROVE LoadIInv'
    OBVIOUS
  <2>1. CASE UNCHANGED loadVars
    <3>1. /\ UNCHANGED userVars /\ UNCHANGED colVars /\ stop' = stop
          /\ ctl' = ctl /\ curPhase' = curPhase /\ activeCount' = activeCount
          /\ main' = main /\ outlived' = outlived
      BY <2>1 DEF loadVars, ctlVars, mainVars
    <3>2. LoadTypeOK'
      BY <3>1, UsersKept, SeriesKept DEF LoadIInv, LoadTypeOK
    <3> QED  BY <3>1, <3>2, UsersKept, SeriesKept DEF LoadIInv
  <2> QED  BY <2>1, ControllerStep, WorkerStep, CollectStep, MainStep DEF LoadNext
<1> QED  BY <1>1, <1>2, PTL DEF LoadSpec

(* From row to row the requests of the lists grow by those of the window:  *)
(* no request is lost between two windows or in both.                      *)
THEOREM WindowsAddUpHolds == LoadSpec => []WindowsAddUp
<1>1. LoadIInv => WindowsAddUp
  BY DEF LoadIInv, Series, WindowsAddUp
<1> QED  BY <1>1, LoadIInvHolds, PTL

(* A user who is switched off sends at most one request more.              *)
THEOREM OneMoreHolds == LoadSpec => []OneMoreAfterSwitchOff
<1>1. LoadIInv => OneMoreAfterSwitchOff
  BY DEF LoadIInv, Switched, OneMoreAfterSwitchOff
<1> QED  BY <1>1, LoadIInvHolds, PTL

-----------------------------------------------------------------------------
(* The outputs                                                             *)

(* How far main has come with the worker, the summary and the line of a    *)
(* user.                                                                   *)
Joined(u) == \/ main.at \in {"summary", "counters", "results", "done"}
             \/ main.at = "join" /\ u < main.user
Summed(u) == \/ main.at \in {"counters", "results", "done"}
             \/ main.at = "summary" /\ u < main.user
InLines(u) == \/ main.at = "done"
              \/ main.at \in {"counters", "results"} /\ u < main.user
Noted(u)  == InLines(u) \/ (main.at = "results" /\ u = main.user)

(* What main has read of a user is never more than what it reads later;    *)
(* of a worker that it saw end it has read everything.                     *)
Agreed(u) ==
    /\ Joined(u) => u \in outlived \/ worker[u] = "ended"
    /\ Summed(u) => /\ IsPrefix(summary[u], results[u])
                    /\ u \in outlived \/ summary[u] = results[u]
    /\ Noted(u)  => /\ lines[u].counted <= Len(results[u])
                    /\ u \in outlived \/ lines[u].counted = Len(results[u])
    /\ InLines(u) => /\ IsPrefix(summary[u], lines[u].results)
                     /\ lines[u].counted <= Len(lines[u].results)
                     /\ u \in outlived \/ lines[u].results = results[u]
Behind(u) == counted[u] = Len(results[u]) - IF worker[u] = "count" THEN 1 ELSE 0
OutputIInv ==
    /\ summary \in [Users -> Seq(Results)]
    /\ lines \in [Users -> [counted : Nat, results : Seq(Results)]]
    /\ \A u \in Users : Behind(u) /\ Agreed(u)

(* Every set of numbers that is not empty has a least one.                 *)
LEMMA LeastNat ==
    ASSUME NEW S \in SUBSET Nat, S # {}
    PROVE  \E m \in S : \A n \in S : m <= n
<1> DEFINE Smaller == OpToRel(<, Nat)
<1>1. IsWellFoundedOn(Smaller, Nat)
  BY NatLessThanWellFounded, Zenon
<1>2. PICK m \in S : \A n \in S : <<n, m>> \notin Smaller
  <2> HIDE DEF Smaller
  <2> QED  BY <1>1, WFMin
<1>3. \A m1, n1 \in Nat : n1 < m1 => <<n1, m1>> \in Smaller
  BY DEF OpToRel
<1>4. \A n \in S : ~(n < m)
  BY <1>2, <1>3
<1> QED  BY <1>4

(* An answer without an error has begun, and has one token at least.       *)
LEMMA GoodAnswer ==
    ASSUME NEW x \in Results, ~x.error
    PROVE  x.ttft \in 1..x.total /\ x.tokens > 0
<1>1. PICK s \in Streams : x = StreamChat(s)
  BY DEF Results
<1> DEFINE fr == s.frames
           n == Len(fr)
           begun == {i \in DOMAIN fr : Started(fr[i])}
           chunks == {i \in DOMAIN fr : TextCount(fr[i]) = 1}
           c == Cardinality(chunks)
<1>2. n \in Nat /\ DOMAIN fr = 1..n
  BY LoadTestAssumption
<1>3. /\ begun # {}
      /\ x = [error |-> FALSE, ttft |-> Min(begun), total |-> n, tokens |-> Max({1, c})]
  BY <1>1 DEF StreamChat
<1>4. begun \subseteq 1..n /\ chunks \subseteq 1..n
  BY <1>2
<1> HIDE DEF fr, n, begun, chunks
<1>5. Min(begun) \in begun
  <2>1. begun \subseteq Nat
    BY <1>2, <1>4
  <2>2. \E m \in begun : \A k \in begun : m <= k
    BY <1>3, <2>1, LeastNat
  <2> QED  BY <2>2 DEF Min
<1>6. c \in Nat
  <2>1. IsFiniteSet(1..n)
    <3> DEFINE one == 1
    <3> HIDE DEF one
    <3>1. one \in Int /\ n \in Int
      BY <1>2 DEF one
    <3>2. IsFiniteSet(one..n)
      BY <3>1, FS_Interval
    <3> QED  BY <3>2 DEF one
  <2>2. IsFiniteSet(chunks)
    BY <1>4, <2>1, FS_Subset
  <2> QED  BY <2>2, FS_CardinalityType
<1> HIDE DEF c
<1>7. Max({1, c}) >= 1
  BY <1>6, MaxOfTwo
<1>8. Max({1, c}) > 0
  <2>1. Max({1, c}) \in {1, c}
    BY <1>6, MaxOfTwo
  <2> QED  BY <1>6, <1>7, <2>1
<1> QED  BY <1>2, <1>3, <1>4, <1>5, <1>8

(* A sequence that grows keeps its prefixes.                               *)
LEMMA PrefixOfAppend ==
    ASSUME NEW S, NEW s \in Seq(S), NEW t \in Seq(S), NEW e \in S, IsPrefix(s, t)
    PROVE  IsPrefix(s, Append(t, e))
<1> DEFINE m == Len(s)
           a == Append(t, e)
<1>1. m \in Nat /\ Len(t) \in Nat /\ m <= Len(t) /\ SubSeq(s, 1, m) = SubSeq(t, 1, m)
  BY DEF IsPrefix
<1>2. a \in Seq(S) /\ Len(a) = Len(t) + 1 /\ \A i \in 1..Len(t) : a[i] = t[i]
  OBVIOUS
<1>3. SubSeq(a, 1, m) = SubSeq(t, 1, m)
  <2>1. SubSeq(a, 1, m) = [i \in 1..m |-> a[i]] /\ SubSeq(t, 1, m) = [i \in 1..m |-> t[i]]
    <3> HIDE DEF a
    <3> QED  BY <1>1, <1>2
  <2> QED  BY <1>1, <1>2, <2>1
<1> QED  BY <1>1, <1>2, <1>3 DEF IsPrefix

(* Every sequence is a prefix of itself.                                   *)
LEMMA PrefixOfItself ==
    ASSUME NEW S, NEW s \in Seq(S)
    PROVE  IsPrefix(s, s)
BY DEF IsPrefix

(* Who touches neither lists, counters and workers nor main keeps it all.  *)
LEMMA OutputUntouched ==
    ASSUME OutputIInv, results' = results, counted' = counted, worker' = worker, UNCHANGED mainVars
    PROVE  OutputIInv'
<1>1. main' = main /\ summary' = summary /\ lines' = lines /\ outlived' = outlived
  BY DEF mainVars
<1> QED  BY <1>1 DEF OutputIInv, Behind, Agreed, Joined, Summed, Noted, InLines

(* A worker adds to the end of its list, and the one that has ended not at *)
(* all.                                                                    *)
LEMMA OutputWorkerStep ==
    ASSUME LoadIInv, OutputIInv, NEW u \in Users, Worker(u)
    PROVE  OutputIInv'
<1>1. /\ worker \in [Users -> WorkerAts] /\ counted \in [Users -> Nat]
      /\ results \in [Users -> Seq(Results)] /\ summary \in [Users -> Seq(Results)]
      /\ lines \in [Users -> [counted : Nat, results : Seq(Results)]]
      /\ \A v \in Users : Behind(v) /\ Agreed(v)
  BY DEF LoadIInv, LoadTypeOK, OutputIInv, WorkerAts
<1>2. main' = main /\ summary' = summary /\ lines' = lines /\ outlived' = outlived
  BY DEF Worker, Check, Request, Record, Count, mainVars
<1>3. /\ worker[u] # "ended"
      /\ \A v \in Users \ {u} : /\ worker'[v] = worker[v] /\ counted'[v] = counted[v]
                                /\ results'[v] = results[v]
  BY <1>1 DEF Worker, Check, Request, Record, Count, WorkerAts
<1>4. \A v \in Users \ {u} : Behind(v)' /\ Agreed(v)'
  BY <1>1, <1>2, <1>3 DEF Behind, Agreed, Joined, Summed, Noted, InLines
<1>5. /\ results[u] \in Seq(Results) /\ summary[u] \in Seq(Results)
      /\ Len(results[u]) \in Nat /\ counted[u] \in Nat /\ lines[u].counted \in Nat
  BY <1>1
<1>6. /\ Behind(u)' /\ Len(results'[u]) \in Nat /\ Len(results[u]) <= Len(results'[u])
      /\ IsPrefix(summary[u], results[u]) => IsPrefix(summary[u], results'[u])
  <2>1. CASE Check(u) \/ Request(u)
    <3>1. /\ results'[u] = results[u] /\ counted'[u] = counted[u]
          /\ worker'[u] # "count" /\ worker[u] # "count"
      BY <1>1, <2>1 DEF Check, Request
    <3> QED  BY <1>1, <1>5, <3>1 DEF Behind
  <2>2. CASE Record(u)
    <3>1. PICK stream \in Streams : results' = [results EXCEPT ![u] = Append(@, StreamChat(stream))]
      BY <2>2 DEF Record
    <3> DEFINE x == StreamChat(stream)
    <3>2. x \in Results
      BY DEF Results
    <3>3. results' = [results EXCEPT ![u] = Append(@, x)]
      BY <3>1
    <3> HIDE DEF x
    <3>4. results'[u] = Append(results[u], x) /\ Len(results'[u]) = Len(results[u]) + 1
      BY <1>1, <1>5, <3>2, <3>3
    <3>5. worker[u] = "request" /\ worker'[u] = "count" /\ counted'[u] = counted[u]
      BY <1>1, <2>2 DEF Record
    <3>6. counted[u] = Len(results[u])
      BY <1>1, <1>5, <3>5 DEF Behind
    <3>7. Behind(u)'
      BY <1>5, <3>4, <3>5, <3>6 DEF Behind
    <3> QED  BY <1>5, <3>2, <3>4, <3>7, PrefixOfAppend
  <2>3. CASE Count(u)
    <3>1. /\ results'[u] = results[u] /\ counted'[u] = counted[u] + 1
          /\ worker'[u] = "check" /\ worker[u] = "count"
      BY <1>1, <2>3 DEF Count
    <3>2. counted[u] = Len(results[u]) - 1
      BY <1>1, <3>1 DEF Behind
    <3>3. Behind(u)'
      BY <1>5, <3>1, <3>2 DEF Behind
    <3> QED  BY <1>5, <3>1, <3>3
  <2> QED  BY <2>1, <2>2, <2>3 DEF Worker
<1>7. Agreed(u)'
  <2>1. Joined(u) => u \in outlived
    BY <1>1, <1>3 DEF Agreed
  <2>2. (Summed(u) => Joined(u)) /\ (Noted(u) => Joined(u)) /\ (InLines(u) => Joined(u))
    BY DEF Joined, Summed, Noted, InLines
  <2>3. Joined(u)' = Joined(u) /\ Summed(u)' = Summed(u) /\ Noted(u)' = Noted(u)
        /\ InLines(u)' = InLines(u)
    BY <1>2 DEF Joined, Summed, Noted, InLines
  <2>4. /\ Summed(u) => IsPrefix(summary[u], results[u])
        /\ Noted(u) => lines[u].counted <= Len(results[u])
        /\ InLines(u) => /\ IsPrefix(summary[u], lines[u].results)
                         /\ lines[u].counted <= Len(lines[u].results)
    BY <1>1 DEF Agreed
  <2>5. Noted(u) => lines[u].counted <= Len(results'[u])
    BY <1>5, <1>6, <2>4
  <2> QED  BY <1>2, <1>6, <2>1, <2>2, <2>3, <2>4, <2>5 DEF Agreed
<1> QED  BY <1>1, <1>2, <1>4, <1>6, <1>7 DEF OutputIInv

(* Main goes on to the next user, or has come to the last one.             *)
LEMMA GoesOn ==
    ASSUME LoadIInv, NEW next \in {"summary", "counters", "done"}
    PROVE  \/ /\ Onward(next).at = main.at /\ Onward(next).user \in Users
              /\ \A u \in Users : u < Onward(next).user <=> u < main.user \/ u = main.user
           \/ /\ Onward(next).at = next /\ \A u \in Users : ~(u < Onward(next).user)
              /\ \A u \in Users : u < main.user \/ u = main.user
<1>1. main.user \in Users /\ main.user \in Nat
  BY LoadConstants DEF LoadIInv, LoadTypeOK
<1>2. \A u \in Users : u \in 0 .. NUsers - 1
  BY DEF Users
<1>3. CASE main.user + 1 < NUsers
  <2>1. /\ Onward(next) = [main EXCEPT !.user = main.user + 1]
        /\ main \in [at : {"phases", "collector", "join", "summary", "counters", "results", "done"},
                     user : Users]
    BY <1>3 DEF Onward, LoadIInv
  <2>2. Onward(next).at = main.at /\ Onward(next).user = main.user + 1
    BY <2>1
  <2> QED  BY <1>1, <1>2, <1>3, <2>2, LoadConstants DEF Users
<1>4. CASE ~(main.user + 1 < NUsers)
  <2>1. Onward(next).at = next /\ Onward(next).user = 0
    BY <1>4 DEF Onward
  <2> QED  BY <1>1, <1>2, <1>4, <2>1, LoadConstants
<1> QED  BY <1>3, <1>4

(* Main: it joins the workers before it reads, and sums up before it lists.*)
LEMMA OutputMainStep ==
    ASSUME LoadIInv, OutputIInv, Main
    PROVE  OutputIInv'
<1>1. /\ main.user \in Users /\ outlived \subseteq Users
      /\ results \in [Users -> Seq(Results)] /\ summary \in [Users -> Seq(Results)]
      /\ lines \in [Users -> [counted : Nat, results : Seq(Results)]]
      /\ counted \in [Users -> Nat]
      /\ \A u \in Users : Behind(u) /\ Agreed(u)
  BY DEF LoadIInv, LoadTypeOK, OutputIInv
<1>2. results' = results /\ worker' = worker /\ counted' = counted
  BY DEF Main, JoinPhases, StopUsers, JoinUser, SumUser, LineCounters, LineResults, userVars
<1>3. \A u \in Users : Behind(u)'
  BY <1>1, <1>2 DEF Behind
<1>4. \A u \in Users : ~(u < 0)
  BY DEF Users
<1>5. CASE JoinPhases \/ StopUsers
  <2>1. /\ main'.at \in {"collector", "join"} /\ summary' = summary /\ lines' = lines
        /\ main'.at = "join" => main'.user = 0
    <3>1. CASE JoinPhases
      BY <3>1 DEF JoinPhases, LoadIInv
    <3>2. CASE StopUsers
      BY <3>2 DEF StopUsers
    <3> QED  BY <1>5, <3>1, <3>2
  <2>2. \A u \in Users : ~Joined(u)' /\ ~Summed(u)' /\ ~Noted(u)' /\ ~InLines(u)'
    BY <1>4, <2>1 DEF Joined, Summed, Noted, InLines
  <2> QED  BY <1>1, <1>3, <2>1, <2>2 DEF OutputIInv, Agreed
<1>6. CASE JoinUser
  <2>1. /\ main.at = "join" /\ main' = Onward("summary") /\ summary' = summary /\ lines' = lines
        /\ \/ worker[main.user] = "ended" /\ outlived' = outlived
           \/ outlived' = outlived \cup {main.user}
    BY <1>6 DEF JoinUser
  <2>2. \A u \in Users : /\ ~Summed(u)' /\ ~Noted(u)' /\ ~InLines(u)'
                         /\ Joined(u)' => u < main.user \/ u = main.user
    BY <2>1, GoesOn DEF Joined, Summed, Noted, InLines
  <2>3. \A u \in Users : Joined(u)' => u \in outlived' \/ worker'[u] = "ended"
    BY <1>1, <1>2, <2>1, <2>2 DEF Agreed, Joined
  <2> QED  BY <1>1, <1>3, <2>1, <2>2, <2>3 DEF OutputIInv, Agreed
<1>7. CASE SumUser
  <2>1. /\ main.at = "summary" /\ main' = Onward("counters") /\ lines' = lines
        /\ summary' = [summary EXCEPT ![main.user] = results[main.user]] /\ outlived' = outlived
    BY <1>7 DEF SumUser
  <2>2. \A u \in Users : /\ ~Noted(u)' /\ ~InLines(u)' /\ Joined(u)
                         /\ Summed(u)' => Summed(u) \/ u = main.user
    BY <2>1, GoesOn DEF Joined, Summed, Noted, InLines
  <2>3. summary' \in [Users -> Seq(Results)]
    BY <1>1, <2>1
  <2>4. \A u \in Users : summary'[u] = IF u = main.user THEN results[u] ELSE summary[u]
    BY <1>1, <2>1
  <2>5. IsPrefix(results[main.user], results[main.user])
    <3>1. results[main.user] \in Seq(Results)
      BY <1>1
    <3> QED  BY <3>1, PrefixOfItself
  <2>6. \A u \in Users : Agreed(u)'
    BY <1>1, <1>2, <2>1, <2>2, <2>4, <2>5 DEF Agreed
  <2> QED  BY <1>1, <1>3, <2>1, <2>3, <2>6 DEF OutputIInv
<1>8. CASE LineCounters
  <2>1. /\ main.at = "counters" /\ summary' = summary /\ outlived' = outlived
        /\ lines' = [lines EXCEPT ![main.user].counted = counted[main.user]]
        /\ main' = [main EXCEPT !.at = "results"]
    BY <1>8 DEF LineCounters
  <2>2. main'.at = "results" /\ main'.user = main.user
    BY <2>1 DEF LoadIInv
  <2>3. \A u \in Users : /\ Joined(u) /\ Summed(u) /\ InLines(u)' = InLines(u)
                         /\ Noted(u)' => InLines(u) \/ u = main.user
    BY <2>1, <2>2 DEF Joined, Summed, Noted, InLines
  <2>4. ~InLines(main.user)
    <3>1. main.user \in Nat
      BY <1>1, LoadConstants DEF Users
    <3>2. ~(main.user < main.user)
      BY <3>1
    <3> QED  BY <2>1, <3>2 DEF InLines
  <2>5. lines' \in [Users -> [counted : Nat, results : Seq(Results)]]
    BY <1>1, <2>1
  <2>6. \A u \in Users : /\ u # main.user => lines'[u] = lines[u]
                         /\ lines'[main.user].counted = counted[main.user]
    BY <1>1, <2>1
  <2>7. /\ counted[main.user] <= Len(results[main.user])
        /\ main.user \in outlived \/ counted[main.user] = Len(results[main.user])
    <3>1. Len(results[main.user]) \in Nat
      BY <1>1
    <3>2. main.user \in outlived \/ worker[main.user] = "ended"
      BY <1>1, <2>3 DEF Agreed
    <3> QED  BY <1>1, <3>1, <3>2 DEF Behind
  <2>8. ASSUME NEW u \in Users PROVE Agreed(u)'
    <3>1. CASE u = main.user
      BY <1>1, <1>2, <2>1, <2>3, <2>4, <2>6, <2>7, <3>1 DEF Agreed
    <3>2. CASE u # main.user
      BY <1>1, <1>2, <2>1, <2>3, <2>6, <3>2 DEF Agreed, Noted
    <3> QED  BY <3>1, <3>2
  <2> QED  BY <1>1, <1>3, <2>1, <2>5, <2>8 DEF OutputIInv
<1>9. CASE LineResults
  <2>1. /\ main.at = "results" /\ summary' = summary /\ outlived' = outlived
        /\ lines' = [lines EXCEPT ![main.user].results = results[main.user]]
        /\ main' = [Onward("done") EXCEPT !.at = IF @ = "done" THEN @ ELSE "counters"]
    BY <1>9 DEF LineResults
  <2>2. /\ main'.at = IF Onward("done").at = "done" THEN "done" ELSE "counters"
        /\ main'.user = Onward("done").user
    <3> DEFINE M == [at : {"phases", "collector", "join", "summary", "counters", "results", "done"},
                     user : Int]
    <3>1. Onward("done") \in M
      <4>1. main \in M /\ main.user + 1 \in Int
        <5>1. Users \subseteq Int /\ main.user \in Int
          <6>1. Users \subseteq Int
            BY DEF Users
          <6> QED  BY <1>1, <6>1
        <5>2. main \in [at : {"phases", "collector", "join", "summary", "counters", "results",
                             "done"}, user : Users]
          BY DEF LoadIInv
        <5> QED  BY <5>1, <5>2
      <4>2. [main EXCEPT !.user = main.user + 1] \in M /\ [at |-> "done", user |-> 0] \in M
        BY <4>1
      <4> HIDE DEF M
      <4> QED  BY <4>2 DEF Onward
    <3> QED  BY <2>1, <3>1
  <2>3. \A u \in Users : /\ Joined(u) /\ Summed(u) /\ Noted(u)' = InLines(u)'
                         /\ InLines(u)' => InLines(u) \/ u = main.user
    <3>1. \/ /\ main'.at = "counters"
             /\ \A u \in Users : u < main'.user <=> u < main.user \/ u = main.user
          \/ main'.at = "done" /\ \A u \in Users : u < main.user \/ u = main.user
      BY <2>1, <2>2, GoesOn
    <3> QED  BY <2>1, <3>1 DEF Joined, Summed, Noted, InLines
  <2>4. Noted(main.user)
    BY <2>1 DEF Noted
  <2>5. lines' \in [Users -> [counted : Nat, results : Seq(Results)]]
    BY <1>1, <2>1
  <2>6. \A u \in Users : /\ u # main.user => lines'[u] = lines[u]
                         /\ lines'[main.user].counted = lines[main.user].counted
                         /\ lines'[main.user].results = results[main.user]
    BY <1>1, <2>1
  <2>7. ASSUME NEW u \in Users PROVE Agreed(u)'
    <3>1. CASE u = main.user
      BY <1>1, <1>2, <2>1, <2>3, <2>4, <2>6, <3>1 DEF Agreed
    <3>2. CASE u # main.user
      BY <1>1, <1>2, <2>1, <2>3, <2>6, <3>2 DEF Agreed, Noted
    <3> QED  BY <3>1, <3>2
  <2> QED  BY <1>1, <1>3, <2>1, <2>5, <2>7 DEF OutputIInv
<1> QED  BY <1>5, <1>6, <1>7, <1>8, <1>9 DEF Main

(* The invariant of the outputs holds in every state of the load test.     *)
THEOREM OutputIInvHolds == LoadSpec => []OutputIInv
<1>1. LoadInit => OutputIInv
  <2> SUFFICES ASSUME LoadInit PROVE OutputIInv
    OBVIOUS
  <2> USE DEF LoadInit
  <2>1. /\ summary \in [Users -> Seq(Results)]
        /\ lines \in [Users -> [counted : Nat, results : Seq(Results)]]
    OBVIOUS
  <2>2. ASSUME NEW u \in Users PROVE Behind(u)
    BY DEF Behind
  <2>3. ASSUME NEW u \in Users PROVE Agreed(u)
    BY DEF Agreed, Joined, Summed, Noted, InLines
  <2> QED  BY <2>1, <2>2, <2>3 DEF OutputIInv
<1>2. LoadIInv /\ OutputIInv /\ [LoadNext]_loadVars => OutputIInv'
  <2> SUFFICES ASSUME LoadIInv, OutputIInv, [LoadNext]_loadVars PROVE OutputIInv'
    OBVIOUS
  <2>1. CASE Controller \/ Collect \/ UNCHANGED loadVars
    BY <2>1, OutputUntouched
    DEF Controller, ReadPhase, SwitchUsers, FinishPhases, Collect, CollectHead, CollectRow,
        CollectorEnds, loadVars, userVars
  <2> QED  BY <2>1, OutputWorkerStep, OutputMainStep DEF LoadNext
<1> QED  BY <1>1, <1>2, LoadIInvHolds, PTL DEF LoadSpec

(* When the test is over its outputs agree, and when main has seen every   *)
(* worker end they are complete.                                           *)
THEOREM OutputsAgreeHolds == LoadSpec => []OutputsAgree
<1>1. LoadIInv /\ OutputIInv => OutputsAgree
  <2> SUFFICES ASSUME LoadIInv, OutputIInv, main.at = "done" PROVE OutputsAgree
    BY DEF OutputsAgree
  <2>1. \A u \in Users : /\ Joined(u) /\ Summed(u) /\ Noted(u) /\ InLines(u)
                         /\ Behind(u) /\ Agreed(u)
    BY DEF Joined, Summed, Noted, InLines, OutputIInv
  <2>2. /\ lines \in [Users -> [counted : Nat, results : Seq(Results)]]
        /\ results \in [Users -> Seq(Results)]
    BY DEF LoadIInv, OutputIInv
  <2>3. ASSUME NEW u \in Users
        PROVE  /\ IsPrefix(summary[u], lines[u].results)
               /\ lines[u].counted <= Len(lines[u].results)
    BY <2>1 DEF Agreed
  <2>4. ASSUME NEW u \in Users, NEW i \in DOMAIN lines[u].results, ~lines[u].results[i].error
        PROVE  /\ lines[u].results[i].ttft \in 1..lines[u].results[i].total
               /\ lines[u].results[i].tokens > 0
    <3>1. lines[u].results[i] \in Results
      BY <2>2
    <3> QED  BY <2>4, <3>1, GoodAnswer
  <2>5. ASSUME outlived = {}
        PROVE  /\ \A u \in Users :
                     /\ summary[u] = results[u]
                     /\ lines[u] = [counted |-> Len(results[u]), results |-> results[u]]
               /\ Cardinality(Answers) = sinceStart
    <3>1. \A u \in Users : /\ worker[u] = "ended" /\ summary[u] = results[u]
                           /\ lines[u].counted = Len(results[u]) /\ lines[u].results = results[u]
      BY <2>1, <2>5 DEF Agreed
    <3>2. ASSUME NEW u \in Users
          PROVE  lines[u] = [counted |-> Len(results[u]), results |-> results[u]]
      BY <2>2, <3>1
    <3>3. lockHolder = Free
      BY <3>1 DEF LoadIInv, LoadTypeOK, Counted
    <3>4. Cardinality(Answers) = sinceStart
      BY <3>3 DEF LoadIInv, LoadTypeOK, Counted
    <3> QED  BY <3>1, <3>2, <3>4
  <2> QED  BY <2>3, <2>4, <2>5 DEF OutputsAgree
<1> QED  BY <1>1, LoadIInvHolds, OutputIInvHolds, PTL

-----------------------------------------------------------------------------
(* The figures of the summary                                              *)

(* At place k of the sorted values f is t.                                 *)
AtPlace(S, f, k, t) == /\ Cardinality({a \in S : f[a] < t}) < k
                       /\ Cardinality({a \in S : f[a] <= t}) >= k

(* The numbers a finite set is mapped to have a bound: the least set of    *)
(* elements whose others have one is empty.                                *)
LEMMA AllWithin ==
    ASSUME NEW S, IsFiniteSet(S), NEW f \in [S -> Nat]
    PROVE  \E t \in Nat : \A a \in S : f[a] <= t
<1> DEFINE Bounded(U) == \E t \in Nat : \A a \in S \ U : f[a] <= t
           Sizes == {n \in Nat : \E U \in SUBSET S : Cardinality(U) = n /\ Bounded(U)}
<1>1. Cardinality(S) \in Sizes
  <2>1. Cardinality(S) \in Nat
    BY FS_CardinalityType
  <2>2. Bounded(S)
    OBVIOUS
  <2> QED  BY <2>1, <2>2
<1>2. PICK m \in Sizes : \A n \in Sizes : m <= n
  <2>1. Sizes \in SUBSET Nat /\ Sizes # {}
    BY <1>1
  <2> HIDE DEF Sizes
  <2> QED  BY <2>1, LeastNat
<1>3. PICK U \in SUBSET S : Cardinality(U) = m /\ Bounded(U)
  BY <1>2
<1>4. PICK t \in Nat : \A a \in S \ U : f[a] <= t
  BY <1>3
<1>5. ASSUME NEW x \in U  PROVE FALSE
  <2>1. IsFiniteSet(U)
    BY FS_Subset
  <2>2. Cardinality(U \ {x}) = m - 1 /\ IsFiniteSet(U \ {x})
    BY <1>3, <1>5, <2>1, FS_RemoveElement
  <2>3. m - 1 \in Nat
    BY <2>2, FS_CardinalityType
  <2>4. Bounded(U \ {x})
    <3>1. f[x] \in Nat
      BY <1>5
    <3>2. CASE f[x] <= t
      BY <1>4, <3>2
    <3>3. CASE ~(f[x] <= t)
      <4>1. \A a \in S \ (U \ {x}) : f[a] <= f[x]
        BY <1>4, <3>1, <3>3
      <4> QED  BY <3>1, <4>1
    <3> QED  BY <3>2, <3>3
  <2>5. m - 1 \in Sizes
    BY <2>2, <2>3, <2>4
  <2>6. m <= m - 1
    BY <1>2, <2>5
  <2> QED  BY <2>3, <2>6
<1> QED  BY <1>4, <1>5

(* Every place of the sorted list is taken by one of its values.           *)
LEMMA PlaceTaken ==
    ASSUME NEW S, IsFiniteSet(S), NEW f \in [S -> Nat], NEW k \in 1..Cardinality(S)
    PROVE  \E t \in {f[a] : a \in S} : AtPlace(S, f, k, t)
<1> DEFINE Below(t)  == {a \in S : f[a] < t}
           Within(t) == {a \in S : f[a] <= t}
           Enough == {t \in Nat : Cardinality(Within(t)) >= k}
<1>1. Cardinality(S) \in Nat
  BY FS_CardinalityType
<1>2. \A t : /\ IsFiniteSet(Within(t)) /\ Cardinality(Within(t)) \in Nat
             /\ IsFiniteSet(Below(t)) /\ Cardinality(Below(t)) \in Nat
  BY FS_Subset, FS_CardinalityType
<1>3. PICK m \in Enough : \A t \in Enough : m <= t
  <2>1. PICK t \in Nat : \A a \in S : f[a] <= t
    BY AllWithin
  <2>2. Within(t) = S
    BY <2>1
  <2>3. t \in Enough
    BY <1>1, <2>2
  <2>4. Enough \in SUBSET Nat /\ Enough # {}
    BY <2>3
  <2> HIDE DEF Enough
  <2> QED  BY <2>4, LeastNat
<1>4. m \in Nat /\ Cardinality(Within(m)) >= k
  OBVIOUS
<1>5. Cardinality(Below(m)) < k
  <2>1. CASE m = 0
    <3>1. Below(m) = {}
      BY <2>1
    <3> QED  BY <3>1, FS_EmptySet
  <2>2. CASE m # 0
    <3>1. m - 1 \in Nat /\ m - 1 \notin Enough
      BY <1>3, <2>2
    <3>2. ~(Cardinality(Within(m - 1)) >= k)
      BY <3>1
    <3>3. Below(m) = Within(m - 1)
      BY <1>4, <2>2
    <3> HIDE DEF Below, Within
    <3> QED  BY <1>1, <1>2, <3>2, <3>3
  <2> QED  BY <2>1, <2>2
<1>6. m \in {f[a] : a \in S}
  <2>1. ASSUME m \notin {f[a] : a \in S}  PROVE FALSE
    <3>1. Below(m) = Within(m)
      BY <1>4, <2>1
    <3> HIDE DEF Below, Within
    <3> QED  BY <1>1, <1>2, <1>4, <1>5, <3>1
  <2> QED  BY <2>1
<1> QED  BY <1>4, <1>5, <1>6 DEF AtPlace

(* The values do not fall from place to place, and those from a place      *)
(* upwards are as many as the list has from there.                         *)
LEMMA PlacesSplit ==
    ASSUME NEW S, IsFiniteSet(S), NEW f \in [S -> Nat],
           NEW j \in 1..Cardinality(S), NEW k \in 1..Cardinality(S), j <= k,
           NEW s \in Nat, AtPlace(S, f, j, s), NEW t \in Nat, AtPlace(S, f, k, t)
    PROVE  s <= t /\ Cardinality({a \in S : f[a] >= t}) >= Cardinality(S) - k + 1
<1> DEFINE Below(x)  == {a \in S : f[a] < x}
           Within(x) == {a \in S : f[a] <= x}
           Upward    == {a \in S : f[a] >= t}
<1>1. Cardinality(S) \in Nat
  BY FS_CardinalityType
<1>2. \A x : /\ IsFiniteSet(Within(x)) /\ Cardinality(Within(x)) \in Nat
             /\ IsFiniteSet(Below(x)) /\ Cardinality(Below(x)) \in Nat
  BY FS_Subset, FS_CardinalityType
<1>3. /\ Cardinality(Below(s)) < j /\ Cardinality(Below(t)) < k
      /\ Cardinality(Within(s)) >= j /\ Cardinality(Within(t)) >= k
  BY DEF AtPlace
<1>4. s <= t
  <2>1. ASSUME t < s  PROVE FALSE
    <3>1. Within(t) \in SUBSET Below(s)
      BY <2>1
    <3> HIDE DEF Below, Within
    <3>2. Cardinality(Within(t)) <= Cardinality(Below(s))
      BY <1>2, <3>1, FS_Subset
    <3> QED  BY <1>1, <1>2, <1>3, <3>2
  <2> QED  BY <2>1
<1>5. Upward = S \ Below(t) /\ S \cap Below(t) = Below(t)
  OBVIOUS
<1> HIDE DEF Below, Within, Upward
<1>6. Cardinality(Upward) = Cardinality(S) - Cardinality(Below(t))
  BY <1>5, FS_Difference
<1>7. Cardinality(Upward) >= Cardinality(S) - k + 1
  BY <1>1, <1>2, <1>3, <1>6
<1> QED  BY <1>4, <1>7 DEF Upward

(* A list of n numbers that does not fall; the place a percentile has in   *)
(* one of n: f ranks and r hundredths of the next.                         *)
Ascending(L, n) == /\ n \in Nat \ {0} /\ L \in Seq(Nat) /\ Len(L) = n
                   /\ \A j, k \in 1..n : j <= k => L[j] <= L[k]
LiesAt(n, p, f, r) == /\ p \in 0..100 /\ f \in Nat /\ r \in 0..99
                      /\ (n - 1) * p = 100 * f + r

LEMMA AscendingItems ==
    ASSUME NEW n, NEW L, Ascending(L, n), NEW j \in 1..n, NEW k \in 1..n, j <= k
    PROVE  n \in Nat /\ L[j] \in Nat /\ L[k] \in Nat /\ L[j] <= L[k]
BY DEF Ascending

(* A weighted mean of two numbers lies between them.                       *)
LEMMA MeanBetween ==
    ASSUME NEW r \in 0..100, NEW a \in Nat, NEW b \in Nat, a <= b
    PROVE  /\ (100 - r) * a + r * b \in Nat
           /\ 100 * a <= (100 - r) * a + r * b /\ (100 - r) * a + r * b <= 100 * b
<1> DEFINE d == b - a
           q == 100 - r
<1>1. d \in Nat /\ q \in Nat /\ b = a + d /\ r = 100 - q /\ r \in Nat
  OBVIOUS
<1>2. r * d \in Nat /\ q * d \in Nat
  BY <1>1
<1>3. q * a + r * (a + d) = 100 * a + r * d
  BY <1>1
<1>4. q * a + r * (a + d) = 100 * (a + d) - q * d
  BY <1>1
<1>5. (100 - r) * a + r * b = 100 * a + r * d /\ (100 - r) * a + r * b = 100 * b - q * d
  BY <1>1, <1>3, <1>4
<1> HIDE DEF d, q
<1> QED  BY <1>2, <1>5

(* A percentile lies between the ranks next to it.                         *)
LEMMA PercentileBetween ==
    ASSUME NEW n, NEW L, Ascending(L, n), NEW p, NEW f, NEW r, LiesAt(n, p, f, r)
    PROVE  /\ f + 1 \in 1..n /\ (r # 0 => f + 2 \in 1..n)
           /\ Percentile(L, p) = IF r = 0 THEN 100 * L[f + 1]
                                 ELSE (100 - r) * L[f + 1] + r * L[f + 2]
           /\ Percentile(L, p) \in Nat /\ 100 * L[f + 1] <= Percentile(L, p)
           /\ Percentile(L, p) <= 100 * L[IF r = 0 THEN f + 1 ELSE f + 2]
<1> USE DEF LiesAt, Ascending
<1>1. (n - 1) * p <= 100 * (n - 1)
  <2>1. (n - 1) * (100 - p) \in Nat
    OBVIOUS
  <2>2. (n - 1) * (100 - p) = 100 * (n - 1) - (n - 1) * p
    OBVIOUS
  <2> QED  BY <2>1, <2>2
<1>2. 100 * f + r <= 100 * (n - 1)
  BY <1>1
<1>3. f + 1 \in 1..n /\ (r # 0 => f + 2 \in 1..n)
  BY <1>2
<1>4. ((n - 1) * p) \div 100 = f /\ ((n - 1) * p) % 100 = r
  <2>1. (100 * f + r) \div 100 = f /\ (100 * f + r) % 100 = r
    OBVIOUS
  <2> QED  BY <2>1
<1>5. Percentile(L, p) = IF r = 0 THEN 100 * L[f + 1]
                         ELSE (100 - r) * L[f + 1] + r * L[f + 2]
  BY <1>4 DEF Percentile
<1>6. L[f + 1] \in Nat
  BY <1>3
<1>7. CASE r = 0
  BY <1>3, <1>5, <1>6, <1>7
<1>8. CASE r # 0
  <2>1. L[f + 2] \in Nat /\ L[f + 1] <= L[f + 2]
    BY <1>3, <1>8
  <2>2. Percentile(L, p) = (100 - r) * L[f + 1] + r * L[f + 2]
    BY <1>5, <1>8
  <2> DEFINE a == L[f + 1]
             b == L[f + 2]
  <2> HIDE DEF a, b
  <2>3. /\ (100 - r) * a + r * b \in Nat
        /\ 100 * a <= (100 - r) * a + r * b /\ (100 - r) * a + r * b <= 100 * b
    <3>1. a \in Nat /\ b \in Nat /\ a <= b /\ r \in 0..100
      BY <1>6, <2>1 DEF a, b
    <3> QED  BY <3>1, MeanBetween
  <2>4. Percentile(L, p) \in Nat /\ 100 * a <= Percentile(L, p) /\ Percentile(L, p) <= 100 * b
    BY <2>2, <2>3 DEF a, b
  <2> QED  BY <1>3, <1>5, <1>8, <2>4 DEF a, b
<1> QED  BY <1>7, <1>8

(* The two percentiles of a list that does not fall, by the places they    *)
(* lie between.                                                            *)
LEMMA TwoPercentiles ==
    ASSUME NEW n, NEW L, Ascending(L, n)
    PROVE  LET p50 == Percentile(L, 50)
               p95 == Percentile(L, 95)
           IN /\ p50 \in Nat /\ p95 \in Nat /\ p50 <= p95 /\ p95 <= 100 * L[n]
              /\ \E lo, hi \in 1..n : /\ 2 * lo >= n /\ 2 * (n - hi + 1) >= n
                                      /\ 100 * L[lo] <= p50 /\ p50 <= 100 * L[hi]
<1> DEFINE p50 == Percentile(L, 50)
           p95 == Percentile(L, 95)
           f95 == ((n - 1) * 95) \div 100
           r95 == ((n - 1) * 95) % 100
<1> n \in Nat \ {0}
  BY DEF Ascending
<1>1. LiesAt(n, 95, f95, r95)
  BY DEF LiesAt
<1> HIDE DEF f95, r95
<1>2. /\ f95 + 1 \in 1..n /\ p95 \in Nat /\ 100 * L[f95 + 1] <= p95
      /\ p95 <= 100 * L[IF r95 = 0 THEN f95 + 1 ELSE f95 + 2]
      /\ r95 # 0 => f95 + 2 \in 1..n
  BY <1>1, PercentileBetween
<1>3. p95 <= 100 * L[n]
  <2>1. (IF r95 = 0 THEN f95 + 1 ELSE f95 + 2) \in 1..n
    BY <1>2
  <2> DEFINE top == IF r95 = 0 THEN f95 + 1 ELSE f95 + 2
  <2>2. top \in 1..n /\ p95 <= 100 * L[top]
    BY <1>2, <2>1
  <2> HIDE DEF top, p95
  <2>3. L[top] \in Nat /\ L[n] \in Nat /\ L[top] <= L[n]
    <3>1. n \in 1..n /\ top <= n
      BY <2>2
    <3> QED  BY <2>2, <3>1, AscendingItems
  <2> QED  BY <1>2, <2>2, <2>3
<1>4. PICK h \in Nat : n = 2 * h + 1 \/ n = 2 * h + 2
  <2>1. n = 2 * ((n - 1) \div 2) + 1 \/ n = 2 * ((n - 1) \div 2) + 2
    OBVIOUS
  <2>2. (n - 1) \div 2 \in Nat
    OBVIOUS
  <2> QED  BY <2>1, <2>2
<1> DEFINE hi == IF n = 2 * h + 1 THEN h + 1 ELSE h + 2
<1>5. /\ h + 1 \in 1..n /\ hi \in 1..n /\ p50 \in Nat
      /\ 100 * L[h + 1] <= p50 /\ p50 <= 100 * L[hi]
  <2>1. CASE n = 2 * h + 1
    <3>1. LiesAt(n, 50, h, 0)
      BY <2>1 DEF LiesAt
    <3>2. /\ h + 1 \in 1..n /\ p50 \in Nat /\ 100 * L[h + 1] <= p50
          /\ p50 <= 100 * L[IF 0 = 0 THEN h + 1 ELSE h + 2]
      BY <3>1, PercentileBetween
    <3> QED  BY <2>1, <3>2
  <2>2. CASE n = 2 * h + 2
    <3>1. LiesAt(n, 50, h, 50)
      BY <2>2 DEF LiesAt
    <3>2. /\ h + 1 \in 1..n /\ h + 2 \in 1..n /\ p50 \in Nat /\ 100 * L[h + 1] <= p50
          /\ p50 <= 100 * L[IF 50 = 0 THEN h + 1 ELSE h + 2]
      BY <3>1, PercentileBetween
    <3> QED  BY <2>2, <3>2
  <2> QED  BY <1>4, <2>1, <2>2
<1>6. 2 * (h + 1) >= n /\ 2 * (n - hi + 1) >= n
  BY <1>4
<1>7. p50 <= p95
  <2>1. CASE hi <= f95 + 1
    <3>1. L[hi] \in Nat /\ L[f95 + 1] \in Nat /\ L[hi] <= L[f95 + 1]
      BY <1>2, <1>5, <2>1, AscendingItems
    <3> HIDE DEF p50, p95, hi
    <3> QED  BY <1>2, <1>5, <3>1
  <2>2. CASE ~(hi <= f95 + 1)
    <3>1. n = 2
      BY <1>1, <1>4, <2>2 DEF LiesAt
    <3>2. LiesAt(n, 50, 0, 50) /\ LiesAt(n, 95, 0, 95)
      BY <3>1 DEF LiesAt
    <3>3. p50 = (100 - 50) * L[0 + 1] + 50 * L[0 + 2]
      BY <3>2, PercentileBetween
    <3>4. p95 = (100 - 95) * L[0 + 1] + 95 * L[0 + 2]
      BY <3>2, PercentileBetween
    <3>5. L[1] \in Nat /\ L[2] \in Nat /\ L[1] <= L[2]
      <4>1. 1 \in 1..n /\ 2 \in 1..n /\ 1 <= 2
        BY <3>1
      <4> QED  BY <4>1, AscendingItems
    <3> HIDE DEF p50, p95
    <3> QED  BY <3>3, <3>4, <3>5
  <2> QED  BY <2>1, <2>2
<1> HIDE DEF p50, p95, hi
<1> QED  BY <1>2, <1>3, <1>5, <1>6, <1>7 DEF p50, p95

(* The answered requests of lists are finitely many.                       *)
LEMMA AnsweredFinite ==
    ASSUME NEW res \in [Users -> Seq(Results)]
    PROVE  IsFiniteSet(Answered(res))
<1> DEFINE entries == [u \in Users |-> {u} \X DOMAIN res[u]]
           parts == {{u} \X DOMAIN res[u] : u \in Users}
<1>1. IsFiniteSet(Users)
  <2>1. 0 \in Int /\ NUsers - 1 \in Int
    BY LoadTestAssumption
  <2> QED  BY <2>1, FS_Interval DEF Users
<1>2. entries \in Surjection(Users, parts)
  BY DEF Surjection
<1>3. IsFiniteSet(parts)
  BY <1>1, <1>2, FS_Surjection
<1>4. ASSUME NEW u \in Users  PROVE IsFiniteSet({u} \X DOMAIN res[u])
  <2> DEFINE one == 1
             n == Len(res[u])
  <2>1. DOMAIN res[u] = one..n /\ n \in Int
    OBVIOUS
  <2>2. one \in Int
    OBVIOUS
  <2> HIDE DEF one, n
  <2>3. IsFiniteSet(DOMAIN res[u])
    BY <2>1, <2>2, FS_Interval
  <2>4. IsFiniteSet({u})
    BY FS_Singleton
  <2> QED  BY <2>3, <2>4, FS_Product
<1>5. \A part \in parts : IsFiniteSet(part)
  BY <1>4
<1> HIDE DEF parts
<1>6. IsFiniteSet(UNION parts)
  BY <1>3, <1>5, FS_UNION
<1>7. Answered(res) \in SUBSET (UNION parts)
  BY DEF Answered, parts
<1> QED  BY <1>6, <1>7, FS_Subset

(* The list that Latencies makes of the requests has their times in order. *)
LEMMA LatenciesAre ==
    ASSUME NEW res \in [Users -> Seq(Results)], Answered(res) # {}
    PROVE  LET ok == Answered(res)
               n  == Cardinality(ok)
               f  == [a \in ok |-> Total(res, a)]
           IN /\ n \in Nat \ {0} /\ f \in [ok -> Nat] /\ Ascending(Latencies(res), n)
              /\ \A k \in 1..n : /\ AtPlace(ok, f, k, Latencies(res)[k])
                                 /\ \E a \in ok : f[a] = Latencies(res)[k]
<1> DEFINE ok == Answered(res)
           n  == Cardinality(ok)
           f  == [a \in ok |-> Total(res, a)]
           L  == Latencies(res)
<1>1. IsFiniteSet(ok) /\ n \in Nat \ {0}
  <2>1. IsFiniteSet(ok)
    BY AnsweredFinite
  <2> QED  BY <2>1, FS_CardinalityType, FS_EmptySet
<1>2. ASSUME NEW a \in ok  PROVE Total(res, a) \in Nat
  <2>1. PICK u \in Users : \E i \in DOMAIN res[u] : a = <<u, i>> /\ ~res[u][i].error
    BY DEF Answered
  <2> PICK i \in DOMAIN res[u] : a = <<u, i>> /\ ~res[u][i].error
    BY <2>1
  <2>2. res[u] \in Seq(Results)
    OBVIOUS
  <2> DEFINE x == res[u][i]
  <2>3. x \in Results /\ ~x.error /\ Total(res, a) = x.total
    BY <2>2 DEF Total
  <2> HIDE DEF x
  <2>4. PICK s \in Streams : x = StreamChat(s)
    BY <2>3 DEF Results
  <2>5. x.total = Len(s.frames)
    BY <2>3, <2>4 DEF StreamChat
  <2>6. Len(s.frames) \in Nat
    BY LoadTestAssumption
  <2> QED  BY <2>3, <2>5, <2>6
<1>3. f \in [ok -> Nat]
  BY <1>2
<1> DEFINE times == {Total(res, a) : a \in ok}
           place(k, t) == /\ Cardinality({a \in ok : Total(res, a) < t}) < k
                          /\ Cardinality({a \in ok : Total(res, a) <= t}) >= k
<1>4. L = [k \in 1..n |-> CHOOSE t \in times : place(k, t)]
  BY DEF Latencies
<1>5. times = {f[a] : a \in ok}
  OBVIOUS
<1>6. \A k, t : place(k, t) <=> AtPlace(ok, f, k, t)
  <2> TAKE k, t
  <2>1. /\ {a \in ok : Total(res, a) < t} = {a \in ok : f[a] < t}
        /\ {a \in ok : Total(res, a) <= t} = {a \in ok : f[a] <= t}
    OBVIOUS
  <2> HIDE DEF f, ok
  <2> QED  BY <2>1 DEF AtPlace
<1> HIDE DEF ok, n, f, L, times, place
<1>7. ASSUME NEW k \in 1..n  PROVE L[k] \in times /\ L[k] \in Nat /\ AtPlace(ok, f, k, L[k])
  <2>1. \E t \in times : place(k, t)
    BY <1>1, <1>3, <1>5, <1>6, PlaceTaken DEF n
  <2>2. L[k] = CHOOSE t \in times : place(k, t)
    BY <1>4
  <2>3. L[k] \in times /\ place(k, L[k])
    BY <2>1, <2>2
  <2>4. times \in SUBSET Nat
    BY <1>3, <1>5
  <2> QED  BY <1>6, <2>3, <2>4
<1>8. L \in Seq(Nat) /\ Len(L) = n
  <2>1. L \in [1..n -> Nat]
    BY <1>4, <1>7
  <2> QED  BY <1>1, <2>1
<1>9. ASSUME NEW j \in 1..n, NEW k \in 1..n, j <= k  PROVE L[j] <= L[k]
  <2>1. /\ L[j] \in Nat /\ AtPlace(ok, f, j, L[j])
        /\ L[k] \in Nat /\ AtPlace(ok, f, k, L[k])
    BY <1>7
  <2> QED  BY <1>1, <1>3, <1>9, <2>1, PlacesSplit DEF n
<1>10. Ascending(L, n)
  BY <1>1, <1>8, <1>9 DEF Ascending
<1>11. \A k \in 1..n : AtPlace(ok, f, k, L[k]) /\ \E a \in ok : f[a] = L[k]
  <2> TAKE k \in 1..n
  <2>1. L[k] \in times /\ AtPlace(ok, f, k, L[k])
    BY <1>7
  <2> QED  BY <1>5, <2>1
<1> QED  BY <1>1, <1>3, <1>10, <1>11 DEF ok, n, f, L

(* The figures of summary.json, for any number of requests of any length:  *)
(* the median has half of the answered ones on either side, and the 95th   *)
(* percentile is neither below it nor above the slowest.                   *)
THEOREM FiguresSplitRequestsHolds == LoadSpec => []FiguresSplitRequests
<1>1. ASSUME OutputIInv  PROVE FiguresSplitRequests
  <2> DEFINE ok == Answered(summary)
             n  == Cardinality(ok)
             f  == [a \in ok |-> Total(summary, a)]
             L  == Latencies(summary)
             p50 == Percentile(L, 50)
             p95 == Percentile(L, 95)
  <2>1. summary \in [Users -> Seq(Results)] /\ IsFiniteSet(ok)
    BY <1>1, AnsweredFinite DEF OutputIInv
  <2> SUFFICES ASSUME ok # {}
               PROVE  /\ 2 * Cardinality({a \in ok : 100 * Total(summary, a) <= p50}) >= n
                      /\ 2 * Cardinality({a \in ok : 100 * Total(summary, a) >= p50}) >= n
                      /\ p50 <= p95 /\ \E a \in ok : p95 <= 100 * Total(summary, a)
    BY <2>1, FS_EmptySet DEF FiguresSplitRequests
  <2>2. /\ n \in Nat \ {0} /\ f \in [ok -> Nat] /\ Ascending(L, n)
        /\ \A k \in 1..n : AtPlace(ok, f, k, L[k]) /\ \E a \in ok : f[a] = L[k]
    BY <2>1, LatenciesAre
  <2>3. \A a \in ok : f[a] = Total(summary, a) /\ f[a] \in Nat
    BY <2>2
  <2>4. /\ {a \in ok : 100 * Total(summary, a) <= p50} = {a \in ok : 100 * f[a] <= p50}
        /\ {a \in ok : 100 * Total(summary, a) >= p50} = {a \in ok : 100 * f[a] >= p50}
    OBVIOUS
  <2> HIDE DEF ok, n, f, L, p50, p95
  <2>5. p50 \in Nat /\ p95 \in Nat /\ p50 <= p95 /\ p95 <= 100 * L[n]
    BY <2>2, TwoPercentiles DEF p50, p95
  <2>6. PICK lo \in 1..n, hi \in 1..n :
               /\ 2 * lo >= n /\ 2 * (n - hi + 1) >= n
               /\ 100 * L[lo] <= p50 /\ p50 <= 100 * L[hi]
    BY <2>2, TwoPercentiles DEF p50
  <2>7. /\ AtPlace(ok, f, lo, L[lo]) /\ AtPlace(ok, f, hi, L[hi])
        /\ L[lo] \in Nat /\ L[hi] \in Nat
    BY <2>2, AscendingItems
  <2>8. 2 * Cardinality({a \in ok : 100 * f[a] <= p50}) >= n
    <3> DEFINE within == {a \in ok : f[a] <= L[lo]}
               half   == {a \in ok : 100 * f[a] <= p50}
    <3>1. Cardinality(within) >= lo
      BY <2>7 DEF AtPlace
    <3>2. within \in SUBSET half /\ within \in SUBSET ok /\ half \in SUBSET ok
      BY <2>2, <2>5, <2>6, <2>7
    <3> HIDE DEF within, half
    <3>3. /\ Cardinality(within) <= Cardinality(half)
          /\ Cardinality(within) \in Nat /\ Cardinality(half) \in Nat
      BY <2>1, <3>2, FS_Subset, FS_CardinalityType
    <3>4. 2 * Cardinality(half) >= n
      BY <2>2, <2>6, <3>1, <3>3
    <3> QED  BY <3>4 DEF half
  <2>9. 2 * Cardinality({a \in ok : 100 * f[a] >= p50}) >= n
    <3> DEFINE upward == {a \in ok : f[a] >= L[hi]}
               half   == {a \in ok : 100 * f[a] >= p50}
    <3>1. Cardinality(upward) >= n - hi + 1
      <4>1. hi \in 1..Cardinality(ok) /\ hi <= hi
        BY <2>2, <2>6 DEF n
      <4>2. Cardinality({a \in ok : f[a] >= L[hi]}) >= Cardinality(ok) - hi + 1
        BY <2>1, <2>2, <2>7, <4>1, PlacesSplit
      <4> QED  BY <4>2 DEF n
    <3>2. upward \in SUBSET half /\ upward \in SUBSET ok /\ half \in SUBSET ok
      BY <2>2, <2>5, <2>6, <2>7
    <3> HIDE DEF upward, half
    <3>3. /\ Cardinality(upward) <= Cardinality(half)
          /\ Cardinality(upward) \in Nat /\ Cardinality(half) \in Nat
      BY <2>1, <3>2, FS_Subset, FS_CardinalityType
    <3>4. 2 * Cardinality(half) >= n
      BY <2>2, <2>6, <3>1, <3>3
    <3> QED  BY <3>4 DEF half
  <2>10. \E a \in ok : p95 <= 100 * Total(summary, a)
    <3>1. n \in 1..n
      BY <2>2
    <3>2. PICK a \in ok : f[a] = L[n]
      BY <2>2, <3>1
    <3> QED  BY <2>3, <2>5, <3>2
  <2> QED  BY <2>4, <2>5, <2>8, <2>9, <2>10
<1> QED  BY <1>1, OutputIInvHolds, PTL
=============================================================================
