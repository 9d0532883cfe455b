------------------------------ MODULE LogsProofs ------------------------------
(***************************************************************************)
(* Proofs about LogReport and LogExport for any lines, limits and number   *)
(* of failures.                                                            *)
(***************************************************************************)
EXTENDS LogReport, LogExport, FiniteSetTheorems, SequenceTheorems, WellFoundedInduction, TLAPS

USE LogReportAssumption

(* The row of the report, column by column.                                *)
RowShape ==
    report \in [status : {"none", "pending", "running", "succeeded", "failed"},
                max : MaxLines \cup {0}, job : BOOLEAN, facts : {report.facts},
                text : {"none", "llm", "local"}, error : {"none", "llm", "raised"}]

(* The job runs while the pipeline does; the row is finished before it.    *)
Where ==
    /\ pipe = "none" <=> request \in {"idle", "submit"} \/ (request = "over" /\ rjob = "none")
    /\ request = "idle" => report.status = "none"
    /\ pipe = "none" => rjob = "none" /\ report.status \in {"none", "pending"}
    /\ pipe \notin {"none", "over"} => rjob = "running"
    /\ pipe # "none" => rjob # "none"
    /\ request = "submit" \/ pipe \in {"open", "query"} => report.max \in MaxLines
    /\ request = "submit" \/ pipe = "open" => report.status = "pending"
    /\ request \in {"idle", "submit"} \/ pipe = "open" => report.text = "none"
    /\ pipe \in {"query", "words", "save"} => report.status = "running"
    /\ pipe = "failing" => report.status \in {"running", "succeeded"}
    /\ pipe = "saved" => report.status = "succeeded"
    /\ pipe = "failed" => report.status = "failed"

(* What facts f leave out can be told from them.                           *)
Told(f) ==
    /\ f.truncated \/ f.refused \/ asked \subseteq f.lines
    /\ \A l \in f.lines, m \in asked \ f.lines : l.at >= m.at
    /\ \A l \in f.lines : l.signs # {} => \E k \in Lists : l \in Hits(f.lines)[k]
    /\ Ranked(f.totals, f.lines, MaxTotals)
    /\ \A k \in Lists : Ranked(f.severity[k], Hits(f.lines)[k], MaxContainers)

(* The facts are right from the query on, and the row has the same.        *)
Drawn ==
    /\ pipe \in {"words", "save"} => Told(facts)
    /\ report.status = "succeeded" => Told(report.facts)

(* What job and row say of each other, and the row of its text.            *)
ReportTellsTruth ==
    /\ rjob \in {"succeeded", "failed"} => report.status = rjob
    /\ report.status = "succeeded" =>
         \/ report.text = "llm" /\ report.error = "none"
         \/ report.text = "local" /\ report.error = "llm"

ReportIInv == ReportTypeOK /\ RowShape /\ Where /\ Drawn /\ ReportTellsTruth

-----------------------------------------------------------------------------
(* Containers are put in a strict order by their lines in S.               *)
LEMMA BeforeOrders ==
    ASSUME NEW S \in SUBSET LogLines, NEW C, C = ContainersOf(S)
    PROVE  /\ IsFiniteSet(S) /\ IsFiniteSet(C) /\ C \subseteq Nat
           /\ \A c \in C : Cardinality(Of(S, c)) \in Nat /\ ~Before(S, c, c)
           /\ \A c, d \in C : c # d => Before(S, c, d) \/ Before(S, d, c)
           /\ \A c, d, e \in C : Before(S, c, d) /\ Before(S, d, e) => Before(S, c, e)
<1>1. IsFiniteSet(S) /\ C \subseteq Nat
  <2>1. IsFiniteSet(S)
    BY FS_Subset
  <2> QED BY <2>1 DEF ContainersOf
<1>2. IsFiniteSet(C)
  <2> DEFINE g == [l \in S |-> l.container]
  <2>1. g \in Surjection(S, C)
    BY DEF Surjection, ContainersOf
  <2> QED BY <1>1, <2>1, FS_Surjection
<1>3. \A c \in C : Cardinality(Of(S, c)) \in Nat
  <2> TAKE c \in C
  <2>1. IsFiniteSet(Of(S, c))
    BY <1>1, FS_Subset DEF Of
  <2> QED BY <2>1, FS_CardinalityType
<1>4. \A c, d \in C : c \in Nat /\ d \in Nat
  BY <1>1
<1> QED BY <1>1, <1>2, <1>3, <1>4 DEF Before

(* How many containers come before c.                                      *)
Rank(S, c) == Cardinality({d \in ContainersOf(S) : Before(S, d, c)})

(* Ranks are those of a line of people: smaller the earlier one stands,    *)
(* and less than the number of containers.                                 *)
LEMMA RankClimbs ==
    ASSUME NEW S \in SUBSET LogLines, NEW c \in ContainersOf(S)
    PROVE  /\ Rank(S, c) \in 0..(Cardinality(ContainersOf(S)) - 1)
           /\ \A d \in ContainersOf(S) : Before(S, d, c) => Rank(S, d) < Rank(S, c)
<1> DEFINE C == ContainersOf(S)
           R(x) == {d \in C : Before(S, d, x)}
<1>1. /\ IsFiniteSet(C)
      /\ \A x \in C : ~Before(S, x, x)
      /\ \A x, y, z \in C : Before(S, x, y) /\ Before(S, y, z) => Before(S, x, z)
  BY BeforeOrders
<1>2. \A x \in C : IsFiniteSet(R(x)) /\ Cardinality(R(x)) \in Nat
  <2> TAKE x \in C
  <2>1. IsFiniteSet(R(x))
    BY <1>1, FS_Subset
  <2> QED BY <2>1, FS_CardinalityType
<1>3. ASSUME NEW x \in C, NEW T \in SUBSET C, R(x) \subseteq T, x \in T
      PROVE  Cardinality(R(x)) < Cardinality(T) /\ Cardinality(T) \in Nat
  <2>1. x \notin R(x)
    BY <1>1
  <2>2. Cardinality(R(x) \cup {x}) = Cardinality(R(x)) + 1
    BY <1>2, <2>1, FS_AddElement
  <2>3. IsFiniteSet(T) /\ Cardinality(T) \in Nat
    BY <1>1, <1>3, FS_Subset, FS_CardinalityType
  <2>4. R(x) \cup {x} \in SUBSET T
    BY <1>3
  <2>5. Cardinality(R(x) \cup {x}) <= Cardinality(T)
    BY <2>3, <2>4, FS_Subset
  <2> QED BY <1>2, <2>2, <2>3, <2>5
<1>4. Cardinality(R(c)) < Cardinality(C) /\ Cardinality(C) \in Nat
  BY <1>3
<1>5. ASSUME NEW d \in C, Before(S, d, c) PROVE Cardinality(R(d)) < Cardinality(R(c))
  <2>1. R(d) \subseteq R(c) /\ d \in R(c) /\ R(c) \in SUBSET C
    BY <1>1, <1>5
  <2> QED BY <1>3, <2>1
<1>6. \A x \in C : Rank(S, x) = Cardinality(R(x))
  BY DEF Rank
<1> HIDE DEF R
<1>7. Rank(S, c) \in 0..(Cardinality(C) - 1)
  BY <1>2, <1>4, <1>6
<1>8. \A d \in C : Before(S, d, c) => Rank(S, d) < Rank(S, c)
  BY <1>5, <1>6
<1> QED BY <1>7, <1>8

(* So each of the places is taken, and the first n containers are n.       *)
LEMMA FirstContainers ==
    ASSUME NEW S \in SUBSET LogLines, NEW n \in Nat, n <= Cardinality(ContainersOf(S))
    PROVE  Cardinality({c \in ContainersOf(S) : Rank(S, c) < n}) = n
<1> DEFINE C == ContainersOf(S)
           m == Cardinality(C)
           K == {c \in C : Rank(S, c) < n}
           f == [c \in C |-> Rank(S, c)]
           g == [c \in K |-> Rank(S, c)]
<1>1. IsFiniteSet(C) /\ m \in Nat
  BY BeforeOrders, FS_CardinalityType
<1>2. \A c, d \in C : c # d => Rank(S, c) # Rank(S, d)
  <2> SUFFICES ASSUME NEW c \in C, NEW d \in C, c # d PROVE Rank(S, c) # Rank(S, d)
    OBVIOUS
  <2>1. Rank(S, c) \in Nat /\ Rank(S, d) \in Nat
    BY <1>1, RankClimbs
  <2>2. Before(S, c, d) \/ Before(S, d, c)
    BY BeforeOrders
  <2>3. Rank(S, c) < Rank(S, d) \/ Rank(S, d) < Rank(S, c)
    BY <2>2, RankClimbs
  <2> QED BY <2>1, <2>3
<1>3. f \in [C -> 0..(m - 1)]
  BY RankClimbs
<1>4. f \in Injection(C, 0..(m - 1))
  BY <1>2, <1>3 DEF Injection, IsInjective
<1>5. \A x \in Nat : IsFiniteSet(0..(x - 1)) /\ Cardinality(0..(x - 1)) = x
  <2> TAKE x \in Nat
  <2>1. 0 \in Int /\ x - 1 \in Int
    OBVIOUS
  <2>2. IsFiniteSet(0..(x - 1))
        /\ Cardinality(0..(x - 1)) = IF 0 > x - 1 THEN 0 ELSE (x - 1) - 0 + 1
    BY <2>1, FS_Interval
  <2>3. (IF 0 > x - 1 THEN 0 ELSE (x - 1) - 0 + 1) = x
    OBVIOUS
  <2> QED BY <2>2, <2>3
<1>6. f \in Surjection(C, 0..(m - 1))
  BY <1>1, <1>4, <1>5, FS_Injection
<1>7. \A i \in 0..(m - 1) : \E c \in C : Rank(S, c) = i
  BY <1>6 DEF Surjection
<1>8. g \in [K -> 0..(n - 1)] /\ \A c \in K : c \in C
  BY <1>1, RankClimbs
<1>9. g \in Surjection(K, 0..(n - 1))
  <2>1. \A i \in 0..(n - 1) : \E c \in K : g[c] = i
    BY <1>1, <1>7
  <2> QED BY <1>8, <2>1 DEF Surjection
<1>10. g \in Injection(K, 0..(n - 1))
  BY <1>2, <1>8 DEF Injection, IsInjective
<1> QED BY <1>5, <1>9, <1>10, FS_Injection

(* A list that is cut keeps whole containers, as many as fit, and those    *)
(* with the most lines.                                                    *)
LEMMA TopRanked ==
    ASSUME NEW S \in SUBSET LogLines, NEW n \in Nat
    PROVE  Ranked(Top(S, n), S, n)
<1> DEFINE C    == ContainersOf(S)
           kept == Top(S, n)
<1>1. \A l \in S : l.container \in C
  BY DEF ContainersOf
<1>2. kept \subseteq S /\ \A l \in S : l \in kept <=> Rank(S, l.container) < n
  BY DEF Top, Rank
<1>3. \A c \in C : Rank(S, c) \in 0..(Cardinality(C) - 1)
  BY RankClimbs
<1>4. Cardinality(C) \in Nat
  BY BeforeOrders, FS_CardinalityType
<1> HIDE DEF kept
<1>5. \A l \in kept : Of(S, l.container) \subseteq kept
  BY <1>2 DEF Of
<1>6. ContainersOf(kept) = {c \in C : Rank(S, c) < n}
  BY <1>2 DEF ContainersOf
<1>7. ASSUME kept # S PROVE Cardinality(ContainersOf(kept)) = n
  <2>1. PICK l \in S : ~(Rank(S, l.container) < n)
    BY <1>2, <1>7
  <2>2. n <= Cardinality(C)
    BY <1>1, <1>3, <1>4, <2>1
  <2> QED BY <1>6, <2>2, FirstContainers
<1>8. ASSUME NEW l \in kept, NEW m \in S \ kept
      PROVE  Cardinality(Of(S, l.container)) >= Cardinality(Of(S, m.container))
  <2>1. l.container \in C /\ m.container \in C
    BY <1>1, <1>2
  <2>2. Rank(S, l.container) < n /\ ~(Rank(S, m.container) < n)
    BY <1>2
  <2>3. ~(Rank(S, m.container) < Rank(S, l.container))
    BY <1>3, <1>4, <2>1, <2>2
  <2>4. ~Before(S, m.container, l.container)
    BY <2>1, <2>3, RankClimbs
  <2>5. /\ Cardinality(Of(S, l.container)) \in Nat
        /\ Cardinality(Of(S, m.container)) \in Nat
    BY <2>1, BeforeOrders
  <2> QED BY <2>4, <2>5 DEF Before
<1>9. Ranked(kept, S, n)
  BY <1>2, <1>5, <1>7, <1>8 DEF Ranked
<1> QED BY <1>9 DEF kept

(* Facts drawn from a page of what Loki has now tell what they leave out.  *)
LEMMA QueryTells ==
    ASSUME asked \subseteq logs, logs \subseteq LogLines, server \in ServerLimits,
           NEW max \in MaxLines, NEW p \in Pages(Limit(max)),
           NEW f, f = Facts(p, max, max > server)
    PROVE  Told(f)
<1> USE DEF Facts
<1>1. /\ p \subseteq logs /\ IsFiniteSet(p) /\ Cardinality(p) \in Nat
      /\ p # logs => Cardinality(p) = Limit(max)
      /\ \A l \in p, m \in logs \ p : l.at >= m.at
  <2>1. p \subseteq logs /\ (p # logs => Cardinality(p) = Limit(max))
        /\ \A l \in p, m \in logs \ p : l.at >= m.at
    BY DEF Pages
  <2>2. IsFiniteSet(p)
    BY <2>1, FS_Subset
  <2> QED BY <2>1, <2>2, FS_CardinalityType
<1>2. f.lines = p /\ f.truncated = Cut(p, max) /\ f.refused = (max > server)
  OBVIOUS
<1>3. max \in Nat /\ server \in Nat
  OBVIOUS
<1>4. f.truncated \/ f.refused \/ asked \subseteq f.lines
  <2>1. CASE max > server
    BY <1>2, <2>1
  <2>2. CASE p = logs
    BY <1>2, <2>2
  <2>3. CASE ~(max > server) /\ p # logs
    <3>1. Cardinality(p) = max
      BY <1>1, <1>3, <2>3 DEF Limit
    <3>2. Cut(p, max)
      BY <1>3, <3>1 DEF Cut
    <3> QED BY <1>2, <3>2
  <2> QED BY <2>1, <2>2, <2>3
<1>5. \A l \in f.lines, m \in asked \ f.lines : l.at >= m.at
  BY <1>1, <1>2
<1>6. p \in SUBSET LogLines /\ \A l \in p : l.signs \subseteq Signs
  BY <1>1
<1>7. ASSUME NEW l \in f.lines, l.signs # {} PROVE \E k \in Lists : l \in Hits(f.lines)[k]
  <2>1. PICK s \in Signs : s \in l.signs
    BY <1>2, <1>6, <1>7
  <2>2. l \in Hits(p)["oom"] \/ l \in Hits(p)["cuda"] \/ l \in Hits(p)["errorish"]
        \/ l \in Hits(p)["warningish"]
    BY <1>2, <2>1 DEF Hits, With, Signs
  <2> QED BY <1>2, <2>2 DEF Lists
<1>8. Ranked(f.totals, f.lines, MaxTotals)
  BY <1>2, <1>6, TopRanked
<1>9. ASSUME NEW k \in Lists PROVE Ranked(f.severity[k], Hits(f.lines)[k], MaxContainers)
  <2>1. Hits(p)[k] \in SUBSET LogLines
    BY <1>6 DEF Hits, With, Lists
  <2>2. f.severity[k] = Top(Hits(p)[k], MaxContainers)
    OBVIOUS
  <2> QED BY <1>2, <2>1, <2>2, TopRanked
<1> QED BY <1>4, <1>5, <1>7, <1>8, <1>9 DEF Told

(* The invariant holds at first.                                           *)
LEMMA ReportInitIInv == ReportInit => ReportIInv
<1> SUFFICES ASSUME ReportInit PROVE ReportIInv
  OBVIOUS
<1> USE DEF ReportInit, NoReport
<1>1. report \in [status : {"none"}, max : {0}, job : {FALSE}, facts : {NoFacts},
                  text : {"none"}, error : {"none"}]
  OBVIOUS
<1>2. ReportTypeOK
  <2>1. facts.lines = {}
    BY DEF NoFacts
  <2>3. warning \in BOOLEAN
    OBVIOUS
  <2>4. faults \in 0..MaxFaults
    OBVIOUS
  <2>2. asked = {} /\ report.status = "none"
    BY <1>1
  <2> QED BY <2>1, <2>2, <2>3, <2>4 DEF ReportTypeOK
<1>3. RowShape
  BY <1>1 DEF RowShape
<1>4. Where /\ Drawn /\ ReportTellsTruth
  BY <1>1, <1>2 DEF Where, Drawn, ReportTellsTruth
<1> QED BY <1>2, <1>3, <1>4 DEF ReportIInv

(* Every action keeps the types.                                           *)
LEMMA ReportTypeStep == ReportIInv /\ [ReportNext]_reportVars => ReportTypeOK'
<1> SUFFICES ASSUME ReportIInv, [ReportNext]_reportVars PROVE ReportTypeOK'
  OBVIOUS
<1>1. CASE Query
  <2>1. PICK p \in Pages(Limit(report.max)) : facts' = Facts(p, report.max, report.max > server)
    BY <1>1 DEF Query
  <2>2. facts'.lines \subseteq logs
    BY <2>1 DEF Facts, Pages
  <2> QED BY <1>1, <2>2 DEF Query, ReportIInv, ReportTypeOK
<1> USE DEF ReportIInv, ReportTypeOK, RowShape, Where
<1>2. CASE AskReport
  BY <1>2 DEF AskReport, NoReport
<1>3. CASE SubmitReport
  BY <1>3 DEF SubmitReport, Fault
<1>4. CASE SubmitReportFails
  BY <1>4 DEF SubmitReportFails, Fault
<1>5. CASE LinkReport
  BY <1>5 DEF LinkReport, Fault
<1>6. CASE LineArrives
  BY <1>6 DEF LineArrives, Fault
<1>7. CASE OpenReport
  BY <1>7 DEF OpenReport, Fault
<1>8. CASE QueryFails
  BY <1>8 DEF QueryFails, Fault
<1>9. CASE Word
  BY <1>9 DEF Word, Fault
<1>10. CASE Save
  BY <1>10 DEF Save, Fault
<1>11. CASE FinishJob
  BY <1>11 DEF FinishJob, Fault
<1>12. CASE SaveFails
  BY <1>12 DEF SaveFails, Fault
<1>13. CASE FailReport
  BY <1>13 DEF FailReport, Fault
<1>14. CASE FailReportJob
  BY <1>14 DEF FailReportJob, Fault
<1>15. CASE ReportAborts
  BY <1>15 DEF ReportAborts, Fault
<1>16. CASE UNCHANGED reportVars
  BY <1>16 DEF reportVars
<1> QED BY <1>1, <1>2, <1>3, <1>4, <1>5, <1>6, <1>7, <1>8, <1>9, <1>10, <1>11, <1>12, <1>13,
           <1>14, <1>15, <1>16 DEF ReportNext
(* The row keeps its columns.                                              *)
LEMMA RowShapeStep == ReportIInv /\ [ReportNext]_reportVars => RowShape'
<1> SUFFICES ASSUME ReportIInv, [ReportNext]_reportVars PROVE RowShape'
  OBVIOUS
<1>1. CASE Query
  BY <1>1 DEF Query, ReportIInv, RowShape
<1> USE DEF ReportIInv, RowShape, ReportTypeOK
<1>2. CASE AskReport
  BY <1>2 DEF AskReport, NoReport
<1>3. CASE SubmitReport
  BY <1>3 DEF SubmitReport, Fault
<1>4. CASE SubmitReportFails
  BY <1>4 DEF SubmitReportFails, Fault
<1>5. CASE LinkReport
  <2>1. CASE report' = [report EXCEPT !.job = TRUE]
    <3>1. report'.facts = report.facts
      BY <2>1
    <3> QED BY <2>1, <3>1
  <2>2. CASE UNCHANGED report
    BY <2>2
  <2> QED BY <1>5, <2>1, <2>2 DEF LinkReport
<1>6. CASE LineArrives
  BY <1>6 DEF LineArrives, Fault
<1>7. CASE OpenReport
  <2>1. report' = [report EXCEPT !.status = "running"]
    BY <1>7 DEF OpenReport
  <2>2. report'.facts = report.facts
    BY <2>1
  <2> QED BY <2>1, <2>2
<1>8. CASE QueryFails
  BY <1>8 DEF QueryFails, Fault
<1>9. CASE Word
  BY <1>9 DEF Word, Fault
<1>10. CASE Save
  BY <1>10 DEF Save, Fault
<1>11. CASE FinishJob
  BY <1>11 DEF FinishJob, Fault
<1>12. CASE SaveFails
  BY <1>12 DEF SaveFails, Fault
<1>13. CASE FailReport
  BY <1>13 DEF FailReport, Fault
<1>14. CASE FailReportJob
  BY <1>14 DEF FailReportJob, Fault
<1>15. CASE ReportAborts
  BY <1>15 DEF ReportAborts, Fault
<1>16. CASE UNCHANGED reportVars
  BY <1>16 DEF reportVars
<1> QED BY <1>1, <1>2, <1>3, <1>4, <1>5, <1>6, <1>7, <1>8, <1>9, <1>10, <1>11, <1>12, <1>13,
           <1>14, <1>15, <1>16 DEF ReportNext
(* Job and row go with the pipeline.                                       *)
LEMMA WhereStep == ReportIInv /\ [ReportNext]_reportVars => Where'
<1> SUFFICES ASSUME ReportIInv, [ReportNext]_reportVars PROVE Where'
  OBVIOUS
<1>1. CASE Query
  BY <1>1 DEF Query, ReportIInv, Where
<1> USE DEF ReportIInv, Where, ReportTypeOK, RowShape
<1>2. CASE AskReport
  BY <1>2 DEF AskReport, NoReport
<1>3. CASE SubmitReport
  BY <1>3 DEF SubmitReport, Fault
<1>4. CASE SubmitReportFails
  BY <1>4 DEF SubmitReportFails, Fault
<1>5. CASE LinkReport
  <2>1. /\ report'.status = report.status /\ report'.max = report.max
        /\ report'.text = report.text
    BY <1>5 DEF LinkReport
  <2>2. UNCHANGED <<rjob, pipe>> /\ request = "link" /\ request' = "over"
    BY <1>5 DEF LinkReport
  <2> QED BY <2>1, <2>2
<1>6. CASE LineArrives
  BY <1>6 DEF LineArrives, Fault
<1>7. CASE OpenReport
  <2>1. report'.max = report.max /\ report'.status = "running"
    BY <1>7 DEF OpenReport
  <2> QED BY <1>7, <2>1 DEF OpenReport
<1>8. CASE QueryFails
  BY <1>8 DEF QueryFails, Fault
<1>9. CASE Word
  BY <1>9 DEF Word, Fault
<1>10. CASE Save
  BY <1>10 DEF Save, Fault
<1>11. CASE FinishJob
  BY <1>11 DEF FinishJob, Fault
<1>12. CASE SaveFails
  BY <1>12 DEF SaveFails, Fault
<1>13. CASE FailReport
  BY <1>13 DEF FailReport, Fault
<1>14. CASE FailReportJob
  BY <1>14 DEF FailReportJob, Fault
<1>15. CASE ReportAborts
  BY <1>15 DEF ReportAborts, Fault
<1>16. CASE UNCHANGED reportVars
  BY <1>16 DEF reportVars
<1> QED BY <1>1, <1>2, <1>3, <1>4, <1>5, <1>6, <1>7, <1>8, <1>9, <1>10, <1>11, <1>12, <1>13,
           <1>14, <1>15, <1>16 DEF ReportNext
(* The row has the facts of the query.                                     *)
LEMMA DrawnStep == ReportIInv /\ [ReportNext]_reportVars => Drawn'
<1> SUFFICES ASSUME ReportIInv, [ReportNext]_reportVars PROVE Drawn'
  OBVIOUS
<1>1. CASE Query
  <2>1. PICK p \in Pages(Limit(report.max)) : facts' = Facts(p, report.max, report.max > server)
    BY <1>1 DEF Query
  <2>2. report.max \in MaxLines
    BY <1>1 DEF Query, ReportIInv, Where
  <2>3. Told(facts')
    BY <2>1, <2>2, QueryTells DEF ReportIInv, ReportTypeOK
  <2>4. UNCHANGED <<asked, report>>
    BY <1>1 DEF Query
  <2> QED BY <2>3, <2>4 DEF ReportIInv, Drawn, Told
<1> USE DEF ReportIInv, Drawn, Told, RowShape, Where
<1>2. CASE AskReport
  BY <1>2 DEF AskReport, NoReport
<1>3. CASE SubmitReport
  BY <1>3 DEF SubmitReport, Fault
<1>4. CASE SubmitReportFails
  BY <1>4 DEF SubmitReportFails, Fault
<1>5. CASE LinkReport
  BY <1>5 DEF LinkReport, Fault
<1>6. CASE LineArrives
  BY <1>6 DEF LineArrives, Fault
<1>7. CASE OpenReport
  BY <1>7 DEF OpenReport, Fault
<1>8. CASE QueryFails
  BY <1>8 DEF QueryFails, Fault
<1>9. CASE Word
  BY <1>9 DEF Word, Fault
<1>10. CASE Save
  BY <1>10 DEF Save, Fault
<1>11. CASE FinishJob
  BY <1>11 DEF FinishJob, Fault
<1>12. CASE SaveFails
  BY <1>12 DEF SaveFails, Fault
<1>13. CASE FailReport
  BY <1>13 DEF FailReport, Fault
<1>14. CASE FailReportJob
  BY <1>14 DEF FailReportJob, Fault
<1>15. CASE ReportAborts
  BY <1>15 DEF ReportAborts, Fault
<1>16. CASE UNCHANGED reportVars
  BY <1>16 DEF reportVars
<1> QED BY <1>1, <1>2, <1>3, <1>4, <1>5, <1>6, <1>7, <1>8, <1>9, <1>10, <1>11, <1>12, <1>13,
           <1>14, <1>15, <1>16 DEF ReportNext
(* The job says what the row says.                                         *)
LEMMA TruthStep == ReportIInv /\ [ReportNext]_reportVars => ReportTellsTruth'
<1> SUFFICES ASSUME ReportIInv, [ReportNext]_reportVars PROVE ReportTellsTruth'
  OBVIOUS
<1>1. ReportTypeOK'
  BY ReportTypeStep
<1>17. CASE Query
  BY <1>1, <1>17 DEF Query, ReportIInv, ReportTellsTruth
<1> USE DEF ReportIInv, ReportTellsTruth, RowShape, Where
<1>2. CASE AskReport
  BY <1>1, <1>2 DEF AskReport, NoReport
<1>3. CASE SubmitReport
  BY <1>1, <1>3 DEF SubmitReport, Fault
<1>4. CASE SubmitReportFails
  BY <1>1, <1>4 DEF SubmitReportFails, Fault
<1>5. CASE LinkReport
  BY <1>1, <1>5 DEF LinkReport, Fault
<1>6. CASE LineArrives
  BY <1>1, <1>6 DEF LineArrives, Fault
<1>7. CASE OpenReport
  BY <1>1, <1>7 DEF OpenReport, Fault
<1>8. CASE QueryFails
  BY <1>1, <1>8 DEF QueryFails, Fault
<1>9. CASE Word
  BY <1>1, <1>9 DEF Word, Fault
<1>10. CASE Save
  BY <1>1, <1>10 DEF Save, Fault
<1>11. CASE FinishJob
  BY <1>1, <1>11 DEF FinishJob, Fault
<1>12. CASE SaveFails
  BY <1>1, <1>12 DEF SaveFails, Fault
<1>13. CASE FailReport
  BY <1>1, <1>13 DEF FailReport, Fault
<1>14. CASE FailReportJob
  BY <1>1, <1>14 DEF FailReportJob, Fault
<1>15. CASE ReportAborts
  BY <1>1, <1>15 DEF ReportAborts, Fault
<1>16. CASE UNCHANGED reportVars
  BY <1>1, <1>16 DEF reportVars
<1> QED BY <1>1, <1>2, <1>3, <1>4, <1>5, <1>6, <1>7, <1>8, <1>9, <1>10, <1>11, <1>12, <1>13,
           <1>14, <1>15, <1>16, <1>17 DEF ReportNext

(* The parts together are inductive.                                       *)
LEMMA ReportStep == ReportIInv /\ [ReportNext]_reportVars => ReportIInv'
BY ReportTypeStep, RowShapeStep, WhereStep, DrawnStep, TruthStep DEF ReportIInv

(* The invariant holds in every reachable state.                           *)
THEOREM ReportIInvHolds == ReportSpec => []ReportIInv
BY ReportInitIInv, ReportStep, PTL DEF ReportSpec

(* run_log_report_pipeline: a report that has succeeded has every line     *)
(* that was there or says that it was cut, and has every line with a sign  *)
(* of trouble in a list, of which only full ones leave containers out.     *)
THEOREM NewestOrToldHolds == ReportSpec => []NewestOrTold
<1>1. ReportIInv => NewestOrTold
  BY DEF ReportIInv, Drawn, Told, ReportTellsTruth, NewestOrTold
<1> QED BY <1>1, ReportIInvHolds, PTL

(* Row and job, finished by two transactions, never disagree.              *)
THEOREM ReportTellsTruthHolds == ReportSpec => []ReportTellsTruth
<1>1. ReportIInv => ReportTellsTruth
  BY DEF ReportIInv
<1> QED BY <1>1, ReportIInvHolds, PTL

(* The row and the job of run_log_report_pipeline keep to Delivery.        *)
LEMMA ReportInitDelivers == ReportInit => Report!Init
BY DEF ReportInit, NoReport, Report!Init, Reported, Reporting

LEMMA ReportStepDelivers == ReportIInv /\ [ReportNext]_reportVars => [Report!Next]_(Report!vars)
<1> SUFFICES ASSUME ReportIInv, [ReportNext]_reportVars PROVE [Report!Next]_(Report!vars)
  OBVIOUS
<1> USE DEF ReportIInv, ReportTypeOK, RowShape, Where, Reporting, Reported
<1>1. CASE SubmitReportFails \/ LineArrives \/ Query \/ QueryFails \/ Word \/ SaveFails
  BY <1>1 DEF SubmitReportFails, LineArrives, Query, QueryFails, Word, SaveFails, Report!vars
<1>2. CASE LinkReport
  BY <1>2 DEF LinkReport, Report!vars
<1>3. CASE AskReport
  <2>1. /\ report'.status = "pending" /\ report'.text = "none"
        /\ report.status = "none" /\ report.text = "none"
        /\ UNCHANGED <<rjob, pipe>>
    BY <1>3 DEF AskReport, NoReport
  <2> QED BY <2>1 DEF Report!Next, Report!Ask
<1>4. CASE SubmitReport
  BY <1>4 DEF SubmitReport, Report!Next, Report!Start
<1>5. CASE OpenReport
  BY <1>5 DEF OpenReport, Report!Next, Report!Begin
<1>6. CASE Save
  BY <1>6 DEF Save, Report!Next, Report!Succeed
<1>7. CASE FinishJob \/ FailReportJob
  BY <1>7 DEF FinishJob, FailReportJob, Report!Next, Report!Finish
<1>8. CASE FailReport
  BY <1>8 DEF FailReport, Report!Next, Report!Fail
<1>9. CASE ReportAborts
  BY <1>9 DEF ReportAborts, Report!Next, Report!Abort
<1>10. CASE UNCHANGED reportVars
  BY <1>10 DEF reportVars, Report!vars
<1> QED BY <1>1, <1>2, <1>3, <1>4, <1>5, <1>6, <1>7, <1>8, <1>9, <1>10 DEF ReportNext

(* Row and job of a report, finished by two transactions, tell one story,  *)
(* and how it ended is final.                                              *)
THEOREM ReportDelivered == ReportSpec => ReportDelivers
BY ReportInitDelivers, ReportStepDelivers, ReportIInvHolds, PTL
DEF ReportSpec, ReportDelivers, Report!Spec

-----------------------------------------------------------------------------
(* LogExport: the lines of a window.                                       *)

USE LogExportAssumption

InOrder(s) == \A i \in 2..Len(s) : s[i - 1] <= s[i]

Smaller == OpToRel(<, Nat)

(* A set of numbers that is not empty has a least one.                     *)
LEMMA LeastNat ==
    ASSUME NEW S \in SUBSET Nat, S # {}
    PROVE  \E m \in S : \A n \in S : m <= n
<1>1. IsWellFoundedOn(Smaller, Nat)
  BY NatLessThanWellFounded, Zenon DEF Smaller
<1>2. PICK m \in S : \A n \in S : <<n, m>> \notin Smaller
  BY <1>1, WFMin
<1>3. \A m1, n1 \in Nat : n1 < m1 => <<n1, m1>> \in Smaller
  BY DEF Smaller, OpToRel
<1>4. \A n \in S : ~(n < m)
  BY <1>2, <1>3
<1> QED BY <1>4

(* Induction up to n, over a set.                                          *)
LEMMA UpTo ==
    ASSUME NEW S, NEW n \in Nat, 0 \in S,
           \A k \in Nat : k < n /\ k \in S => k + 1 \in S
    PROVE  \A k \in 0..n : k \in S
<1> DEFINE T == {k \in 0..n : k \notin S}
<1> SUFFICES ASSUME T # {} PROVE FALSE
  OBVIOUS
<1>1. PICK m \in T : \A k \in T : m <= k
  <2>1. T \in SUBSET Nat
    OBVIOUS
  <2> QED BY <2>1, LeastNat
<1>2. m # 0 /\ m \in 0..n /\ m \notin S
  BY <1>1
<1>3. m - 1 \in 0..n /\ m - 1 < n /\ ~(m <= m - 1)
  BY <1>2
<1>4. m - 1 \in S
  BY <1>1, <1>3
<1>5. (m - 1) + 1 \in S /\ (m - 1) + 1 = m
  BY <1>2, <1>3, <1>4
<1> QED BY <1>2, <1>5

(* How often a timestamp is in a sequence: a number.                       *)
LEMMA CountIsNat ==
    ASSUME NEW S, NEW a \in Seq(S), NEW t
    PROVE  /\ Count(a, t) \in Nat /\ Count(a, t) <= Len(a)
           /\ (\A i \in 1..Len(a) : a[i] # t) => Count(a, t) = 0
           /\ (\A i \in 1..Len(a) : a[i] = t) => Count(a, t) = Len(a)
<1> DEFINE At == {i \in 1..Len(a) : a[i] = t}
<1>1. Len(a) \in Nat
  OBVIOUS
<1>2. IsFiniteSet(1..Len(a)) /\ Cardinality(1..Len(a)) = Len(a)
  <2>1. IsFiniteSet(1..Len(a)) /\ Cardinality(1..Len(a)) = IF 1 > Len(a) THEN 0 ELSE Len(a) - 1 + 1
    BY <1>1, FS_Interval
  <2> QED BY <1>1, <2>1
<1>3. At \in SUBSET (1..Len(a))
  OBVIOUS
<1>4. IsFiniteSet(At) /\ Cardinality(At) <= Len(a)
  BY <1>2, <1>3, FS_Subset
<1>5. Cardinality(At) \in Nat
  BY <1>4, FS_CardinalityType
<1>6. ASSUME \A i \in 1..Len(a) : a[i] # t PROVE Cardinality(At) = 0
  BY <1>6, FS_EmptySet
<1>7. ASSUME \A i \in 1..Len(a) : a[i] = t PROVE Cardinality(At) = Len(a)
  <2>1. At = 1..Len(a)
    BY <1>7
  <2> QED BY <1>2, <2>1
<1> QED BY <1>4, <1>5, <1>6, <1>7 DEF Count

(* Counting one sequence after the other.                                  *)
LEMMA CountCat ==
    ASSUME NEW S, NEW a \in Seq(S), NEW b \in Seq(S), NEW t
    PROVE  Count(a \o b, t) = Count(a, t) + Count(b, t)
<1> DEFINE n  == Len(a)
           A  == {i \in 1..Len(a) : a[i] = t}
           B  == {i \in 1..Len(b) : b[i] = t}
           B2 == {i \in (n + 1)..(n + Len(b)) : b[i - n] = t}
           AB == {i \in 1..Len(a \o b) : (a \o b)[i] = t}
<1>1. n \in Nat /\ Len(b) \in Nat /\ Len(a \o b) = n + Len(b)
  OBVIOUS
<1>2. AB = A \cup B2
  <2>1. ASSUME NEW i \in AB PROVE i \in A \cup B2
    <3>1. i \in 1..(n + Len(b)) /\ (a \o b)[i] = IF i <= n THEN a[i] ELSE b[i - n]
      BY <1>1
    <3> QED BY <1>1, <3>1
  <2>2. ASSUME NEW i \in A PROVE i \in AB
    <3>1. i \in 1..(n + Len(b)) /\ (a \o b)[i] = a[i]
      BY <1>1
    <3> QED BY <1>1, <3>1
  <2>3. ASSUME NEW i \in B2 PROVE i \in AB
    <3>1. i \in 1..(n + Len(b)) /\ (a \o b)[i] = b[i - n]
      BY <1>1
    <3> QED BY <1>1, <3>1
  <2> QED BY <2>1, <2>2, <2>3
<1>3. A \cap B2 = {}
  BY <1>1
<1>4. IsFiniteSet(A) /\ IsFiniteSet(B)
  <2>1. IsFiniteSet(1..n) /\ IsFiniteSet(1..Len(b))
    BY <1>1, FS_Interval
  <2> QED BY <2>1, FS_Subset
<1>5. IsFiniteSet(B2) /\ Cardinality(B2) = Cardinality(B)
  <2> DEFINE f == [i \in B |-> i + n]
  <2>1. f \in [B -> B2]
    BY <1>1
  <2>2. \A i, j \in B : f[i] = f[j] => i = j
    BY <1>1
  <2>3. \A j \in B2 : \E i \in B : f[i] = j
    <3> TAKE j \in B2
    <3>1. j - n \in B /\ f[j - n] = j
      BY <1>1
    <3> QED BY <3>1
  <2> HIDE DEF f, B, B2
  <2>4. f \in Bijection(B, B2)
    <3>1. f \in Injection(B, B2)
      BY <2>1, <2>2 DEF Injection, IsInjective
    <3>2. f \in Surjection(B, B2)
      BY <2>1, <2>3 DEF Surjection
    <3> QED BY <3>1, <3>2 DEF Bijection
  <2>5. ExistsBijection(B, B2)
    BY <2>4 DEF ExistsBijection
  <2> QED BY <1>4, <2>5, FS_Bijection
<1>6. Cardinality(AB) = Cardinality(A) + Cardinality(B2) - Cardinality(A \cap B2)
  BY <1>2, <1>4, <1>5, FS_Union
<1>7. Cardinality(A) \in Nat /\ Cardinality(B) \in Nat
  BY <1>4, FS_CardinalityType
<1>8. Cardinality(A \cap B2) = 0
  BY <1>3, FS_EmptySet
<1>9. Count(a \o b, t) = Cardinality(AB) /\ Count(a, t) = Cardinality(A) /\ Count(b, t) = Cardinality(B)
  BY DEF Count
<1> HIDE DEF AB, A, B, B2
<1> QED BY <1>5, <1>6, <1>7, <1>8, <1>9

(* Where the elements of two sequences, one after the other, come from.    *)
LEMMA CatElements ==
    ASSUME NEW a \in Seq(Nat), NEW b \in Seq(Nat)
    PROVE  /\ Len(a) \in Nat /\ Len(b) \in Nat /\ Len(a \o b) = Len(a) + Len(b)
           /\ \A k \in 1..Len(a) : (a \o b)[k] = a[k]
           /\ \A k \in 1..Len(b) : (a \o b)[Len(a) + k] = b[k]
<1>1. Len(a) \in Nat /\ Len(b) \in Nat /\ Len(a \o b) = Len(a) + Len(b)
  OBVIOUS
<1>2. ASSUME NEW k \in 1..Len(a) PROVE (a \o b)[k] = a[k]
  BY <1>1
<1>3. ASSUME NEW k \in 1..Len(b) PROVE (a \o b)[Len(a) + k] = b[k]
  BY <1>1
<1> QED BY <1>1, <1>2, <1>3

(* One sorted sequence after another whose elements are not smaller.       *)
LEMMA InOrderCat ==
    ASSUME NEW a \in Seq(Nat), NEW b \in Seq(Nat), InOrder(a), InOrder(b),
           \A i \in 1..Len(a), j \in 1..Len(b) : a[i] <= b[j]
    PROVE  InOrder(a \o b)
<1>1. SUFFICES ASSUME NEW i \in 2..Len(a \o b) PROVE (a \o b)[i - 1] <= (a \o b)[i]
  BY DEF InOrder
<1>2. Len(a) \in Nat /\ Len(b) \in Nat /\ Len(a \o b) = Len(a) + Len(b)
  BY CatElements
<1>3. CASE i <= Len(a)
  <2>1. i \in 2..Len(a) /\ i - 1 \in 1..Len(a) /\ i \in 1..Len(a)
    BY <1>2, <1>3
  <2>2. (a \o b)[i - 1] = a[i - 1] /\ (a \o b)[i] = a[i]
    BY <2>1, CatElements
  <2> QED BY <2>1, <2>2 DEF InOrder
<1>4. CASE i = Len(a) + 1
  <2>1. i - 1 \in 1..Len(a) /\ 1 \in 1..Len(b)
    BY <1>2, <1>4
  <2>2. (a \o b)[i - 1] = a[i - 1] /\ (a \o b)[i] = b[1]
    BY <1>4, <2>1, CatElements
  <2> QED BY <2>1, <2>2
<1>5. CASE i > Len(a) + 1
  <2> DEFINE j == i - Len(a)
  <2>1. /\ j \in 2..Len(b) /\ j - 1 \in 1..Len(b) /\ j \in 1..Len(b)
        /\ i = Len(a) + j /\ i - 1 = Len(a) + (j - 1)
    BY <1>2, <1>5
  <2>2. (a \o b)[Len(a) + (j - 1)] = b[j - 1] /\ (a \o b)[Len(a) + j] = b[j]
    <3> HIDE DEF j
    <3> QED BY <2>1, CatElements
  <2>3. (a \o b)[i - 1] = b[j - 1] /\ (a \o b)[i] = b[j]
    <3> HIDE DEF j
    <3> QED BY <2>1, <2>2
  <2> QED BY <2>1, <2>3 DEF InOrder
<1> QED BY <1>2, <1>3, <1>4, <1>5

(* The lines of one nanosecond.                                            *)
Block(t) == [i \in 1..stored[t] |-> t]

(* A block has one timestamp and as many lines as are stored under it.     *)
LEMMA BlockLines ==
    ASSUME stored \in [Ns -> 0..MaxPerNs], NEW t \in Ns
    PROVE  /\ Block(t) \in Seq(Ns) /\ Len(Block(t)) = stored[t] /\ InOrder(Block(t))
           /\ \A i \in 1..Len(Block(t)) : Block(t)[i] = t
           /\ \A u \in Ns : Count(Block(t), u) = IF u = t THEN stored[t] ELSE 0
<1>1. stored[t] \in Nat
  OBVIOUS
<1>2. Block(t) \in Seq(Ns) /\ Len(Block(t)) = stored[t]
  BY <1>1 DEF Block
<1>3. \A i \in 1..stored[t] : Block(t)[i] = t
  BY DEF Block
<1>4. InOrder(Block(t))
  <2>1. t <= t
    BY DEF Ns
  <2>2. \A i \in 2..stored[t] : i - 1 \in 1..stored[t] /\ i \in 1..stored[t]
    BY <1>1
  <2> QED BY <1>2, <1>3, <2>1, <2>2 DEF InOrder
<1>5. ASSUME NEW u \in Ns PROVE Count(Block(t), u) = IF u = t THEN stored[t] ELSE 0
  <2>1. CASE u = t
    BY <1>2, <1>3, <2>1, CountIsNat
  <2>2. CASE u # t
    BY <1>2, <1>3, <2>2, CountIsNat
  <2> QED BY <2>1, <2>2
<1> QED BY <1>2, <1>3, <1>4, <1>5

(* What the recursion that gathers the lines of a window has after n steps. *)
Climbs(up, lo, n) ==
    /\ up \in [0..n -> Seq(Ns)]
    /\ \A t \in 0..n : up[t] = IF t <= lo THEN <<>> ELSE up[t - 1] \o Block(t - 1)

(* The recursion has a result.                                             *)
LEMMA LinesClimb ==
    ASSUME stored \in [Ns -> 0..MaxPerNs], NEW lo \in Ns, NEW hi \in Ns, lo <= hi
    PROVE  \E up : Climbs(up, lo, hi + 1) /\ Lines(lo, hi) = up[hi + 1]
<1> DEFINE S == {n \in Nat : \E up : Climbs(up, lo, n)}
<1>1. lo \in Nat /\ hi \in Nat /\ hi <= LastNs /\ LastNs \in Nat /\ hi + 1 \in Nat
  BY DEF Ns
<1>2. 0 \in S
  <2> DEFINE up == [t \in 0..0 |-> <<>>]
  <2>1. up \in [0..0 -> Seq(Ns)]
    OBVIOUS
  <2>2. \A t \in 0..0 : up[t] = <<>> /\ t <= lo
    BY <1>1
  <2>3. Climbs(up, lo, 0)
    BY <2>1, <2>2 DEF Climbs
  <2> QED BY <2>3
<1>3. ASSUME NEW k \in Nat, k < hi + 1, k \in S PROVE k + 1 \in S
  <2>1. PICK up : Climbs(up, lo, k)
    BY <1>3
  <2> DEFINE top  == IF k + 1 <= lo THEN <<>> ELSE up[k] \o Block(k)
             more == [t \in 0..(k + 1) |-> IF t = k + 1 THEN top ELSE up[t]]
  <2>2. up \in [0..k -> Seq(Ns)] /\ k \in 0..k /\ k \in Ns
    BY <1>1, <1>3, <2>1 DEF Ns, Climbs
  <2>3. top \in Seq(Ns)
    BY <2>2, BlockLines
  <2>4. more \in [0..(k + 1) -> Seq(Ns)]
    <3>1. ASSUME NEW t \in 0..(k + 1) PROVE t = k + 1 \/ t \in 0..k
      OBVIOUS
    <3> HIDE DEF top
    <3> QED BY <2>2, <2>3, <3>1
  <2>5. ASSUME NEW t \in 0..(k + 1)
        PROVE  more[t] = IF t <= lo THEN <<>> ELSE more[t - 1] \o Block(t - 1)
    <3>1. CASE t = k + 1
      <4>1. more[t] = top /\ t - 1 = k
        BY <3>1
      <4>2. k \in 0..(k + 1) /\ k # k + 1
        OBVIOUS
      <4>3. more[k] = up[k]
        BY <4>2
      <4> QED BY <3>1, <4>1, <4>3
    <3>2. CASE t # k + 1
      <4>1. t \in 0..k
        BY <3>2
      <4>2. more[t] = up[t] /\ up[t] = IF t <= lo THEN <<>> ELSE up[t - 1] \o Block(t - 1)
        BY <2>1, <3>2, <4>1 DEF Climbs
      <4>3. ASSUME ~(t <= lo) PROVE more[t - 1] = up[t - 1]
        <5>1. t - 1 \in 0..(k + 1) /\ t - 1 # k + 1
          BY <1>1, <4>1, <4>3
        <5> QED BY <5>1
      <4> HIDE DEF more
      <4> QED BY <4>2, <4>3
    <3> QED BY <3>1, <3>2
  <2>6. Climbs(more, lo, k + 1)
    <3> HIDE DEF more
    <3>1. \A t \in 0..(k + 1) : more[t] = IF t <= lo THEN <<>> ELSE more[t - 1] \o Block(t - 1)
      BY <2>5
    <3> QED BY <2>4, <3>1 DEF Climbs
  <2> QED BY <2>6
<1>4. hi + 1 \in S
  <2>1. \A k \in 0..(hi + 1) : k \in S
    <3>1. \A k \in Nat : k < hi + 1 /\ k \in S => k + 1 \in S
      BY <1>3
    <3> HIDE DEF S
    <3> QED BY <1>1, <1>2, <3>1, UpTo
  <2>2. hi + 1 \in 0..(hi + 1)
    BY <1>1
  <2> QED BY <2>1, <2>2
<1>5. PICK up : Climbs(up, lo, hi + 1)
  BY <1>4
<1> DEFINE F(f)   == [t \in 0..(hi + 1) |->
                        IF t <= lo THEN <<>> ELSE f[t - 1] \o [i \in 1..stored[t - 1] |-> t - 1]]
           chosen == CHOOSE f : f = F(f)
<1>6. up = F(up)
  <2>1. up \in [0..(hi + 1) -> Seq(Ns)]
    BY <1>5 DEF Climbs
  <2>2. \A t \in 0..(hi + 1) : up[t] = F(up)[t]
    BY <1>5 DEF Block, Climbs
  <2>3. F(up) = [t \in 0..(hi + 1) |-> F(up)[t]]
    OBVIOUS
  <2>4. up = [t \in 0..(hi + 1) |-> up[t]]
    BY <2>1
  <2> HIDE DEF F
  <2> QED BY <2>2, <2>3, <2>4
<1>7. chosen = F(chosen)
  <2> HIDE DEF F
  <2> QED BY <1>6
<1>8. Lines(lo, hi) = chosen[hi + 1]
  BY DEF Lines
<1> HIDE DEF chosen
<1>9. \A t \in 0..(hi + 1) : chosen[t] = IF t <= lo THEN <<>> ELSE chosen[t - 1] \o Block(t - 1)
  BY <1>7 DEF Block
<1>10. \A t \in 0..(hi + 1) : up[t] = IF t <= lo THEN <<>> ELSE up[t - 1] \o Block(t - 1)
  BY <1>5 DEF Climbs
<1>11. chosen[hi + 1] = up[hi + 1]
  <2> DEFINE E == {k \in 0..(hi + 1) : chosen[k] = up[k]}
  <2>1. 0 \in E
    <3>1. 0 \in 0..(hi + 1) /\ 0 <= lo
      BY <1>1
    <3>2. chosen[0] = <<>> /\ up[0] = <<>>
      BY <1>9, <1>10, <3>1
    <3> QED BY <3>1, <3>2
  <2>2. ASSUME NEW k \in Nat, k < hi + 1, k \in E PROVE k + 1 \in E
    <3>1. k + 1 \in 0..(hi + 1) /\ (k + 1) - 1 = k /\ chosen[k] = up[k]
      BY <1>1, <2>2
    <3> QED BY <1>9, <1>10, <3>1
  <2>3. \A k \in 0..(hi + 1) : k \in E
    <3> HIDE DEF E
    <3> QED BY <1>1, <2>1, <2>2, UpTo
  <2> QED BY <1>1, <2>3
<1> QED BY <1>5, <1>8, <1>10, <1>11

(* Every line of the window, in the order of time, and no other.           *)
LEMMA LinesOfWindow ==
    ASSUME stored \in [Ns -> 0..MaxPerNs], NEW lo \in Ns, NEW hi \in Ns, lo <= hi
    PROVE  /\ Lines(lo, hi) \in Seq(Ns) /\ InOrder(Lines(lo, hi))
           /\ \A i \in 1..Len(Lines(lo, hi)) : lo <= Lines(lo, hi)[i] /\ Lines(lo, hi)[i] <= hi
           /\ \A t \in Ns : lo <= t /\ t <= hi => Count(Lines(lo, hi), t) = stored[t]
<1> DEFINE Fine(s, k) ==
              /\ s \in Seq(Ns) /\ InOrder(s)
              /\ \A i \in 1..Len(s) : lo <= s[i] /\ s[i] < k
              /\ \A t \in Ns : lo <= t /\ t < k => Count(s, t) = stored[t]
<1>1. lo \in Nat /\ hi \in Nat /\ hi <= LastNs /\ LastNs \in Nat /\ hi + 1 \in Nat
  BY DEF Ns
<1>2. PICK up : Climbs(up, lo, hi + 1) /\ Lines(lo, hi) = up[hi + 1]
  BY LinesClimb
<1> USE DEF Climbs
<1> DEFINE S == {k \in 0..(hi + 1) : Fine(up[k], k)}
<1>3. ASSUME NEW k \in 0..(hi + 1), k <= lo PROVE Fine(up[k], k)
  <2>1. up[k] = <<>>
    BY <1>2, <1>3
  <2>2. \A t \in Ns : ~(lo <= t /\ t < k)
    BY <1>1, <1>3 DEF Ns
  <2> QED BY <2>1, <2>2 DEF InOrder
<1>4. 0 \in S
  BY <1>1, <1>3
<1>5. ASSUME NEW k \in Nat, k < hi + 1, k \in S PROVE k + 1 \in S
  <2>1. k + 1 \in 0..(hi + 1) /\ (k + 1) - 1 = k /\ k \in Ns
    BY <1>1, <1>5 DEF Ns
  <2>2. CASE k + 1 <= lo
    BY <1>3, <2>1, <2>2
  <2>3. CASE ~(k + 1 <= lo)
    <3>1. up[k + 1] = up[k] \o Block(k) /\ lo <= k
      <4>1. up[k + 1] = up[(k + 1) - 1] \o Block((k + 1) - 1)
        BY <1>2, <2>1, <2>3
      <4>2. lo <= k
        BY <1>1, <2>3
      <4> QED BY <2>1, <4>1, <4>2
    <3>2. Fine(up[k], k)
      BY <1>5
    <3> DEFINE a == up[k]
               b == Block(k)
    <3>3. /\ a \in Seq(Ns) /\ InOrder(a) /\ \A i \in 1..Len(a) : lo <= a[i] /\ a[i] < k
          /\ \A t \in Ns : lo <= t /\ t < k => Count(a, t) = stored[t]
      BY <3>2
    <3>4. /\ b \in Seq(Ns) /\ InOrder(b) /\ \A i \in 1..Len(b) : b[i] = k
          /\ \A u \in Ns : Count(b, u) = IF u = k THEN stored[k] ELSE 0
      BY <2>1, BlockLines
    <3> HIDE DEF a, b
    <3>5. a \in Seq(Nat) /\ b \in Seq(Nat) /\ a \o b \in Seq(Ns)
      BY <3>3, <3>4 DEF Ns
    <3>6. \A i \in 1..Len(a), j \in 1..Len(b) : a[i] <= b[j]
      <4>1. ASSUME NEW i \in 1..Len(a), NEW j \in 1..Len(b) PROVE a[i] <= b[j]
        <5>1. a[i] \in Nat
          <6>1. a \in Seq(Nat)
            BY <3>5
          <6> QED BY <6>1
        <5>2. a[i] < k
          BY <3>3
        <5>3. b[j] = k
          BY <3>4
        <5> QED BY <5>1, <5>2, <5>3
      <4> QED BY <4>1
    <3>7. InOrder(a \o b)
      BY <3>3, <3>4, <3>5, <3>6, InOrderCat
    <3>8. ASSUME NEW i \in 1..Len(a \o b) PROVE lo <= (a \o b)[i] /\ (a \o b)[i] < k + 1
      <4>1. Len(a) \in Nat /\ Len(b) \in Nat /\ Len(a \o b) = Len(a) + Len(b)
        BY <3>5
      <4>2. CASE i <= Len(a)
        <5>1. i \in 1..Len(a) /\ (a \o b)[i] = a[i] /\ a[i] \in Nat
          BY <3>5, <4>1, <4>2
        <5> QED BY <1>1, <3>3, <5>1
      <4>3. CASE ~(i <= Len(a))
        <5>1. i - Len(a) \in 1..Len(b) /\ (a \o b)[i] = b[i - Len(a)]
          BY <3>5, <4>1, <4>3
        <5>2. (a \o b)[i] = k
          BY <3>4, <5>1
        <5> QED BY <3>1, <5>2
      <4> QED BY <4>2, <4>3
    <3>9. ASSUME NEW t \in Ns, lo <= t, t < k + 1 PROVE Count(a \o b, t) = stored[t]
      <4>1. Count(a \o b, t) = Count(a, t) + Count(b, t)
        BY <3>3, <3>4, CountCat
      <4>2. stored[t] \in Nat /\ t \in Nat
        BY DEF Ns
      <4>3. CASE t = k
        <5>1. \A i \in 1..Len(a) : a[i] # t
          BY <3>3, <3>5, <4>3
        <5>2. Count(a, t) = 0
          BY <3>3, <5>1, CountIsNat
        <5>3. Count(b, t) = stored[t]
          BY <3>4, <4>3
        <5> QED BY <4>1, <4>2, <5>2, <5>3
      <4>4. CASE t # k
        <5>1. t < k
          BY <3>9, <4>2, <4>4
        <5>2. Count(a, t) = stored[t] /\ Count(b, t) = 0
          BY <3>3, <3>4, <3>9, <4>4, <5>1
        <5> QED BY <4>1, <4>2, <5>2
      <4> QED BY <4>3, <4>4
    <3>10. up[k + 1] = a \o b
      BY <3>1 DEF a, b
    <3>11. Fine(a \o b, k + 1)
      BY <3>5, <3>7, <3>8, <3>9
    <3> QED BY <2>1, <3>10, <3>11
  <2> QED BY <2>2, <2>3
<1>6. \A k \in 0..(hi + 1) : k \in S
  <2> HIDE DEF S
  <2> QED BY <1>1, <1>4, <1>5, UpTo
<1>7. Fine(Lines(lo, hi), hi + 1)
  BY <1>1, <1>2, <1>6
<1>8. \A n \in Nat : n < hi + 1 => n <= hi
  BY <1>1
<1>9. \A n \in Nat : n <= hi => n < hi + 1
  BY <1>1
<1>10. \A i \in 1..Len(Lines(lo, hi)) : Lines(lo, hi)[i] \in Nat
  BY <1>7 DEF Ns
<1>11. \A t \in Ns : t \in Nat
  BY DEF Ns
<1> QED BY <1>7, <1>8, <1>9, <1>10, <1>11

(* What the pipeline takes from a page it keeps: the lines of the window   *)
(* in order and, if the server grants a whole page, all of them up to a    *)
(* page of one nanosecond.                                                 *)
LEMMA PageOfWindow ==
    ASSUME stored \in [Ns -> 0..MaxPerNs], NEW w \in [lo : Ns, hi : Ns], w.lo <= w.hi,
           NEW p, p = Page(w)
    PROVE  /\ p \in Seq(Ns) /\ InOrder(p)
           /\ \A i \in 1..Len(p) : w.lo <= p[i] /\ p[i] <= w.hi
           /\ ServerLimit >= PageLimit /\ (Len(p) < PageLimit \/ w.lo = w.hi) =>
                 \A t \in Ns : w.lo <= t /\ t <= w.hi =>
                    Count(p, t) >= Least(stored[t], PageLimit) /\ Count(p, t) <= stored[t]
<1> DEFINE L     == Lines(w.lo, w.hi)
           limit == IF ServerLimit < PageLimit THEN FallbackLimit ELSE PageLimit
           m     == Least(limit, Len(L))
<1>1. /\ L \in Seq(Ns) /\ InOrder(L)
      /\ \A i \in 1..Len(L) : w.lo <= L[i] /\ L[i] <= w.hi
      /\ \A t \in Ns : w.lo <= t /\ t <= w.hi => Count(L, t) = stored[t]
  BY LinesOfWindow
<1>2. p = SubSeq(L, 1, m)
  BY DEF Page
<1> HIDE DEF L
<1>3. Len(L) \in Nat /\ limit \in Nat /\ m \in 0..Len(L)
  BY <1>1 DEF Least
<1>4. p \in Seq(Ns) /\ Len(p) = m /\ \A i \in 1..m : p[i] = L[i] /\ i \in 1..Len(L)
  <2> HIDE DEF m
  <2> QED BY <1>1, <1>2, <1>3
<1>5. InOrder(p)
  <2>1. ASSUME NEW i \in 2..Len(p) PROVE p[i - 1] <= p[i]
    <3>1. i \in 1..m /\ i - 1 \in 1..m /\ i \in 2..Len(L)
      BY <1>3, <1>4
    <3> QED BY <1>1, <1>4, <3>1 DEF InOrder
  <2> QED BY <2>1 DEF InOrder
<1>6. \A i \in 1..Len(p) : w.lo <= p[i] /\ p[i] <= w.hi
  BY <1>1, <1>4
<1>7. ASSUME ServerLimit >= PageLimit, Len(p) < PageLimit \/ w.lo = w.hi,
             NEW t \in Ns, w.lo <= t, t <= w.hi
      PROVE  Count(p, t) >= Least(stored[t], PageLimit) /\ Count(p, t) <= stored[t]
  <2>1. limit = PageLimit
    BY <1>7
  <2>2. stored[t] \in Nat /\ Count(L, t) = stored[t]
    BY <1>1, <1>7
  <2>3. CASE Len(p) < PageLimit
    <3>1. Len(p) = Len(L)
      BY <1>3, <1>4, <2>1, <2>3 DEF Least
    <3>2. /\ p \in Seq(Ns) /\ L \in Seq(Ns) /\ Len(p) = Len(L)
          /\ \A i \in 1..Len(p) : p[i] = L[i]
      BY <1>1, <1>4, <3>1
    <3>3. p = L
      BY <3>2, SeqEqual
    <3> QED BY <2>2, <3>3 DEF Least
  <2>4. CASE w.lo = w.hi
    <3>1. w.lo \in Nat /\ t \in Nat /\ \A i \in 1..Len(L) : L[i] \in Nat
      BY <1>1 DEF Ns
    <3>2. \A i \in 1..Len(L) : L[i] = t
      BY <1>1, <1>7, <2>4, <3>1
    <3>3. \A i \in 1..Len(p) : p[i] = t
      BY <1>4, <3>2
    <3>4. Len(L) = stored[t]
      BY <1>1, <2>2, <3>2, CountIsNat
    <3>5. Count(p, t) = m
      BY <1>4, <3>3, CountIsNat
    <3> QED BY <1>3, <2>1, <2>2, <3>4, <3>5 DEF Least
  <2> QED BY <1>7, <2>3, <2>4
<1> QED BY <1>4, <1>5, <1>6, <1>7

-----------------------------------------------------------------------------
(* LogExport: the windows on the stack.                                    *)

(* They follow one another up to the end of the period.                    *)
Windows(s) ==
    /\ s \in Seq([lo : Ns, hi : Ns])
    /\ \A i \in 1..Len(s) : s[i].lo <= s[i].hi
    /\ \A i \in 1..Len(s) : i + 1 \in 1..Len(s) => s[i + 1].lo = s[i].hi + 1
    /\ s # <<>> => s[Len(s)].hi = LastNs

(* Where the export has got to.                                            *)
Edge(s) == IF s = <<>> THEN LastNs + 1 ELSE s[1].lo

(* The elements of a sequence.                                             *)
LEMMA SeqElem ==
    ASSUME NEW S, NEW s \in Seq(S), NEW i \in 1..Len(s)
    PROVE  s[i] \in S
OBVIOUS

(* Windows that follow one another are disjoint and in order.              *)
LEMMA WindowsInOrder ==
    ASSUME NEW s, Windows(s)
    PROVE  /\ s \in Seq([lo : Ns, hi : Ns])
           /\ \A i \in 1..Len(s) : /\ s[i].lo <= s[i].hi
                                   /\ i > 1 => s[i - 1].hi < s[i].lo
<1>1. ASSUME NEW i \in 1..Len(s), i > 1 PROVE s[i - 1].hi < s[i].lo
  <2>1. i - 1 \in 1..Len(s) /\ (i - 1) + 1 = i /\ Len(s) \in Nat
    BY <1>1 DEF Windows
  <2>2. s[i].lo = s[i - 1].hi + 1
    BY <2>1 DEF Windows
  <2>3. s[i - 1].hi \in Nat
    <3>1. s[i - 1] \in [lo : Ns, hi : Ns]
      BY <2>1, SeqElem DEF Windows
    <3> QED BY <3>1 DEF Ns
  <2> QED BY <2>2, <2>3
<1> QED BY <1>1 DEF Windows

(* The top window is done.                                                 *)
LEMMA TailOfWindows ==
    ASSUME NEW s, Windows(s), s # <<>>
    PROVE  /\ s[1] \in [lo : Ns, hi : Ns] /\ s[1].lo <= s[1].hi /\ Edge(s) = s[1].lo
           /\ Windows(Tail(s)) /\ Edge(Tail(s)) = s[1].hi + 1
<1> DEFINE r == Tail(s)
<1>1. s \in Seq([lo : Ns, hi : Ns]) /\ Len(s) \in Nat /\ 1 \in 1..Len(s) /\ Len(s) \in 1..Len(s)
  BY DEF Windows
<1>2. s[1] \in [lo : Ns, hi : Ns] /\ s[1].lo <= s[1].hi /\ Edge(s) = s[1].lo
  <2>1. s[1] \in [lo : Ns, hi : Ns]
    BY <1>1, SeqElem
  <2>2. s[1].lo <= s[1].hi
    BY <1>1 DEF Windows
  <2> QED BY <2>1, <2>2 DEF Edge
<1>3. r \in Seq([lo : Ns, hi : Ns]) /\ Len(r) = Len(s) - 1
      /\ \A i \in 1..Len(r) : r[i] = s[i + 1] /\ i + 1 \in 1..Len(s)
  BY <1>1
<1> HIDE DEF r
<1>4. \A i \in 1..Len(r) : r[i].lo <= r[i].hi
  BY <1>3 DEF Windows
<1>5. ASSUME NEW i \in 1..Len(r), i + 1 \in 1..Len(r) PROVE r[i + 1].lo = r[i].hi + 1
  <2>1. r[i] = s[i + 1] /\ r[i + 1] = s[(i + 1) + 1] /\ i + 1 \in 1..Len(s) /\ (i + 1) + 1 \in 1..Len(s)
    BY <1>3, <1>5
  <2> QED BY <2>1 DEF Windows
<1>6. ASSUME r # <<>> PROVE r[Len(r)].hi = LastNs
  <2>1. Len(r) \in 1..Len(r) /\ Len(r) + 1 = Len(s)
    BY <1>1, <1>3, <1>6
  <2>2. r[Len(r)] = s[Len(s)]
    BY <1>3, <2>1
  <2> QED BY <2>2 DEF Windows
<1>7. Edge(r) = s[1].hi + 1
  <2>1. CASE r = <<>>
    <3>1. Len(s) = 1
      BY <1>1, <1>3, <2>1
    <3>2. s[1].hi = LastNs
      BY <3>1 DEF Windows
    <3> QED BY <2>1, <3>2 DEF Edge
  <2>2. CASE r # <<>>
    <3>1. 1 \in 1..Len(r) /\ 1 + 1 \in 1..Len(s)
      BY <1>1, <1>3, <2>2
    <3>2. r[1] = s[1 + 1] /\ s[1 + 1].lo = s[1].hi + 1
      BY <1>1, <1>3, <3>1 DEF Windows
    <3> QED BY <2>2, <3>2 DEF Edge
  <2> QED BY <2>1, <2>2
<1> QED BY <1>2, <1>3, <1>4, <1>5, <1>6, <1>7 DEF Windows, r

(* The top window is halved.                                               *)
LEMMA HalvesOfWindow ==
    ASSUME NEW s, Windows(s), s # <<>>, NEW mid \in Nat, s[1].lo <= mid, mid < s[1].hi,
           NEW r, r = <<[lo |-> s[1].lo, hi |-> mid], [lo |-> mid + 1, hi |-> s[1].hi]>> \o Tail(s)
    PROVE  Windows(r) /\ Edge(r) = Edge(s) /\ r # <<>>
<1> DEFINE W == [lo : Ns, hi : Ns]
           a == [lo |-> s[1].lo, hi |-> mid]
           b == [lo |-> mid + 1, hi |-> s[1].hi]
<1>1. s \in Seq(W) /\ Len(s) \in Nat /\ 1 \in 1..Len(s) /\ Len(s) \in 1..Len(s)
  BY DEF Windows
<1>2. s[1] \in W /\ s[1].lo \in Nat /\ s[1].hi \in Nat /\ s[1].hi <= LastNs /\ s[1].lo \in Ns /\ s[1].hi \in Ns
  <2>1. s[1] \in W
    BY <1>1, SeqElem
  <2> QED BY <2>1 DEF Ns
<1>3. mid \in Ns /\ mid + 1 \in Ns
  BY <1>2 DEF Ns
<1>4. a \in W /\ b \in W /\ a.lo = s[1].lo /\ a.hi = mid /\ b.lo = mid + 1 /\ b.hi = s[1].hi
  BY <1>2, <1>3
<1>5. r = <<a, b>> \o Tail(s)
  OBVIOUS
<1> HIDE DEF a, b, W
<1>6. r \in Seq(W) /\ Len(r) = Len(s) + 1 /\ r[1] = a /\ r[2] = b
  BY <1>1, <1>4, <1>5
<1>7. ASSUME NEW i \in 3..Len(r) PROVE r[i] = s[i - 1] /\ i - 1 \in 1..Len(s)
  <2>1. Tail(s) \in Seq(W) /\ Len(Tail(s)) = Len(s) - 1 /\ i - 2 \in 1..Len(Tail(s))
    BY <1>1, <1>6, <1>7
  <2>2. <<a, b>> \in Seq(W) /\ Len(<<a, b>>) = 2
    BY <1>4
  <2>3. (<<a, b>> \o Tail(s))[i] = Tail(s)[i - 2]
    BY <1>6, <1>7, <2>1, <2>2
  <2>4. Tail(s)[i - 2] = s[(i - 2) + 1]
    BY <1>1, <2>1
  <2>5. (i - 2) + 1 = i - 1 /\ i - 1 \in 1..Len(s)
    BY <1>1, <1>6, <1>7
  <2> QED BY <1>5, <2>3, <2>4, <2>5
<1>8. \A i \in 1..Len(r) : i = 1 \/ i = 2 \/ i \in 3..Len(r)
  BY <1>1, <1>6
<1>9. \A i \in 1..Len(r) : r[i].lo <= r[i].hi
  BY <1>2, <1>4, <1>6, <1>7, <1>8 DEF Windows
<1>10. ASSUME NEW i \in 1..Len(r), i + 1 \in 1..Len(r) PROVE r[i + 1].lo = r[i].hi + 1
  <2>1. CASE i = 1
    BY <1>4, <1>6, <2>1
  <2>2. CASE i = 2
    <3>1. 1 + 1 \in 1..Len(s) /\ 3 \in 3..Len(r)
      BY <1>1, <1>6, <1>10, <2>2
    <3>2. r[3] = s[1 + 1]
      BY <1>7, <3>1
    <3>3. s[1 + 1].lo = s[1].hi + 1
      BY <1>1, <3>1 DEF Windows
    <3>4. i + 1 = 3 /\ r[i].hi = s[1].hi
      BY <1>4, <1>6, <2>2
    <3> QED BY <3>2, <3>3, <3>4
  <2>3. CASE i \in 3..Len(r)
    <3>1. i + 1 \in 3..Len(r) /\ (i + 1) - 1 = (i - 1) + 1
      BY <1>10, <2>3
    <3>2. r[i] = s[i - 1] /\ r[i + 1] = s[(i - 1) + 1] /\ i - 1 \in 1..Len(s) /\ (i - 1) + 1 \in 1..Len(s)
      BY <1>7, <2>3, <3>1
    <3> QED BY <3>2 DEF Windows
  <2> QED BY <1>8, <2>1, <2>2, <2>3
<1>11. r[Len(r)].hi = LastNs
  <2>1. CASE Len(s) = 1
    <3>1. s[1].hi = LastNs
      BY <2>1 DEF Windows
    <3>2. Len(r) = 2
      BY <1>6, <2>1
    <3> QED BY <1>4, <1>6, <3>1, <3>2
  <2>2. CASE Len(s) # 1
    <3>1. Len(r) \in 3..Len(r) /\ Len(r) - 1 = Len(s)
      <4>1. \A m, n \in Nat : m \in 1..m /\ m # 1 /\ n = m + 1 => n \in 3..n /\ n - 1 = m
        OBVIOUS
      <4>2. Len(r) \in Nat /\ Len(r) = Len(s) + 1
        BY <1>6
      <4> QED BY <1>1, <2>2, <4>1, <4>2
    <3>2. r[Len(r)] = s[Len(s)]
      BY <1>7, <3>1
    <3> QED BY <3>2 DEF Windows
  <2> QED BY <2>1, <2>2
<1>12. r # <<>> /\ Edge(r) = s[1].lo /\ Edge(s) = s[1].lo
  <2>1. r # <<>>
    BY <1>1, <1>6
  <2> QED BY <1>4, <1>6, <2>1 DEF Edge
<1> QED BY <1>6, <1>9, <1>10, <1>11, <1>12 DEF Windows, W

-----------------------------------------------------------------------------
(* LogExport: the invariant.                                               *)

(* The file, the row and the job follow the pipeline.                      *)
Artifact ==
    /\ pc \in {"idle", "submit", "open"} =>
          file = "none" /\ out = <<>> /\ stack = <<>> /\ row \in {"none", "pending"}
    /\ pc = "idle" => row = "none"
    /\ pc \in {"submit", "open"} => row = "pending"
    /\ pc = "fetch" => row = "running" /\ file = "part"
    /\ pc = "renamed" => file = "final" /\ row = "running"
    /\ pc = "linked" => file = "final" /\ row = "succeeded"
    /\ row = "succeeded" => file = "final" /\ linked
    /\ pc = "failing" => row \in {"running", "succeeded"}
    /\ pc = "failed" => row = "failed"
    /\ pc \in {"failing", "failed", "over"} => file # "part"
    /\ pc \in {"idle", "submit"} => job = "none"
    /\ Exporting => job = "running"

(* The row offers the download only when the file is in place and named,   *)
(* and no half-written file outlives the pipeline.                         *)
FileMatchesRow ==
    /\ row = "succeeded" => file = "final" /\ linked
    /\ pc \in {"failing", "failed", "over"} => file # "part"

Kept(t) == Count(out, t) >= Least(base[t], PageLimit) /\ Count(out, t) <= stored[t]

(* What lies before the top window has been exported, in order.            *)
Swept ==
    /\ InOrder(out) /\ Windows(stack)
    /\ pc = "fetch" => \A i \in 1..Len(out) : out[i] < Edge(stack)
    /\ \A t \in Ns : base[t] <= stored[t]
    /\ ServerLimit >= PageLimit =>
          /\ pc = "fetch" => \A t \in Ns : t < Edge(stack) => Kept(t)
          /\ pc \in {"renamed", "linked"} \/ row = "succeeded" => \A t \in Ns : Kept(t)

ExportIInv == TypeOK /\ Artifact /\ Swept

(* There are windows with nothing in them, and the whole period.           *)
LEMMA FirstWindows == Windows(<<>>) /\ Windows(<<[lo |-> 0, hi |-> LastNs]>>)
<1> DEFINE w == [lo |-> 0, hi |-> LastNs]
           s == <<w>>
<1>1. w \in [lo : Ns, hi : Ns] /\ w.lo <= w.hi /\ w.hi = LastNs
  BY DEF Ns
<1> HIDE DEF w
<1>2. s \in Seq([lo : Ns, hi : Ns]) /\ Len(s) = 1 /\ s[1] = w
  BY <1>1
<1>3. \A i \in 1..1 : i = 1 /\ i + 1 \notin 1..1
  OBVIOUS
<1> HIDE DEF s
<1>4. Windows(s)
  BY <1>1, <1>2, <1>3 DEF Windows
<1>5. Windows(<<>>)
  BY DEF Windows
<1> QED BY <1>4, <1>5 DEF s, w

(* The invariant holds at first.                                           *)
LEMMA ExportInit == Init => ExportIInv
<1> SUFFICES ASSUME Init PROVE ExportIInv
  OBVIOUS
<1> USE DEF Init
<1>1. TypeOK
  <2>1. row \in RowStates /\ job \in JobStates /\ pc \in Pcs
    BY DEF RowStates, JobStates, Pcs
  <2>2. stack = <<>> /\ out \in Seq(Ns) /\ Len(stack) = 0
    OBVIOUS
  <2>6. linked \in BOOLEAN
    OBVIOUS
  <2>3. stack \in Seq([lo : Ns, hi : Ns])
    BY <2>2
  <2>4. troubles \in 0..MaxTroubles /\ file \in {"none", "part", "final"}
    OBVIOUS
  <2>5. \A i \in 1..Len(stack) : FALSE
    BY <2>2
  <2> QED BY <2>1, <2>2, <2>3, <2>4, <2>5, <2>6 DEF TypeOK
<1>2. Artifact
  BY DEF Artifact, Exporting
<1>3. Swept
  <2>1. \A t \in Ns : stored[t] \in 0..MaxPerNs
    OBVIOUS
  <2>2. \A t \in Ns : base[t] <= stored[t]
    BY <2>1
  <2>3. InOrder(out)
    BY DEF InOrder
  <2> QED BY <2>2, <2>3, FirstWindows DEF Swept
<1> QED BY <1>1, <1>2, <1>3 DEF ExportIInv

(* Partition writes the page of the top window or halves the window.       *)
LEMMA PartitionStep ==
    ASSUME ExportIInv, Partition
    PROVE  TypeOK' /\ Swept'
<1> DEFINE w   == Head(stack)
           p   == Page(w)
           mid == (w.lo + w.hi) \div 2
<1>1. pc = "fetch" /\ stack # <<>> /\ UNCHANGED <<stored, base, row, job, pc, file, linked, troubles>>
  BY DEF Partition
<1>2. stored \in [Ns -> 0..MaxPerNs] /\ out \in Seq(Ns) /\ Windows(stack) /\ InOrder(out)
  BY DEF ExportIInv, TypeOK, Swept
<1>3. w = stack[1]
  BY <1>1, <1>2 DEF Windows
<1>4. /\ w \in [lo : Ns, hi : Ns] /\ w.lo <= w.hi /\ Edge(stack) = w.lo
      /\ Windows(Tail(stack)) /\ Edge(Tail(stack)) = w.hi + 1
  BY <1>1, <1>2, <1>3, TailOfWindows
<1>5. /\ p \in Seq(Ns) /\ InOrder(p) /\ \A i \in 1..Len(p) : w.lo <= p[i] /\ p[i] <= w.hi
      /\ ServerLimit >= PageLimit /\ (Len(p) < PageLimit \/ w.lo = w.hi) =>
           \A t \in Ns : w.lo <= t /\ t <= w.hi =>
              Count(p, t) >= Least(stored[t], PageLimit) /\ Count(p, t) <= stored[t]
  BY <1>2, <1>4, PageOfWindow
<1>6. w.lo \in Nat /\ w.hi \in Nat
  BY <1>4 DEF Ns
<1>7. \/ (Len(p) < PageLimit \/ w.lo = w.hi) /\ out' = out \o p /\ stack' = Tail(stack)
      \/ /\ ~(w.lo = w.hi) /\ out' = out
         /\ stack' = <<[lo |-> w.lo, hi |-> mid], [lo |-> mid + 1, hi |-> w.hi]>> \o Tail(stack)
  BY DEF Partition
<1>8. pc # "renamed" /\ pc # "linked" /\ row # "succeeded"
  BY <1>1 DEF ExportIInv, Artifact
<1>9. /\ \A i \in 1..Len(out) : out[i] < w.lo
      /\ \A t \in Ns : base[t] <= stored[t]
      /\ ServerLimit >= PageLimit => \A t \in Ns : t < w.lo => Kept(t)
  BY <1>1, <1>4 DEF ExportIInv, Swept
<1>10. \A i \in 1..Len(out) : out[i] \in Nat
  BY <1>2 DEF Ns
<1> HIDE DEF w, p, mid
<1>11. CASE (Len(p) < PageLimit \/ w.lo = w.hi) /\ out' = out \o p /\ stack' = Tail(stack)
  <2>1. out \in Seq(Nat) /\ p \in Seq(Nat) /\ out' \in Seq(Ns)
    <3>1. out' \in Seq(Ns)
      BY <1>2, <1>5, <1>11
    <3>2. \A s \in Seq(Ns) : s \in Seq(Nat)
      BY DEF Ns
    <3> QED BY <1>2, <1>5, <3>1, <3>2
  <2>2. ASSUME NEW i \in 1..Len(out), NEW j \in 1..Len(p) PROVE out[i] <= p[j]
    <3>1. p[j] \in Nat /\ w.lo <= p[j] /\ out[i] < w.lo
      BY <1>5, <1>9, <2>1, SeqElem
    <3> QED BY <1>6, <1>10, <3>1
  <2>3. InOrder(out')
    BY <1>2, <1>5, <1>11, <2>1, <2>2, InOrderCat
  <2>4. Windows(stack') /\ Edge(stack') = w.hi + 1
    BY <1>4, <1>11
  <2>5. ASSUME NEW i \in 1..Len(out') PROVE out'[i] < Edge(stack')
    <3>1. Len(out) \in Nat /\ Len(p) \in Nat /\ Len(out') = Len(out) + Len(p)
      BY <1>2, <1>5, <1>11
    <3>2. CASE i <= Len(out)
      <4>1. i \in 1..Len(out) /\ out'[i] = out[i]
        BY <1>2, <1>5, <1>11, <3>1, <3>2
      <4>2. out[i] \in Nat /\ out[i] < w.lo
        BY <1>9, <1>10, <4>1
      <4> QED BY <1>4, <1>6, <2>4, <4>1, <4>2
    <3>3. CASE ~(i <= Len(out))
      <4>1. i - Len(out) \in 1..Len(p) /\ out'[i] = p[i - Len(out)]
        BY <1>2, <1>5, <1>11, <3>1, <3>3
      <4>2. p[i - Len(out)] \in Nat /\ p[i - Len(out)] <= w.hi
        BY <1>5, <2>1, <4>1, SeqElem
      <4> QED BY <1>6, <2>4, <4>1, <4>2
    <3> QED BY <3>2, <3>3
  <2>6. ASSUME ServerLimit >= PageLimit, NEW t \in Ns, t < Edge(stack') PROVE Kept(t)'
    <3>1. t \in Nat /\ t <= w.hi
      BY <1>6, <2>4, <2>6 DEF Ns
    <3>2. Count(out', t) = Count(out, t) + Count(p, t)
      BY <1>2, <1>5, <1>11, CountCat
    <3>3. Count(out, t) \in Nat /\ Count(p, t) \in Nat
      BY <1>2, <1>5, CountIsNat
    <3>4. stored[t] \in Nat /\ base[t] \in Nat /\ base[t] <= stored[t]
      BY <1>2, <1>9 DEF ExportIInv, TypeOK
    <3>5. CASE t < w.lo
      <4>1. \A j \in 1..Len(p) : p[j] # t
        <5>1. ASSUME NEW j \in 1..Len(p) PROVE p[j] # t
          <6>1. p[j] \in Nat /\ w.lo <= p[j]
            BY <1>5, <2>1, SeqElem
          <6> QED BY <1>6, <3>1, <3>5, <6>1
        <5> QED BY <5>1
      <4>2. Count(p, t) = 0
        BY <1>5, <4>1, CountIsNat
      <4>3. Kept(t)
        BY <1>9, <2>6, <3>5
      <4> QED BY <1>1, <3>2, <3>3, <4>2, <4>3 DEF Kept
    <3>6. CASE ~(t < w.lo)
      <4>1. w.lo <= t
        BY <1>6, <3>1, <3>6
      <4>2. \A i \in 1..Len(out) : out[i] # t
        BY <1>6, <1>9, <1>10, <3>1, <4>1
      <4>3. Count(out, t) = 0
        BY <1>2, <4>2, CountIsNat
      <4>4. Count(p, t) >= Least(stored[t], PageLimit) /\ Count(p, t) <= stored[t]
        BY <1>5, <1>11, <2>6, <3>1, <4>1
      <4>5. Count(out', t) = Count(p, t)
        BY <3>2, <3>3, <4>3
      <4> QED BY <1>1, <3>3, <3>4, <4>4, <4>5 DEF Kept, Least
    <3> QED BY <3>5, <3>6
  <2>7. TypeOK'
    BY <1>1, <2>1, <2>4, WindowsInOrder DEF ExportIInv, TypeOK
  <2>8. Swept'
    BY <1>1, <1>8, <1>9, <2>3, <2>4, <2>5, <2>6 DEF Swept
  <2> QED BY <2>7, <2>8
<1>12. CASE /\ ~(w.lo = w.hi) /\ out' = out
            /\ stack' = <<[lo |-> w.lo, hi |-> mid], [lo |-> mid + 1, hi |-> w.hi]>> \o Tail(stack)
  <2>1. mid \in Nat /\ w.lo <= mid /\ mid < w.hi
    <3>1. mid = (w.lo + w.hi) \div 2
      BY DEF mid
    <3> QED BY <1>4, <1>6, <1>12, <3>1
  <2>2. Windows(stack') /\ Edge(stack') = w.lo
    <3>1. stack' = <<[lo |-> stack[1].lo, hi |-> mid], [lo |-> mid + 1, hi |-> stack[1].hi]>> \o Tail(stack)
      BY <1>3, <1>12
    <3>2. stack[1].lo <= mid /\ mid < stack[1].hi
      BY <1>3, <2>1
    <3>3. Windows(stack') /\ Edge(stack') = Edge(stack)
      BY <1>1, <1>2, <2>1, <3>1, <3>2, HalvesOfWindow
    <3> QED BY <1>4, <3>3
  <2>3. \A t : Kept(t)' = Kept(t)
    BY <1>1, <1>12 DEF Kept
  <2>4. TypeOK'
    BY <1>1, <1>2, <1>12, <2>2, WindowsInOrder DEF ExportIInv, TypeOK
  <2>5. Swept'
    BY <1>1, <1>2, <1>8, <1>9, <1>12, <2>2, <2>3 DEF Swept
  <2> QED BY <2>4, <2>5
<1> QED BY <1>7, <1>11, <1>12

(* Every action keeps the types.                                           *)
LEMMA ExportTypeStep == ExportIInv /\ [Next]_vars => TypeOK'
<1> SUFFICES ASSUME ExportIInv, [Next]_vars PROVE TypeOK'
  OBVIOUS
<1>1. CASE Partition
  BY <1>1, PartitionStep
<1> USE DEF ExportIInv, TypeOK, RowStates, JobStates, Pcs
<1>2. CASE Create
  BY <1>2 DEF Create, Trouble
<1>3. CASE Submit
  BY <1>3 DEF Submit, Trouble
<1>4. CASE SubmitFails
  BY <1>4 DEF SubmitFails, Trouble
<1>5. CASE Open
  BY <1>5, FirstWindows, WindowsInOrder DEF Open
<1>6. CASE OpenFails
  <2>1. troubles' \in 0..MaxTroubles
    BY <1>6 DEF OpenFails, Trouble
  <2> QED BY <1>6, <2>1 DEF OpenFails
<1>7. CASE PartitionFails
  BY <1>7 DEF PartitionFails, Trouble
<1>8. CASE Rename
  BY <1>8 DEF Rename, Trouble
<1>9. CASE LinkRow
  BY <1>9 DEF LinkRow, Trouble
<1>10. CASE LinkFails
  BY <1>10 DEF LinkFails, Trouble
<1>11. CASE FinalizeJob
  BY <1>11 DEF FinalizeJob, Trouble
<1>12. CASE FailRow
  BY <1>12 DEF FailRow, Trouble
<1>13. CASE FailJob
  BY <1>13 DEF FailJob, Trouble
<1>14. CASE FailFails
  BY <1>14 DEF FailFails, Trouble
<1>15. CASE ShutDown
  BY <1>15 DEF ShutDown, Trouble
<1>16. CASE Arrive
  BY <1>16 DEF Arrive, Trouble
<1>17. CASE UNCHANGED vars
  BY <1>17 DEF vars
<1> QED BY <1>1, <1>2, <1>3, <1>4, <1>5, <1>6, <1>7, <1>8, <1>9, <1>10, <1>11, <1>12, <1>13,
           <1>14, <1>15, <1>16, <1>17 DEF Next, Progress
(* File and row go with the pipeline.                                      *)
LEMMA ArtifactStep == ExportIInv /\ [Next]_vars => Artifact'
<1> SUFFICES ASSUME ExportIInv, [Next]_vars PROVE Artifact'
  OBVIOUS
<1>1. CASE Partition
  BY <1>1 DEF Partition, ExportIInv, Artifact, Exporting
<1> USE DEF ExportIInv, Artifact, TypeOK, Exporting
<1>2. CASE Create
  BY <1>2 DEF Create, Trouble
<1>3. CASE Submit
  BY <1>3 DEF Submit, Trouble
<1>4. CASE SubmitFails
  BY <1>4 DEF SubmitFails, Trouble
<1>5. CASE Open
  BY <1>5 DEF Open, Trouble
<1>6. CASE OpenFails
  BY <1>6 DEF OpenFails, Trouble
<1>7. CASE PartitionFails
  BY <1>7 DEF PartitionFails, Trouble
<1>8. CASE Rename
  BY <1>8 DEF Rename, Trouble
<1>9. CASE LinkRow
  BY <1>9 DEF LinkRow, Trouble
<1>10. CASE LinkFails
  BY <1>10 DEF LinkFails, Trouble
<1>11. CASE FinalizeJob
  BY <1>11 DEF FinalizeJob, Trouble
<1>12. CASE FailRow
  BY <1>12 DEF FailRow, Trouble
<1>13. CASE FailJob
  BY <1>13 DEF FailJob, Trouble
<1>14. CASE FailFails
  BY <1>14 DEF FailFails, Trouble
<1>15. CASE ShutDown
  BY <1>15 DEF ShutDown, Trouble
<1>16. CASE Arrive
  BY <1>16 DEF Arrive, Trouble
<1>17. CASE UNCHANGED vars
  BY <1>17 DEF vars
<1> QED BY <1>1, <1>2, <1>3, <1>4, <1>5, <1>6, <1>7, <1>8, <1>9, <1>10, <1>11, <1>12, <1>13,
           <1>14, <1>15, <1>16, <1>17 DEF Next, Progress
(* No line is passed over.                                                 *)
LEMMA SweptStep == ExportIInv /\ [Next]_vars => Swept'
<1> SUFFICES ASSUME ExportIInv, [Next]_vars PROVE Swept'
  OBVIOUS
<1>1. CASE Partition
  BY <1>1, PartitionStep
<1> USE DEF ExportIInv, Swept, Artifact
<1>2. CASE Create
  <2>1. \A t \in Ns : stored[t] <= stored[t]
    BY DEF TypeOK
  <2> QED BY <1>2, <2>1 DEF Create, TypeOK
<1>3. CASE Submit
  <2>1. \A t : Kept(t)' = Kept(t)
    BY <1>3 DEF Submit, Kept
  <2> QED BY <1>3, <2>1, FirstWindows DEF Submit, Trouble
<1>4. CASE SubmitFails
  <2>1. \A t : Kept(t)' = Kept(t)
    BY <1>4 DEF SubmitFails, Kept
  <2> QED BY <1>4, <2>1, FirstWindows DEF SubmitFails, Trouble
<1>5. CASE Open
  <2>1. out' = <<>> /\ UNCHANGED <<stored, base>> /\ row' = "running" /\ pc' = "fetch"
    BY <1>5 DEF Open
  <2>2. Edge(stack') = 0 /\ Windows(stack')
    BY <1>5, FirstWindows DEF Open, Edge
  <2>3. \A t \in Ns : ~(t < 0)
    BY DEF Ns
  <2> QED BY <2>1, <2>2, <2>3 DEF InOrder
<1>6. CASE OpenFails
  <2>1. \A t : Kept(t)' = Kept(t)
    BY <1>6 DEF OpenFails, Kept
  <2> QED BY <1>6, <2>1, FirstWindows DEF OpenFails, Trouble
<1>7. CASE PartitionFails
  <2>1. \A t : Kept(t)' = Kept(t)
    BY <1>7 DEF PartitionFails, Kept
  <2> QED BY <1>7, <2>1, FirstWindows DEF PartitionFails, Trouble
<1>8. CASE Rename
  <2>1. \A t : Kept(t)' = Kept(t)
    BY <1>8 DEF Rename, Kept
  <2>2. \A t \in Ns : t < Edge(stack)
    BY <1>8 DEF Rename, Edge, Ns
  <2> QED BY <1>8, <2>1, <2>2 DEF Rename
<1>9. CASE LinkRow
  <2>1. \A t : Kept(t)' = Kept(t)
    BY <1>9 DEF LinkRow, Kept
  <2> QED BY <1>9, <2>1, FirstWindows DEF LinkRow, Trouble
<1>10. CASE LinkFails
  <2>1. \A t : Kept(t)' = Kept(t)
    BY <1>10 DEF LinkFails, Kept
  <2> QED BY <1>10, <2>1, FirstWindows DEF LinkFails, Trouble
<1>11. CASE FinalizeJob
  <2>1. \A t : Kept(t)' = Kept(t)
    BY <1>11 DEF FinalizeJob, Kept
  <2> QED BY <1>11, <2>1, FirstWindows DEF FinalizeJob, Trouble
<1>12. CASE FailRow
  <2>1. \A t : Kept(t)' = Kept(t)
    BY <1>12 DEF FailRow, Kept
  <2> QED BY <1>12, <2>1, FirstWindows DEF FailRow, Trouble
<1>13. CASE FailJob
  <2>1. \A t : Kept(t)' = Kept(t)
    BY <1>13 DEF FailJob, Kept
  <2> QED BY <1>13, <2>1, FirstWindows DEF FailJob, Trouble
<1>14. CASE FailFails
  <2>1. \A t : Kept(t)' = Kept(t)
    BY <1>14 DEF FailFails, Kept
  <2> QED BY <1>14, <2>1, FirstWindows DEF FailFails, Trouble
<1>15. CASE ShutDown
  <2>1. \A t : Kept(t)' = Kept(t)
    BY <1>15 DEF ShutDown, Kept
  <2> QED BY <1>15, <2>1, FirstWindows DEF ShutDown, Trouble
<1>16. CASE Arrive
  <2>1. UNCHANGED <<base, row, pc, stack, out>> /\ pc = "fetch"
    BY <1>16 DEF Arrive
  <2>2. \A t \in Ns : stored[t] \in Nat /\ base[t] \in Nat /\ stored'[t] \in {stored[t], stored[t] + 1}
    BY <1>16 DEF Arrive, TypeOK
  <2>3. ASSUME NEW t \in Ns PROVE base'[t] <= stored'[t]
    BY <2>1, <2>2
  <2>4. ASSUME NEW t \in Ns, Kept(t) PROVE Kept(t)'
    <3>1. Count(out, t) \in Nat
      BY CountIsNat DEF TypeOK
    <3> QED BY <2>1, <2>2, <2>4, <3>1 DEF Kept
  <2>5. row = "running"
    BY <2>1
  <2> QED BY <2>1, <2>3, <2>4, <2>5
<1>17. CASE UNCHANGED vars
  <2>1. \A t : Kept(t)' = Kept(t)
    BY <1>17 DEF vars, Kept
  <2> QED BY <1>17, <2>1 DEF vars
<1> QED BY <1>1, <1>2, <1>3, <1>4, <1>5, <1>6, <1>7, <1>8, <1>9, <1>10, <1>11, <1>12, <1>13,
           <1>14, <1>15, <1>16, <1>17 DEF Next, Progress

(* The parts together are inductive.                                       *)
LEMMA ExportStep == ExportIInv /\ [Next]_vars => ExportIInv'
BY ExportTypeStep, ArtifactStep, SweptStep DEF ExportIInv

(* The invariant holds in every reachable state.                           *)
THEOREM ExportIInvHolds == Spec => []ExportIInv
BY ExportInit, ExportStep, PTL DEF Spec

(* run_export_pipeline: the row offers a file only when it is in place,    *)
(* and no half-written file is left, whatever fails.                       *)
THEOREM FileMatchesRowHolds == Spec => []FileMatchesRow
<1>1. ExportIInv => FileMatchesRow
  BY DEF ExportIInv, Artifact, FileMatchesRow
<1> QED BY <1>1, ExportIInvHolds, PTL

(* The rows and the file of run_log_export_pipeline keep to Delivery.      *)
LEMMA ExportInitDelivers == Init => Export!Init
BY DEF Init, Export!Init, Exported, Exporting

LEMMA ExportUnchanged ==
    ASSUME row' = row, job' = job, file' = file, Exporting' = Exporting
    PROVE  UNCHANGED Export!vars
BY DEF Export!vars, Exported

LEMMA ExportStepDelivers == ExportIInv /\ [Next]_vars => [Export!Next]_(Export!vars)
<1> SUFFICES ASSUME ExportIInv, [Next]_vars PROVE [Export!Next]_(Export!vars)
  OBVIOUS
<1>0. TypeOK /\ Artifact
  BY DEF ExportIInv
<1>1. CASE Partition \/ LinkFails \/ Arrive \/ SubmitFails \/ UNCHANGED vars
  <2>1. row' = row /\ job' = job /\ file' = file
    BY <1>1 DEF Partition, LinkFails, Arrive, SubmitFails, vars
  <2>2. Exporting' = Exporting
    BY <1>1 DEF Partition, LinkFails, Arrive, SubmitFails, vars, Exporting
  <2> QED BY <2>1, <2>2, ExportUnchanged
<1>2. CASE Create
  BY <1>0, <1>2 DEF Create, Artifact, Exporting, Exported, Export!Next, Export!Ask
<1>3. CASE Submit
  BY <1>0, <1>3 DEF Submit, Artifact, Exporting, Exported, Export!Next, Export!Start
<1>4. CASE Open
  BY <1>0, <1>4 DEF Open, Artifact, Exporting, Exported, Export!Next, Export!Begin
<1>5. CASE PartitionFails
  <2>1. Exporting /\ Exporting' /\ UNCHANGED <<row, job>> /\ file' = "none"
    BY <1>5 DEF PartitionFails, Exporting
  <2>2. CASE file = "part"
    BY <2>1, <2>2 DEF Exported, Export!Next, Export!Discard
  <2>3. CASE file = "none"
    BY <2>1, <2>3, ExportUnchanged
  <2> QED BY <1>0, <1>5, <2>2, <2>3 DEF PartitionFails, TypeOK, Artifact
<1>6. CASE Rename
  <2>1. Exporting /\ Exporting' /\ UNCHANGED <<row, job>> /\ file' = "final"
    BY <1>6 DEF Rename, Exporting
  <2>2. file = "part"
    BY <1>0, <1>6 DEF Rename, Artifact
  <2> QED BY <2>1, <2>2 DEF Exported, Export!Next, Export!Complete
<1>7. CASE LinkRow
  BY <1>0, <1>7 DEF LinkRow, Artifact, Exporting, Exported, Export!Next, Export!Succeed
<1>8. CASE FinalizeJob \/ FailJob
  BY <1>0, <1>8 DEF FinalizeJob, FailJob, Artifact, Exporting, Exported, Export!Next,
     Export!Finish
<1>9. CASE FailRow
  BY <1>0, <1>9 DEF FailRow, TypeOK, Artifact, Exporting, Exported, Export!Next, Export!Fail
<1>10. CASE OpenFails \/ FailFails \/ ShutDown
  <2>1. Exporting /\ ~Exporting' /\ row' = row /\ job' \in {job, "cancelled"}
    BY <1>10 DEF OpenFails, FailFails, ShutDown, Exporting
  <2>2. file' = IF file = "part" THEN "none" ELSE file
    BY <1>0, <1>10 DEF OpenFails, FailFails, ShutDown, Artifact
  <2>3. Exporting' = FALSE
    BY <2>1 DEF Exporting
  <2>4. Exported' = IF Exported = "partial" THEN "none" ELSE Exported
    BY <2>2 DEF Exported
  <2> QED BY <2>1, <2>3, <2>4 DEF Export!Next, Export!Abort
<1> QED BY <1>1, <1>2, <1>3, <1>4, <1>5, <1>6, <1>7, <1>8, <1>9, <1>10 DEF Next, Progress

(* Whatever fails, row, job and file of an export that was not cut off     *)
(* tell one story, and how it ended is final; one that was leaves no half  *)
(* of a file.                                                              *)
THEOREM ExportDelivered == Spec => ExportDelivers
BY ExportInitDelivers, ExportStepDelivers, ExportIInvHolds, PTL
DEF Spec, ExportDelivers, Export!Spec

(* _export_partition: halving windows until a page is not full loses and   *)
(* repeats no line and keeps the order of time, for any period, any lines  *)
(* and any size of a page, on a server that grants a whole page.           *)
THEOREM ExportCompleteHolds ==
    ASSUME ServerLimit >= PageLimit
    PROVE  Spec => []ExportComplete
<1>1. ExportIInv => ExportComplete
  BY DEF ExportIInv, Swept, Kept, InOrder, ExportComplete
<1> QED BY <1>1, ExportIInvHolds, PTL

-----------------------------------------------------------------------------
(* What an implementation of Delivery has by that alone.                   *)

(* A row that has succeeded has its product, and a job that has succeeded  *)
(* or failed says what the row says.                                       *)
OneStory == /\ row = "succeeded" => Exported = "whole"
            /\ job \in {"succeeded", "failed"} => row = job

(* Delivery is enough for that: whatever implements it, as the pipeline of *)
(* an export does.                                                         *)
THEOREM DeliveryTells == Export!Spec => []OneStory
<1> DEFINE Inv == OneStory /\ (job \in {"succeeded", "failed"} => ~Exporting)
<1>1. Export!Init => Inv
  BY DEF Export!Init, OneStory
<1>2. Inv /\ [Export!Next]_Export!vars => Inv'
  <2> SUFFICES ASSUME Inv, [Export!Next]_Export!vars PROVE Inv'
    OBVIOUS
  <2>1. CASE Export!Ask \/ Export!Start \/ Export!Begin \/ Export!Complete \/ Export!Discard
    BY <2>1 DEF OneStory, Export!Ask, Export!Start, Export!Begin, Export!Complete, Export!Discard
  <2>2. CASE Export!Succeed \/ Export!Fail \/ Export!Finish \/ Export!Abort
    BY <2>2 DEF OneStory, Export!Succeed, Export!Fail, Export!Finish, Export!Abort
  <2>3. CASE UNCHANGED Export!vars
    BY <2>3 DEF OneStory, Export!vars
  <2> QED BY <2>1, <2>2, <2>3 DEF Export!Next
<1>3. Inv => OneStory
  OBVIOUS
<1> QED BY <1>1, <1>2, <1>3, PTL DEF Export!Spec
=============================================================================
