------------------------- MODULE K8sDiagnoseProofs -------------------------
(***************************************************************************)
(* Theorems about K8sDiagnose, for any clusters that are well-formed, any  *)
(* number of pods and any moves of the cluster between the GETs of a run.  *)
(***************************************************************************)
EXTENDS K8sDiagnose, SequenceTheorems, PositionLemmas, TLAPS

-----------------------------------------------------------------------------
(* What Iterator::find_map and find return.                                *)

LEMMA ContainerIndices ==
  ASSUME NEW s, Containers(s)
  PROVE  /\ Len(s) \in Nat /\ DOMAIN s = 1 .. Len(s)
         /\ \A i \in 1 .. Len(s) : s[i] \in ToSet(s)
         /\ \A k \in ToSet(s) : \E i \in 1 .. Len(s) : s[i] = k
<1>1. s \in Seq(ToSet(s))  BY DEF Containers
<1>2. Len(s) \in Nat /\ DOMAIN s = 1 .. Len(s)  BY <1>1
<1> QED  BY <1>2 DEF ToSet

(* The first issue is one of a container's own, and there is none only if  *)
(* no container has any.                                                   *)
LEMMA FirstIssueIsOne ==
  ASSUME NEW s, Containers(s)
  PROVE  IF Failures(s) = {} THEN FirstIssue(s) = "none"
                             ELSE FirstIssue(s) \in Failures(s)
<1> DEFINE Bad(c) == detect_container_issue(c) # "none"
           I == {i \in 1 .. Len(s) : Bad(s[i])}
           k == SelectInSeq(s, Bad)
           Four == {"CrashLoopBackOff", "ImagePullBackOff", "ErrImagePull", "OOMKilled"}
<1>1. k = IF I # {} THEN Min(I) ELSE 0  BY DEF SelectInSeq
<1>2. FirstIssue(s) = IF k = 0 THEN "none" ELSE detect_container_issue(s[k])
  BY DEF FirstIssue
<1>3. ASSUME NEW c \in ToSet(s)
      PROVE  IF Bad(c) THEN detect_container_issue(c) \in Four \intersect {c.waiting, c.last}
                       ELSE Four \intersect {c.waiting, c.last} = {}
  <2>1. /\ c.waiting # "OOMKilled"
        /\ c.last \notin {"CrashLoopBackOff", "ImagePullBackOff", "ErrImagePull"}
    BY DEF Containers
  <2> QED  BY <2>1 DEF detect_container_issue
<1>4. Failures(s) = Four \intersect UNION {{c.waiting, c.last} : c \in ToSet(s)}
  BY DEF Failures
<1>5. CASE I = {}
  <2>1. \A c \in ToSet(s) : ~ Bad(c)  BY <1>5, ContainerIndices
  <2>2. Failures(s) = {}  BY <1>3, <1>4, <2>1
  <2> QED  BY <1>1, <1>2, <1>5, <2>2
<1>6. CASE I # {}
  <2>1. I \subseteq Nat /\ Len(s) \in Nat  BY ContainerIndices
  <2>2. Min(I) \in I  BY <1>6, <2>1, MinIsLeast
  <2>3. k = Min(I) /\ k # 0 /\ Bad(s[k]) /\ s[k] \in ToSet(s)
    BY <1>1, <1>6, <2>1, <2>2, ContainerIndices
  <2>4. FirstIssue(s) = detect_container_issue(s[k])  BY <1>2, <2>3
  <2>5. detect_container_issue(s[k]) \in Four \intersect {s[k].waiting, s[k].last}
    BY <1>3, <2>3
  <2>6. detect_container_issue(s[k]) \in Failures(s)  BY <1>4, <2>3, <2>5
  <2> QED  BY <2>4, <2>6
<1> QED  BY <1>5, <1>6

LEMMA NoneIsNoFailure == \A s : "none" \notin Failures(s)
BY DEF Failures

(* What a pod is blamed for.                                               *)
LEMMA ClassifyPod ==
  ASSUME NEW pod, Containers(pod.containers), Containers(pod.inits),
         pod.ready \in {"True", "False", "Unknown", "absent"}
  PROVE  LET main   == Failures(pod.containers)
             init   == Failures(pod.inits)
             waits  == (IF pod.phase = "Pending" THEN {"Pending"} ELSE {})
                       \union (IF pod.ready \in {"False", "Unknown"} THEN {"NotReady"} ELSE {})
             causes == IF main # {} THEN main ELSE IF init # {} THEN init ELSE waits
             said   == classify_pod(pod)
         IN  /\ causes = {} => said.reason = "none"
             /\ causes # {} => /\ said.reason \in causes /\ said.reason # "none"
                               /\ said.init <=> main = {} /\ init # {}
<1> DEFINE main  == Failures(pod.containers)
           init  == Failures(pod.inits)
           m     == FirstIssue(pod.containers)
           f     == FirstIssue(pod.inits)
<1>1. /\ main = {} => m = "none"
      /\ main # {} => m \in main /\ m # "none"
  BY FirstIssueIsOne, NoneIsNoFailure
<1>2. /\ init = {} => f = "none"
      /\ init # {} => f \in init /\ f # "none"
  BY FirstIssueIsOne, NoneIsNoFailure
<1>3. CASE main # {}
  <2>1. classify_pod(pod) = [reason |-> m, init |-> FALSE]
    BY <1>1, <1>3 DEF classify_pod
  <2> QED  BY <1>1, <1>3, <2>1
<1>4. CASE main = {} /\ init # {}
  <2>1. classify_pod(pod) = [reason |-> f, init |-> TRUE]
    BY <1>1, <1>2, <1>4 DEF classify_pod
  <2> QED  BY <1>2, <1>4, <2>1
<1>5. CASE main = {} /\ init = {}
  <2>1. classify_pod(pod) =
          [reason |-> CASE pod.phase = "Pending" -> "Pending"
                        [] pod.phase # "Pending" /\ NotReady(pod) -> "NotReady"
                        [] OTHER -> "none",
           init |-> FALSE]
    BY <1>1, <1>2, <1>5 DEF classify_pod
  <2>2. NotReady(pod) <=> pod.ready \in {"False", "Unknown"}  BY DEF NotReady
  <2> QED  BY <1>5, <2>1, <2>2
<1> QED  BY <1>3, <1>4, <1>5

LEMMA UnhealthyPodsDescribe ==
  ASSUME NEW c, WellFormed(c), NEW p \in Pods
  PROVE  Describes({i \in unhealthy_pods(c.pods) : i.name = p}, c.pods[p])
<1> DEFINE pod    == c.pods[p]
           issues == {i \in unhealthy_pods(c.pods) : i.name = p}
           entry  == [name |-> p, issue |-> classify_pod(pod),
                      restart_count |-> restart_count(pod)]
<1>1. DOMAIN c.pods = Pods  BY DEF WellFormed
<1>2. issues = IF pod # Gone /\ classify_pod(pod).reason # "none" THEN {entry} ELSE {}
  <2> HIDE DEF entry
  <2>1. \A q \in Pods : [name |-> q, issue |-> classify_pod(c.pods[q]),
                         restart_count |-> restart_count(c.pods[q])].name = q
    OBVIOUS
  <2>2. unhealthy_pods(c.pods) =
          {[name |-> q, issue |-> classify_pod(c.pods[q]),
            restart_count |-> restart_count(c.pods[q])] :
             q \in {r \in Pods : c.pods[r] # Gone /\ classify_pod(c.pods[r]).reason # "none"}}
    BY <1>1, Zenon DEF unhealthy_pods, Present
  <2>3. CASE pod # Gone /\ classify_pod(pod).reason # "none"
    <3>1. entry \in issues  BY <2>1, <2>2, <2>3 DEF entry
    <3>2. \A i \in issues : i = entry  BY <2>1, <2>2 DEF entry
    <3> QED  BY <2>3, <3>1, <3>2
  <2>4. CASE ~ (pod # Gone /\ classify_pod(pod).reason # "none")
    <3>1. \A i \in issues : FALSE  BY <2>1, <2>2, <2>4
    <3> QED  BY <2>4, <3>1
  <2> QED  BY <2>3, <2>4
<1>3. CASE pod = Gone
  BY <1>2, <1>3 DEF Describes
<1>4. CASE pod # Gone
  <2>1. /\ Containers(pod.containers) /\ Containers(pod.inits)
        /\ pod.ready \in {"True", "False", "Unknown", "absent"}
    BY <1>4 DEF WellFormed
  <2> DEFINE main   == Failures(pod.containers)
             init   == Failures(pod.inits)
             waits  == (IF pod.phase = "Pending" THEN {"Pending"} ELSE {})
                       \union (IF pod.ready \in {"False", "Unknown"} THEN {"NotReady"} ELSE {})
             causes == IF main # {} THEN main ELSE IF init # {} THEN init ELSE waits
             said   == classify_pod(pod)
  <2>2. /\ causes = {} => said.reason = "none"
        /\ causes # {} => /\ said.reason \in causes /\ said.reason # "none"
                          /\ said.init <=> main = {} /\ init # {}
    BY <2>1, ClassifyPod
  <2>3. entry.issue = said  OBVIOUS
  <2> HIDE DEF causes, main, init, waits, said, entry
  <2>4. CASE causes = {}
    <3>1. issues = {}  BY <1>2, <2>2, <2>4 DEF said
    <3> QED  BY <1>4, <2>4, <3>1 DEF Describes, causes, main, init, waits
  <2>5. CASE causes # {}
    <3>1. issues = {entry}  BY <1>2, <1>4, <2>2, <2>5 DEF said
    <3>2. entry \in issues /\ issues = {entry} /\ entry.issue.reason \in causes
          /\ (entry.issue.init <=> main = {} /\ init # {})
      BY <2>2, <2>3, <2>5, <3>1
    <3> QED  BY <1>4, <2>5, <3>2 DEF Describes, causes, main, init, waits
  <2> QED  BY <2>4, <2>5
<1> QED  BY <1>3, <1>4

LEMMA LastTermination ==
  ASSUME NEW pod, Containers(pod.containers)
  PROVE  /\ last_termination(pod) = "none" <=>
              \A i \in DOMAIN pod.containers : pod.containers[i].last = "none"
         /\ last_termination(pod) \in {"none"} \union {k.last : k \in ToSet(pod.containers)}
<1> DEFINE s == pod.containers
           Ended(c) == c.last # "none"
           I == {i \in 1 .. Len(s) : Ended(s[i])}
           k == SelectInSeq(s, Ended)
<1>1. k = IF I # {} THEN Min(I) ELSE 0  BY DEF SelectInSeq
<1>2. last_termination(pod) = IF k = 0 THEN "none" ELSE s[k].last
  BY DEF last_termination
<1>3. CASE I = {}
  <2>1. \A i \in DOMAIN s : s[i].last = "none"  BY <1>3, ContainerIndices
  <2> QED  BY <1>1, <1>2, <1>3, <2>1
<1>4. CASE I # {}
  <2>1. I \subseteq Nat /\ Len(s) \in Nat  BY ContainerIndices
  <2>2. Min(I) \in I  BY <1>4, <2>1, MinIsLeast
  <2>3. Min(I) \in 1 .. Len(s) /\ s[Min(I)].last # "none"  BY <2>2
  <2>4. s[Min(I)] \in ToSet(s) /\ Min(I) \in DOMAIN s  BY <2>3, ContainerIndices
  <2>5. k = Min(I) /\ k # 0  BY <1>1, <1>4, <2>1, <2>3
  <2>6. last_termination(pod) = s[Min(I)].last  BY <1>2, <2>5
  <2> QED  BY <2>3, <2>4, <2>6
<1> QED  BY <1>3, <1>4

(* The threshold of 85 % in integers is the exact one.                     *)
THEOREM ThresholdIsExact ==
  ASSUME NEW usage \in Nat, NEW capacity \in Nat
  PROVE  OverThreshold(usage, capacity) <=> Uses(usage, capacity)
BY DEF OverThreshold, Uses

(* The first rungs of a ladder.                                            *)
Rungs(base, names) ==
  LET L == Ladder(base, names)
  IN  /\ DOMAIN L = 1 .. Len(names)
      /\ \A i \in 1 .. Len(names) : L[i].name = names[i]
      /\ L[1].worth = 1 /\ L[2].worth = base /\ L[3].worth = base * base
      /\ L[4].worth = base * base * base
      /\ Len(names) = 5 => L[5].worth = base * base * base * base

LEMMA LadderIs ==
  ASSUME NEW base \in Nat, NEW names, DOMAIN names = 1 .. Len(names), Len(names) \in {4, 5}
  PROVE  Rungs(base, names)
<1> DEFINE n == Len(names)
           Next1(h) == [i \in 1 .. n |-> IF i = 1 THEN 1 ELSE base * h[i - 1]]
           f == CHOOSE h : h = Next1(h)
           g == [i \in 1 .. n |-> IF i = 1 THEN 1 ELSE IF i = 2 THEN base
                                  ELSE IF i = 3 THEN base * base
                                  ELSE IF i = 4 THEN base * base * base
                                  ELSE base * base * base * base]
<1>1. n \in {4, 5} /\ DOMAIN names = 1 .. n  OBVIOUS
<1>2. Ladder(base, names) = [i \in 1 .. n |-> [name |-> names[i], worth |-> f[i]]]
  BY <1>1 DEF Ladder
<1>3. g = Next1(g)
  <2>1. ASSUME NEW i \in 1 .. n PROVE g[i] = Next1(g)[i]
    <3>1. base * base \in Nat /\ base * base * base \in Nat  OBVIOUS
    <3>2. /\ base * base = base * base
          /\ base * (base * base) = base * base * base
          /\ base * (base * base * base) = base * base * base * base
      OBVIOUS
    <3>3. CASE i = 1  BY <3>3
    <3>4. CASE i = 2  BY <1>1, <3>4
    <3>5. CASE i = 3  BY <1>1, <3>5
    <3>6. CASE i = 4  BY <1>1, <3>2, <3>6
    <3>7. CASE i = 5  BY <1>1, <3>2, <3>7
    <3> QED  BY <1>1, <3>3, <3>4, <3>5, <3>6, <3>7
  <2>2. DOMAIN g = 1 .. n /\ DOMAIN Next1(g) = 1 .. n  OBVIOUS
  <2>3. g = [i \in 1 .. n |-> g[i]] /\ Next1(g) = [i \in 1 .. n |-> Next1(g)[i]]  OBVIOUS
  <2> HIDE DEF g, Next1
  <2> QED  BY <2>1, <2>2, <2>3
<1>4. f = Next1(f)
  <2> HIDE DEF g, Next1
  <2> QED  BY <1>3
<1>5. \A i \in 1 .. n : f[i] = IF i = 1 THEN 1 ELSE base * f[i - 1]
  <2> HIDE DEF f
  <2>1. \A i \in 1 .. n : Next1(f)[i] = IF i = 1 THEN 1 ELSE base * f[i - 1]  OBVIOUS
  <2> HIDE DEF Next1
  <2> QED  BY <1>4, <2>1
<1> HIDE DEF f
<1>6. f[1] = 1  BY <1>1, <1>5
<1>7. f[2] = base  BY <1>1, <1>5, <1>6
<1>8. f[3] = base * base  BY <1>1, <1>5, <1>7
<1>9. f[4] = base * base * base
  <2>1. f[4] = base * f[3]  BY <1>1, <1>5
  <2> QED  BY <1>8, <2>1
<1>10. n = 5 => f[5] = base * base * base * base
  <2>1. n = 5 => f[5] = base * f[4]  BY <1>5
  <2> QED  BY <1>9, <2>1
<1> QED  BY <1>1, <1>2, <1>6, <1>7, <1>8, <1>9, <1>10 DEF Rungs

LEMMA FourOf ==
  ASSUME NEW t, NEW a, NEW b, NEW c, NEW d, t = <<a, b, c, d>>
  PROVE  DOMAIN t = 1 .. 4 /\ Len(t) = 4 /\ t[1] = a /\ t[2] = b /\ t[3] = c /\ t[4] = d
<1>2. DOMAIN t = 1 .. 4  OBVIOUS
<1>3. Len(t) = 4 OBVIOUS
<1>4. t[1] = a /\ t[2] = b OBVIOUS
<1>5. t[3] = c /\ t[4] = d OBVIOUS
<1> QED BY <1>2, <1>3, <1>4, <1>5

LEMMA FiveOf ==
  ASSUME NEW t, NEW a, NEW b, NEW c, NEW d, NEW e, t = <<a, b, c, d, e>>
  PROVE  /\ DOMAIN t = 1 .. 5 /\ Len(t) = 5
         /\ t[1] = a /\ t[2] = b /\ t[3] = c /\ t[4] = d /\ t[5] = e
<1>2. DOMAIN t = 1 .. 5  OBVIOUS
<1>3. Len(t) = 5 OBVIOUS
<1>4. t[1] = a /\ t[2] = b OBVIOUS
<1>5. t[3] = c /\ t[4] = d /\ t[5] = e OBVIOUS
<1> QED BY <1>2, <1>3, <1>4, <1>5
(* What the handlers parse is what the quantity is worth.                  *)
LEMMA CpuIsWorth ==
  ASSUME NEW q
  PROVE  parse_cpu_nanocores(q) = CpuWorth(q) /\ parse_cpu_nanocores(q) \in Nat
<1> DEFINE names == <<"n", "u", "m", "cores">>
           L == Ladder(Kilo, names)
           Of(i) == L[i].name = q.suffix
<1>1. /\ DOMAIN names = 1 .. 4 /\ Len(names) = 4
      /\ names[1] = "n" /\ names[2] = "u" /\ names[3] = "m" /\ names[4] = "cores"
  BY FourOf
<1> HIDE DEF names
<1>2. /\ DOMAIN L = 1 .. 4 /\ L[1].name = "n" /\ L[2].name = "u" /\ L[3].name = "m"
      /\ L[4].name = "cores" /\ L[1].worth = 1 /\ L[2].worth = Kilo
      /\ L[3].worth = Kilo * Kilo /\ L[4].worth = Kilo * Kilo * Kilo
  <2>1. /\ DOMAIN L = 1 .. Len(names) /\ \A i \in 1 .. Len(names) : L[i].name = names[i]
        /\ L[1].worth = 1 /\ L[2].worth = Kilo /\ L[3].worth = Kilo * Kilo
        /\ L[4].worth = Kilo * Kilo * Kilo
    <3>1. DOMAIN names = 1 .. Len(names) /\ Len(names) \in {4, 5} /\ Kilo \in Nat
      BY <1>1, UnitsAssumption
    <3>2. Rungs(Kilo, names)  BY <3>1, LadderIs
    <3> QED  BY <3>2 DEF Rungs
  <2> HIDE DEF L
  <2> QED  BY <1>1, <2>1
<1>3. CpuWorth(q) = IF q.number \notin Nat \/ ~ \E i \in DOMAIN L : Of(i) THEN 0
                    ELSE q.number * L[CHOOSE i \in DOMAIN L : Of(i)].worth
  BY DEF CpuWorth, Worth, names
<1> HIDE DEF L
<1>4. /\ DOMAIN CpuUnits = {"n", "u", "m", "cores"}
      /\ CpuUnits["n"] = 1 /\ CpuUnits["u"] = Kilo
      /\ CpuUnits["m"] = Kilo * Kilo /\ CpuUnits["cores"] = Kilo * Kilo * Kilo
  BY DEF CpuUnits
<1>5. ASSUME NEW k \in 1 .. 4, q.suffix = L[k].name
      PROVE  L[CHOOSE i \in DOMAIN L : Of(i)].worth = L[k].worth
  <2>1. \E i \in DOMAIN L : Of(i)  BY <1>2, <1>5
  <2>2. PICK j \in DOMAIN L : j = (CHOOSE i \in DOMAIN L : Of(i)) /\ Of(j)  BY <2>1
  <2>3. j = k  BY <1>2, <1>5, <2>2
  <2> QED  BY <2>2, <2>3
<1>6. parse_cpu_nanocores(q) = IF q.suffix \in DOMAIN CpuUnits /\ q.number \in Nat
                               THEN q.number * CpuUnits[q.suffix] ELSE 0
  BY DEF parse_cpu_nanocores, Parsed
<1>7. CASE q.suffix \notin DOMAIN CpuUnits
  <2>1. ~ \E i \in DOMAIN L : Of(i)  BY <1>2, <1>4, <1>7
  <2> QED  BY <1>3, <1>6, <1>7, <2>1
<1>8. ASSUME NEW k \in 1 .. 4, q.suffix = L[k].name, q.suffix \in DOMAIN CpuUnits,
             CpuUnits[q.suffix] = L[k].worth, L[k].worth \in Nat
      PROVE  parse_cpu_nanocores(q) = CpuWorth(q) /\ parse_cpu_nanocores(q) \in Nat
  <2>1. \E i \in DOMAIN L : Of(i)  BY <1>2, <1>8
  <2>2. L[CHOOSE i \in DOMAIN L : Of(i)].worth = L[k].worth  BY <1>5, <1>8
  <2> QED  BY <1>3, <1>6, <1>8, <2>1, <2>2
<1>9. Kilo * Kilo \in Nat /\ Kilo * Kilo * Kilo \in Nat /\ Kilo \in Nat
  BY UnitsAssumption
<1>10. CASE q.suffix = "n"  BY <1>2, <1>4, <1>8, <1>9, <1>10
<1>11. CASE q.suffix = "u"  BY <1>2, <1>4, <1>8, <1>9, <1>11
<1>12. CASE q.suffix = "m"  BY <1>2, <1>4, <1>8, <1>9, <1>12
<1>13. CASE q.suffix = "cores"  BY <1>2, <1>4, <1>8, <1>9, <1>13
<1> QED  BY <1>4, <1>7, <1>10, <1>11, <1>12, <1>13

LEMMA MemIsWorth ==
  ASSUME NEW q
  PROVE  parse_mem_bytes(q) = MemWorth(q) /\ parse_mem_bytes(q) \in Nat
<1> DEFINE decimal == <<"bytes", "k", "M", "G">>
           binary == <<"bytes", "Ki", "Mi", "Gi", "Ti">>
           D == Ladder(Kilo, decimal)
           B == Ladder(Kibi, binary)
           L == D \o B
           Of(i) == L[i].name = q.suffix
<1>1. /\ DOMAIN decimal = 1 .. 4 /\ Len(decimal) = 4
      /\ decimal[1] = "bytes" /\ decimal[2] = "k" /\ decimal[3] = "M" /\ decimal[4] = "G"
  BY FourOf
<1>2. /\ DOMAIN binary = 1 .. 5 /\ Len(binary) = 5
      /\ binary[1] = "bytes" /\ binary[2] = "Ki" /\ binary[3] = "Mi" /\ binary[4] = "Gi"
      /\ binary[5] = "Ti"
  BY FiveOf
<1> HIDE DEF decimal, binary
<1>3. /\ DOMAIN D = 1 .. 4 /\ D[1].name = "bytes" /\ D[2].name = "k" /\ D[3].name = "M"
      /\ D[4].name = "G" /\ D[1].worth = 1 /\ D[2].worth = Kilo
      /\ D[3].worth = Kilo * Kilo /\ D[4].worth = Kilo * Kilo * Kilo
  <2>1. /\ DOMAIN D = 1 .. Len(decimal) /\ \A i \in 1 .. Len(decimal) : D[i].name = decimal[i]
        /\ D[1].worth = 1 /\ D[2].worth = Kilo /\ D[3].worth = Kilo * Kilo
        /\ D[4].worth = Kilo * Kilo * Kilo
    <3>1. DOMAIN decimal = 1 .. Len(decimal) /\ Len(decimal) \in {4, 5} /\ Kilo \in Nat
      BY <1>1, UnitsAssumption
    <3>2. Rungs(Kilo, decimal)  BY <3>1, LadderIs
    <3> QED  BY <3>2 DEF Rungs
  <2> HIDE DEF D
  <2> QED  BY <1>1, <2>1
<1>4. /\ DOMAIN B = 1 .. 5 /\ B[1].name = "bytes" /\ B[2].name = "Ki" /\ B[3].name = "Mi"
      /\ B[4].name = "Gi" /\ B[5].name = "Ti" /\ B[1].worth = 1 /\ B[2].worth = Kibi
      /\ B[3].worth = Kibi * Kibi /\ B[4].worth = Kibi * Kibi * Kibi
      /\ B[5].worth = Kibi * Kibi * Kibi * Kibi
  <2>1. Rungs(Kibi, binary)  BY <1>2, LadderIs, UnitsAssumption
  <2> QED  BY <1>2, <2>1 DEF Rungs
<1>5. /\ Len(D) = 4 /\ Len(B) = 5
      /\ D = [i \in 1 .. 4 |-> D[i]] /\ B = [i \in 1 .. 5 |-> B[i]]
  <2>1. D = [i \in DOMAIN decimal |-> D[i]] /\ B = [i \in DOMAIN binary |-> B[i]]
    BY DEF Ladder
  <2>2. DOMAIN decimal = 1 .. 4 /\ DOMAIN binary = 1 .. 5  BY <1>1, <1>2
  <2> HIDE DEF D, B
  <2> QED  BY <1>3, <1>4, <2>1, <2>2
<1> HIDE DEF D, B
<1>6. DOMAIN L = 1 .. 9 /\ \A i \in 1 .. 9 : L[i] = IF i =< 4 THEN D[i] ELSE B[i - 4]
  <2> DEFINE R == {D[i] : i \in 1 .. 4} \union {B[i] : i \in 1 .. 5}
  <2>1. D \in Seq(R) /\ B \in Seq(R)  BY <1>5
  <2> HIDE DEF R
  <2>2. Len(L) = 9 /\ L \in Seq(R)  BY <1>5, <2>1
  <2> QED  BY <1>5, <2>1, <2>2
<1> HIDE DEF L
<1>7. MemWorth(q) = IF q.number \notin Nat \/ ~ \E i \in DOMAIN L : Of(i) THEN 0
                    ELSE q.number * L[CHOOSE i \in DOMAIN L : Of(i)].worth
  BY DEF MemWorth, Worth, L, D, B, decimal, binary
<1>8. /\ L[1] = D[1] /\ L[2] = D[2] /\ L[3] = D[3] /\ L[4] = D[4] /\ L[5] = B[1]
      /\ L[6] = B[2] /\ L[7] = B[3] /\ L[8] = B[4] /\ L[9] = B[5]
  BY <1>6
<1>9. /\ DOMAIN MemUnits = {"Ki", "Mi", "Gi", "Ti", "k", "M", "G", "bytes"}
      /\ MemUnits["Ki"] = Kibi /\ MemUnits["Mi"] = Kibi * Kibi
      /\ MemUnits["Gi"] = Kibi * Kibi * Kibi /\ MemUnits["Ti"] = Kibi * Kibi * Kibi * Kibi
      /\ MemUnits["k"] = Kilo /\ MemUnits["M"] = Kilo * Kilo
      /\ MemUnits["G"] = Kilo * Kilo * Kilo /\ MemUnits["bytes"] = 1
  BY DEF MemUnits
<1>10. ASSUME NEW i \in 1 .. 9, NEW j \in 1 .. 9, L[i].name = L[j].name
       PROVE  L[i].worth = L[j].worth
  <2>1. i = j \/ {i, j} = {1, 5}  BY <1>3, <1>4, <1>8, <1>10
  <2> QED  BY <1>3, <1>4, <1>8, <2>1
<1>11. parse_mem_bytes(q) = IF q.suffix \in DOMAIN MemUnits /\ q.number \in Nat
                            THEN q.number * MemUnits[q.suffix] ELSE 0
  BY DEF parse_mem_bytes, Parsed
<1>12. CASE q.suffix \notin DOMAIN MemUnits
  <2>1. ~ \E i \in DOMAIN L : Of(i)  BY <1>3, <1>4, <1>6, <1>8, <1>9, <1>12
  <2> QED  BY <1>7, <1>11, <1>12, <2>1
<1>13. ASSUME NEW k \in 1 .. 9, q.suffix = L[k].name, q.suffix \in DOMAIN MemUnits,
              MemUnits[q.suffix] = L[k].worth, L[k].worth \in Nat
       PROVE  parse_mem_bytes(q) = MemWorth(q) /\ parse_mem_bytes(q) \in Nat
  <2>1. \E i \in DOMAIN L : Of(i)  BY <1>6, <1>13
  <2>2. PICK j \in DOMAIN L : j = (CHOOSE i \in DOMAIN L : Of(i)) /\ Of(j)  BY <2>1
  <2>3. L[j].worth = L[k].worth  BY <1>6, <1>10, <1>13, <2>2
  <2> QED  BY <1>7, <1>11, <1>13, <2>1, <2>2, <2>3
<1>14. /\ Kilo \in Nat /\ Kilo * Kilo \in Nat /\ Kilo * Kilo * Kilo \in Nat
       /\ Kibi \in Nat /\ Kibi * Kibi \in Nat /\ Kibi * Kibi * Kibi \in Nat
       /\ Kibi * Kibi * Kibi * Kibi \in Nat
  BY UnitsAssumption
<1> USE <1>3, <1>4, <1>8, <1>9, <1>13, <1>14
<1>15. CASE q.suffix = "bytes"  BY <1>15
<1>16. CASE q.suffix = "k"  BY <1>16
<1>17. CASE q.suffix = "M"  BY <1>17
<1>18. CASE q.suffix = "G"  BY <1>18
<1>19. CASE q.suffix = "Ki"  BY <1>19
<1>20. CASE q.suffix = "Mi"  BY <1>20
<1>21. CASE q.suffix = "Gi"  BY <1>21
<1>22. CASE q.suffix = "Ti"  BY <1>22
<1> QED  BY <1>12, <1>15, <1>16, <1>17, <1>18, <1>19, <1>20, <1>21, <1>22

-----------------------------------------------------------------------------
(* The inductive invariant: a run holds what a state of its own time       *)
(* answered to each GET it made, or nothing in the place of the logs of a  *)
(* crash, and a report is made of all the answers.                         *)

FromOne(states, pod, what, answer) ==
  \/ what = "previous logs" /\ answer = Gone
  \/ \E c \in states : Found(c, pod, what) /\ answer = Served(c, pod, what)

DInv ==
  /\ op \in DOMAIN Gets
  /\ pc \in {"start", "get", "done"}
  /\ cluster \in past
  /\ \A c \in past : WellFormed(c)
  /\ Len(got) \in Nat /\ got \in Seq(ToSet(got))
  /\ Len(got) =< Len(Gets[op])
  /\ pc = "start" => got = <<>>
  /\ pc = "get" => Len(got) < Len(Gets[op])
  /\ \A i \in 1 .. Len(got) : FromOne(past, input.pod, Gets[op][i], got[i])
  /\ op = "analyze_crashloop" /\ pc = "done" => Len(got) # 1
  /\ reply.ok => Len(got) = Len(Gets[op]) /\ reply.report = Report(op, got)

LEMMA OneOf ==
  ASSUME NEW t, NEW a, t = <<a>>
  PROVE  Len(t) = 1 /\ t[1] = a
OBVIOUS

LEMMA TwoOf ==
  ASSUME NEW t, NEW a, NEW b, t = <<a, b>>
  PROVE  Len(t) = 2 /\ t[1] = a /\ t[2] = b
OBVIOUS

LEMMA GetsAre ==
  ASSUME NEW o \in DOMAIN Gets
  PROVE  /\ Len(Gets[o]) \in {1, 2, 3}
         /\ o = "find_unhealthy_pods" => Len(Gets[o]) = 1 /\ Gets[o][1] = "pods"
         /\ o = "triage_namespace" => Len(Gets[o]) = 2 /\ Gets[o][1] = "pods"
         /\ o = "triage_cluster" => Len(Gets[o]) = 3 /\ Gets[o][2] = "pods"
         /\ o = "analyze_crashloop" =>
              /\ Len(Gets[o]) = 3 /\ Gets[o][1] = "pod"
              /\ Gets[o][2] = "previous logs" /\ Gets[o][3] = "events of pod"
         /\ o = "report_node_pressure" =>
              Len(Gets[o]) = 2 /\ Gets[o][1] = "nodes" /\ Gets[o][2] = "node metrics"
         /\ o = "check_rollout_status" => Len(Gets[o]) = 1 /\ Gets[o][1] = "workload"
<1>2. CASE o = "list_namespaces"
  <2>1. Gets[o] = <<"namespaces">>  BY <1>2 DEF Gets
  <2>2. Len(Gets[o]) = 1 /\ Gets[o][1] = "namespaces"
    BY <2>1, OneOf
  <2> QED  BY <1>2, <2>2
<1>3. CASE o = "list_resources"
  <2>1. Gets[o] = <<"pods">>  BY <1>3 DEF Gets
  <2>2. Len(Gets[o]) = 1 /\ Gets[o][1] = "pods"
    BY <2>1, OneOf
  <2> QED  BY <1>3, <2>2
<1>4. CASE o = "get_resource"
  <2>1. Gets[o] = <<"pod">>  BY <1>4 DEF Gets
  <2>2. Len(Gets[o]) = 1 /\ Gets[o][1] = "pod"
    BY <2>1, OneOf
  <2> QED  BY <1>4, <2>2
<1>5. CASE o = "describe_resource"
  <2>1. Gets[o] = <<"pod", "events of pod">>  BY <1>5 DEF Gets
  <2>2. Len(Gets[o]) = 2 /\ Gets[o][1] = "pod" /\ Gets[o][2] = "events of pod"
    BY <2>1, TwoOf
  <2> QED  BY <1>5, <2>2
<1>6. CASE o = "get_pod_logs"
  <2>1. Gets[o] = <<"logs">>  BY <1>6 DEF Gets
  <2>2. Len(Gets[o]) = 1 /\ Gets[o][1] = "logs"
    BY <2>1, OneOf
  <2> QED  BY <1>6, <2>2
<1>7. CASE o = "get_events"
  <2>1. Gets[o] = <<"events">>  BY <1>7 DEF Gets
  <2>2. Len(Gets[o]) = 1 /\ Gets[o][1] = "events"
    BY <2>1, OneOf
  <2> QED  BY <1>7, <2>2
<1>8. CASE o = "top_pods"
  <2>1. Gets[o] = <<"pod metrics">>  BY <1>8 DEF Gets
  <2>2. Len(Gets[o]) = 1 /\ Gets[o][1] = "pod metrics"
    BY <2>1, OneOf
  <2> QED  BY <1>8, <2>2
<1>9. CASE o = "top_nodes"
  <2>1. Gets[o] = <<"node metrics">>  BY <1>9 DEF Gets
  <2>2. Len(Gets[o]) = 1 /\ Gets[o][1] = "node metrics"
    BY <2>1, OneOf
  <2> QED  BY <1>9, <2>2
<1>10. CASE o = "get_server_version"
  <2>1. Gets[o] = <<"version">>  BY <1>10 DEF Gets
  <2>2. Len(Gets[o]) = 1 /\ Gets[o][1] = "version"
    BY <2>1, OneOf
  <2> QED  BY <1>10, <2>2
<1>11. CASE o = "find_unhealthy_pods"
  <2>1. Gets[o] = <<"pods">>  BY <1>11 DEF Gets
  <2>2. Len(Gets[o]) = 1 /\ Gets[o][1] = "pods"
    BY <2>1, OneOf
  <2> QED  BY <1>11, <2>2
<1>12. CASE o = "triage_namespace"
  <2>1. Gets[o] = <<"pods", "events">>  BY <1>12 DEF Gets
  <2>2. Len(Gets[o]) = 2 /\ Gets[o][1] = "pods" /\ Gets[o][2] = "events"
    BY <2>1, TwoOf
  <2> QED  BY <1>12, <2>2
<1>13. CASE o = "triage_cluster"
  <2>1. Gets[o] = <<"nodes", "pods", "node metrics">>  BY <1>13 DEF Gets
  <2>2. ASSUME NEW t, t = <<"nodes", "pods", "node metrics">>
        PROVE  Len(t) = 3 /\ t[1] = "nodes" /\ t[2] = "pods" /\ t[3] = "node metrics"
    BY <2>2
  <2>3. Len(Gets[o]) = 3 /\ Gets[o][1] = "nodes" /\ Gets[o][2] = "pods" /\ Gets[o][3] = "node metrics"
    BY <2>1, <2>2
  <2> QED  BY <1>13, <2>3
<1>14. CASE o = "analyze_crashloop"
  <2>1. Gets[o] = <<"pod", "previous logs", "events of pod">>  BY <1>14 DEF Gets
  <2>2. ASSUME NEW t, t = <<"pod", "previous logs", "events of pod">>
        PROVE  Len(t) = 3 /\ t[1] = "pod" /\ t[2] = "previous logs" /\ t[3] = "events of pod"
    BY <2>2
  <2>3. Len(Gets[o]) = 3 /\ Gets[o][1] = "pod" /\ Gets[o][2] = "previous logs" /\ Gets[o][3] = "events of pod"
    BY <2>1, <2>2
  <2> QED  BY <1>14, <2>3
<1>15. CASE o = "report_node_pressure"
  <2>1. Gets[o] = <<"nodes", "node metrics">>  BY <1>15 DEF Gets
  <2>2. Len(Gets[o]) = 2 /\ Gets[o][1] = "nodes" /\ Gets[o][2] = "node metrics"
    BY <2>1, TwoOf
  <2> QED  BY <1>15, <2>2
<1>16. CASE o = "check_rollout_status"
  <2>1. Gets[o] = <<"workload">>  BY <1>16 DEF Gets
  <2>2. Len(Gets[o]) = 1 /\ Gets[o][1] = "workload"
    BY <2>1, OneOf
  <2> QED  BY <1>16, <2>2
<1>17. DOMAIN Gets = {"list_namespaces", "list_resources", "get_resource",
                    "describe_resource", "get_pod_logs", "get_events",
                    "top_pods", "top_nodes", "get_server_version",
                    "find_unhealthy_pods", "triage_namespace",
                    "triage_cluster", "analyze_crashloop",
                    "report_node_pressure", "check_rollout_status"}
  BY DEF Gets
<1> QED
  BY <1>2, <1>3, <1>4, <1>5, <1>6, <1>7, <1>8, <1>9,
     <1>10, <1>11, <1>12, <1>13, <1>14, <1>15, <1>16, <1>17

LEMMA AppendedTo ==
  ASSUME NEW s, s \in Seq(ToSet(s)), NEW e
  PROVE  /\ Append(s, e) \in Seq(ToSet(Append(s, e)))
         /\ Len(s) \in Nat /\ Len(Append(s, e)) = Len(s) + 1
         /\ \A i \in 1 .. Len(s) : Append(s, e)[i] = s[i]
         /\ Append(s, e)[Len(s) + 1] = e
<1> DEFINE S == ToSet(s) \union {e}
           t == Append(s, e)
<1>1. s \in Seq(S)  OBVIOUS
<1>2. t \in Seq(S) /\ Len(s) \in Nat /\ Len(t) = Len(s) + 1  BY <1>1
<1>3. (\A i \in 1 .. Len(s) : t[i] = s[i]) /\ t[Len(s) + 1] = e  BY <1>1
<1>4. DOMAIN t = 1 .. Len(t)  BY <1>2
<1>5. \A i \in 1 .. Len(t) : t[i] \in ToSet(t)  BY <1>4 DEF ToSet
<1> HIDE DEF t
<1>6. t \in Seq(ToSet(t))  BY <1>2, <1>5
<1> QED  BY <1>2, <1>3, <1>6 DEF t

LEMMA InitInv == Init => DInv
<1> SUFFICES ASSUME Init PROVE DInv  OBVIOUS
<1>1. op \in DOMAIN Gets /\ WellFormed(cluster)  BY CasesAssumption DEF Init
<1>2. got = <<>> /\ pc = "start" /\ past = {cluster} /\ reply = [ok |-> FALSE, report |-> "none"]
  BY DEF Init, NoReply
<1>3. Len(got) = 0 /\ got \in Seq(ToSet(got))  BY <1>2
<1>4. Len(Gets[op]) \in {1, 2, 3}  BY <1>1, GetsAre
<1> QED  BY <1>1, <1>2, <1>3, <1>4 DEF DInv

(* Taking an answer keeps the invariant if it is one.                      *)
LEMMA TakeInv ==
  ASSUME DInv, NEW answer, Take(answer), pc = "get",
         FromOne(past, input.pod, Asked, answer), UNCHANGED <<cluster, op, input, past>>
  PROVE  DInv'
<1> DEFINE n == Len(got)
<1>1. /\ op \in DOMAIN Gets /\ n \in Nat /\ got \in Seq(ToSet(got))
      /\ n < Len(Gets[op]) /\ Len(Gets[op]) \in {1, 2, 3}
  BY GetsAre DEF DInv
<1>2. got' = Append(got, answer)  BY DEF Take
<1>3. /\ got' \in Seq(ToSet(got')) /\ Len(got') = n + 1
      /\ \A i \in 1 .. n : got'[i] = got[i]
      /\ got'[n + 1] = answer
  BY <1>1, <1>2, AppendedTo
<1>5. ASSUME NEW i \in 1 .. n + 1 PROVE FromOne(past, input.pod, Gets[op][i], got'[i])
  <2>1. CASE i \in 1 .. n
    <3>1. FromOne(past, input.pod, Gets[op][i], got[i])  BY <2>1 DEF DInv
    <3> QED  BY <1>3, <2>1, <3>1
  <2>2. CASE i = n + 1
    <3> QED  BY <1>3, <2>2 DEF Asked
  <2> QED  BY <1>1, <2>1, <2>2
<1>6. /\ op' = op /\ past' = past /\ cluster' = cluster /\ input' = input
      /\ Gets' = Gets
  BY DEF Gets
<1>7. \A i \in 1 .. Len(got') : FromOne(past, input.pod, Gets[op][i], got[i])'
  BY <1>3, <1>5, <1>6
<1>8. IF Len(got') = Len(Gets[op])
      THEN pc' = "done" /\ reply' = [ok |-> TRUE, report |-> Report(op, got')]
      ELSE UNCHANGED <<pc, reply>>
  BY DEF Take
<1>9. (reply.ok => Len(got) = Len(Gets[op]) /\ reply.report = Report(op, got))'
  <2>1. CASE Len(got') = Len(Gets[op])  BY <1>6, <1>8, <2>1
  <2>2. CASE Len(got') # Len(Gets[op])
    <3>1. ~ reply.ok  BY <1>1 DEF DInv
    <3> QED  BY <1>8, <2>2, <3>1
  <2> QED  BY <2>1, <2>2
<1>10. op = "analyze_crashloop" /\ pc' = "done" => Len(got') # 1
  <2>1. op = "analyze_crashloop" => Len(Gets[op]) = 3  BY <1>1, GetsAre
  <2>2. op = "analyze_crashloop" /\ pc' = "done" => Len(got') = Len(Gets[op])
    BY <1>8
  <2> QED  BY <2>1, <2>2
<1>11. /\ pc' = "start" => got' = <<>>
       /\ pc' = "get" => Len(got') < Len(Gets[op])
       /\ pc' \in {"start", "get", "done"} /\ Len(got') =< Len(Gets[op])
  BY <1>1, <1>3, <1>8
<1>12. /\ cluster \in past
       /\ \A c \in past : WellFormed(c)
  BY DEF DInv
<1> QED  BY <1>1, <1>3, <1>6, <1>7, <1>9, <1>10, <1>11, <1>12 DEF DInv

(* Nothing a step leaves alone can break the invariant.                    *)
LEMMA KeepInv ==
  ASSUME DInv, UNCHANGED <<op, input, got>>,
         past \subseteq past', cluster' \in past', \A c \in past' : WellFormed(c),
         \/ UNCHANGED <<pc, reply>>
         \/ /\ pc' = "get" /\ got = <<>> /\ UNCHANGED reply
         \/ /\ pc' = "done" /\ reply' = Error
            /\ op = "analyze_crashloop" => Len(got) # 1
  PROVE  DInv'
<1>1. op' = op /\ input' = input /\ got' = got /\ Gets' = Gets
  BY DEF Gets
<1>2. \A i \in 1 .. Len(got) : FromOne(past, input.pod, Gets[op][i], got[i])
  BY DEF DInv
<1>3. \A i \in 1 .. Len(got) : FromOne(past', input.pod, Gets[op][i], got[i])
  BY <1>2 DEF FromOne
<1>4. (\A i \in 1 .. Len(got) : FromOne(past, input.pod, Gets[op][i], got[i]))'
  BY <1>1, <1>3
<1>5. /\ op \in DOMAIN Gets /\ Len(got) \in Nat /\ got \in Seq(ToSet(got))
      /\ Len(got) =< Len(Gets[op]) /\ Len(Gets[op]) \in {1, 2, 3}
  BY GetsAre DEF DInv
<1>6. /\ pc' \in {"start", "get", "done"}
      /\ pc' = "start" => got = <<>>
      /\ pc' = "get" => Len(got) < Len(Gets[op])
      /\ op = "analyze_crashloop" /\ pc' = "done" => Len(got) # 1
  <2>1. Len(<<>>) = 0  OBVIOUS
  <2> QED  BY <1>5, <2>1 DEF DInv
<1>7. (reply.ok => Len(got) = Len(Gets[op]) /\ reply.report = Report(op, got))'
  BY <1>1 DEF DInv, Error
<1> QED  BY <1>1, <1>4, <1>5, <1>6, <1>7 DEF DInv

LEMMA BeginInv == DInv /\ Begin => DInv'
<1> SUFFICES ASSUME DInv, Begin PROVE DInv'  OBVIOUS
<1>1. got = <<>> /\ cluster \in past /\ \A c \in past : WellFormed(c)
  BY DEF DInv, Begin
<1>2. Len(got) # 1  BY <1>1
<1>3. \/ pc' = "get" /\ UNCHANGED reply
      \/ pc' = "done" /\ reply' = Error
  BY DEF Begin
<1> QED  BY <1>1, <1>2, <1>3, KeepInv DEF Begin

LEMMA ReceiveInv == DInv /\ Receive => DInv'
<1> SUFFICES ASSUME DInv, Receive PROVE DInv'  OBVIOUS
<1>1. FromOne(past, input.pod, Asked, Served(cluster, input.pod, Asked))
  BY DEF FromOne, DInv, Receive
<1> QED  BY <1>1, TakeInv DEF Receive

LEMMA ReceiveNothingInv == DInv /\ ReceiveNothing => DInv'
<1> SUFFICES ASSUME DInv, ReceiveNothing PROVE DInv'  OBVIOUS
<1>1. CASE Asked = "previous logs"
  <2>1. FromOne(past, input.pod, Asked, Gone)  BY <1>1 DEF FromOne
  <2> QED  BY <1>1, <2>1, TakeInv DEF ReceiveNothing
<1>2. CASE Asked # "previous logs"
  <2>1. op = "analyze_crashloop" => Len(got) # 1
    <3>1. op \in DOMAIN Gets  BY DEF DInv
    <3>2. ASSUME op = "analyze_crashloop", Len(got) = 1 PROVE Asked = "previous logs"
      <4>1. Gets[op][2] = "previous logs"  BY <3>1, <3>2, GetsAre
      <4>2. Len(got) + 1 = 2  BY <3>2
      <4> QED  BY <4>1, <4>2 DEF Asked
    <3> QED  BY <1>2, <3>2
  <2> QED  BY <1>2, <2>1, KeepInv DEF ReceiveNothing, DInv
<1> QED  BY <1>1, <1>2

LEMMA ClusterMovesInv == DInv /\ ClusterMoves => DInv'
BY KeepInv DEF DInv, ClusterMoves

LEMMA NextInv == DInv /\ [Next]_vars => DInv'
<1> SUFFICES ASSUME DInv, [Next]_vars PROVE DInv'  OBVIOUS
<1>1. CASE UNCHANGED vars  BY <1>1, KeepInv DEF vars, DInv
<1> QED  BY <1>1, BeginInv, ReceiveInv, ReceiveNothingInv, ClusterMovesInv DEF Next

(* What a run has got is what the cluster of its own time served, whatever *)
(* the cluster does meanwhile.                                             *)
THEOREM AnswersAreOfTheRun == Spec => []DInv
BY InitInv, NextInv, PTL DEF Spec

-----------------------------------------------------------------------------
(* A verdict on a rollout is that on one moment's workload, and means what *)
(* it says, during a surge and for any state of the controller's condition *)
(* (ops.rs, check_rollout_status; diagnose.rs, rollout_status).            *)
THEOREM RolloutVerdictIsTrue == Spec => []RolledOutMeansRolledOut
<1>1. DInv => RolledOutMeansRolledOut
  <2> SUFFICES ASSUME DInv, reply.ok, op = "check_rollout_status"
               PROVE  \E c \in past : LET w == c.workload IN
                        /\ reply.report.status = "complete" => w.desired = 0 \/ Replaced(w)
                        /\ reply.report.status = "stuck" => Stalled(w) /\ Unfinished(w)
                        /\ reply.report.status = "progressing" => ~ Stalled(w) /\ Unfinished(w)
    BY DEF RolledOutMeansRolledOut
  <2>1. Gets[op][1] = "workload" /\ Len(got) = 1
    BY GetsAre DEF DInv
  <2>2. FromOne(past, input.pod, "workload", got[1])  BY <2>1 DEF DInv
  <2>3. PICK c \in past : got[1] = c.workload
    BY <2>2 DEF FromOne, Served
  <2>4. reply.report = rollout_status(c.workload)
    BY <2>3 DEF DInv, Report
  <2> DEFINE w == c.workload
             k == w.counted
             complete == \/ w.desired = 0
                         \/ /\ k.new_ready + k.new_unready = w.desired
                            /\ k.new_ready + k.old_ready = w.desired
                            /\ k.available = w.desired
             failing == w.kind = "Deployment" /\ \E p \in w.progressing :
                          p.status # "True" \/ p.reason = "ProgressDeadlineExceeded"
  <2>5. /\ w.desired \in Nat /\ k.new_ready \in Nat /\ k.new_unready \in Nat
        /\ k.old_ready \in Nat /\ k.old_unready \in Nat /\ k.available \in Nat
        /\ k.available <= k.new_ready + k.old_ready
    BY DEF DInv, WellFormed
  <2>6. reply.report.status = IF complete THEN "complete" ELSE IF failing THEN "stuck" ELSE "progressing"
    BY <2>4 DEF rollout_status, updatedReplicas, readyReplicas
  <2>7. failing <=> Stalled(w)
    <3>1. \A p \in w.progressing : p.status \in {"True", "False", "Unknown"}
      BY DEF DInv, WellFormed
    <3> QED  BY <3>1 DEF Stalled
  <2> HIDE DEF w, k, failing
  <2>8. complete => w.desired = 0 \/ Replaced(w)
    BY <2>5 DEF Replaced, Total, k
  <2>9. ~ complete => Unfinished(w)
    BY <2>5 DEF Unfinished, Total, k
  <2> HIDE DEF complete
  <2> QED  BY <2>6, <2>7, <2>8, <2>9 DEF w
<1> QED  BY <1>1, AnswersAreOfTheRun, PTL

(* A list of unhealthy pods names for every pod the cause it had at one    *)
(* moment of the run (diagnose.rs, classify_pod and its callers).          *)
THEOREM BlameIsTrue == Spec => []CauseIsNamed
<1>1. DInv => CauseIsNamed
  <2> SUFFICES ASSUME DInv, reply.ok,
                      op \in {"find_unhealthy_pods", "triage_namespace", "triage_cluster"}
               PROVE  /\ reply.report.count = Cardinality(reply.report.unhealthy_pods)
                      /\ \A p \in DOMAIN cluster.pods : \E c \in past :
                           Describes({i \in reply.report.unhealthy_pods : i.name = p}, c.pods[p])
    BY DEF CauseIsNamed
  <2>1. /\ op \in DOMAIN Gets /\ Len(got) \in Nat /\ Len(got) = Len(Gets[op])
        /\ \A i \in 1 .. Len(got) : FromOne(past, input.pod, Gets[op][i], got[i])
        /\ reply.report = Report(op, got)
    BY DEF DInv
  <2>2. \E c \in past : /\ reply.report.unhealthy_pods = unhealthy_pods(c.pods)
                        /\ reply.report.count = Cardinality(unhealthy_pods(c.pods))
    <3>1. CASE op = "find_unhealthy_pods"
      <4>1. Len(got) = 1 /\ Gets[op][1] = "pods"
        BY <2>1, <3>1, GetsAre
      <4>2. FromOne(past, input.pod, "pods", got[1])  BY <2>1, <4>1
      <4>3. PICK c \in past : got[1] = c.pods  BY <4>2 DEF FromOne, Served
      <4>4. reply.report = find_unhealthy_pods(c.pods)
        BY <2>1, <3>1, <4>3 DEF Report
      <4> QED  BY <4>4 DEF find_unhealthy_pods
    <3>2. CASE op = "triage_namespace"
      <4>1. Len(got) = 2 /\ Gets[op][1] = "pods"
        BY <2>1, <3>2, GetsAre
      <4>2. FromOne(past, input.pod, "pods", got[1])  BY <2>1, <4>1
      <4>3. PICK c \in past : got[1] = c.pods  BY <4>2 DEF FromOne, Served
      <4>4. reply.report = summarize_namespace(c.pods, got[2])
        BY <2>1, <3>2, <4>3 DEF Report
      <4> QED  BY <4>4 DEF summarize_namespace
    <3>3. CASE op = "triage_cluster"
      <4>1. Len(got) = 3 /\ Gets[op][2] = "pods"
        BY <2>1, <3>3, GetsAre
      <4>2. FromOne(past, input.pod, "pods", got[2])  BY <2>1, <4>1
      <4>3. PICK c \in past : got[2] = c.pods  BY <4>2 DEF FromOne, Served
      <4>4. reply.report = summarize_cluster(got[1], c.pods, got[3])
        BY <2>1, <3>3, <4>3 DEF Report
      <4> QED  BY <4>4 DEF summarize_cluster
    <3> QED  BY <3>1, <3>2, <3>3
  <2>3. PICK c \in past : /\ reply.report.unhealthy_pods = unhealthy_pods(c.pods)
                         /\ reply.report.count = Cardinality(unhealthy_pods(c.pods))
    BY <2>2
  <2>4. ASSUME NEW p \in DOMAIN cluster.pods
        PROVE  Describes({i \in reply.report.unhealthy_pods : i.name = p}, c.pods[p])
    <3>1. WellFormed(c) /\ p \in Pods  BY DEF DInv, WellFormed
    <3> QED  BY <2>3, <3>1, UnhealthyPodsDescribe
  <2> QED  BY <2>3, <2>4
<1> QED  BY <1>1, AnswersAreOfTheRun, PTL

(* A crash is analysed without the logs if they cannot be had, and what is *)
(* reported of the pod, its logs and its events was so at one moment each  *)
(* (diagnose.rs, analyze_crashloop).                                       *)
THEOREM CrashReportHolds == Spec => []CrashReportIsTrue
<1>1. DInv => CrashReportIsTrue
  <2> SUFFICES ASSUME DInv, op = "analyze_crashloop", pc = "done", got # <<>>
               PROVE  CrashReportIsTrue
    BY DEF CrashReportIsTrue
  <2>1. Len(got) >= 2
    <3>1. Len(got) # 1 /\ Len(got) \in Nat /\ got \in Seq(ToSet(got))  BY DEF DInv
    <3>2. \A s \in Seq(ToSet(got)) : s # <<>> => Len(s) \in Nat \ {0}
      BY EmptySeq
    <3>3. Len(got) \in Nat \ {0}  BY <3>1, <3>2, Zenon
    <3>4. \A n \in Nat \ {0} : n # 1 => n >= 2  OBVIOUS
    <3> QED  BY <3>1, <3>3, <3>4, Zenon
  <2>2. ASSUME reply.ok
        PROVE  /\ \E c \in past : LET pod == c.pods[input.pod] IN
                    /\ pod # Gone /\ reply.report.phase = pod.phase
                    /\ (reply.report.last_termination = "none" <=>
                          \A i \in DOMAIN pod.containers : pod.containers[i].last = "none")
                    /\ reply.report.last_termination
                         \in {"none"} \union {k.last : k \in ToSet(pod.containers)}
               /\ \E c \in past : \A e \in reply.report.warning_events :
                    e \in c.events /\ e.object = input.pod /\ e.warning
               /\ reply.report.previous_logs # Gone => \E c \in past : LET pod == c.pods[input.pod] IN
                    pod # Gone /\ reply.report.previous_logs.restarts = restart_count(pod)
                    /\ reply.report.previous_logs.restarts > 0
    <3>1. /\ op \in DOMAIN Gets /\ Len(got) = Len(Gets[op])
          /\ \A i \in 1 .. Len(got) : FromOne(past, input.pod, Gets[op][i], got[i])
          /\ reply.report = Report(op, got)
      BY <2>2 DEF DInv
    <3>2. /\ Len(got) = 3 /\ Gets[op][1] = "pod"
          /\ Gets[op][2] = "previous logs" /\ Gets[op][3] = "events of pod"
      BY <3>1, GetsAre
    <3>3. reply.report = crashloop_report(got[1], got[2], got[3])
      BY <3>1 DEF Report
    <3>4. /\ FromOne(past, input.pod, "pod", got[1])
          /\ FromOne(past, input.pod, "previous logs", got[2])
          /\ FromOne(past, input.pod, "events of pod", got[3])
      <4>0. Len(got) = 3  BY <3>2
      <4>1. 1 \in 1 .. Len(got) /\ 2 \in 1 .. Len(got) /\ 3 \in 1 .. Len(got)  BY <4>0
      <4>2. /\ FromOne(past, input.pod, Gets[op][1], got[1])
            /\ FromOne(past, input.pod, Gets[op][2], got[2])
            /\ FromOne(past, input.pod, Gets[op][3], got[3])
        BY <3>1, <4>1
      <4> QED  BY <3>2, <4>2
    <3>5. PICK c \in past : got[1] = c.pods[input.pod] /\ input.pod \in Present(c.pods)
      BY <3>4 DEF FromOne, Found, Served
    <3>6. PICK d \in past : got[3] = EventsOf(d, input.pod)
      BY <3>4 DEF FromOne, Served
    <3>7. got[2] # Gone => \E l \in past :
            /\ input.pod \in Present(l.pods) /\ restart_count(l.pods[input.pod]) > 0
            /\ got[2] = Log(l, input.pod)
      BY <3>4 DEF FromOne, Found, Served
    <3> DEFINE pod == c.pods[input.pod]
    <3>8. pod # Gone /\ Containers(pod.containers)
      BY <3>5 DEF Present, DInv, WellFormed
    <3>9. /\ reply.report.phase = pod.phase
          /\ reply.report.last_termination = last_termination(pod)
          /\ reply.report.previous_logs = got[2]
          /\ reply.report.warning_events = Warnings(got[3])
      BY <3>3, <3>5 DEF crashloop_report
    <3>10. /\ (last_termination(pod) = "none" <=>
                 \A i \in DOMAIN pod.containers : pod.containers[i].last = "none")
           /\ last_termination(pod) \in {"none"} \union {k.last : k \in ToSet(pod.containers)}
      BY <3>8, LastTermination
    <3>11. \A e \in reply.report.warning_events :
             e \in d.events /\ e.object = input.pod /\ e.warning
      BY <3>6, <3>9 DEF Warnings, EventsOf
    <3>12. got[2] # Gone => \E l \in past : LET crashed == l.pods[input.pod] IN
             crashed # Gone /\ got[2].restarts = restart_count(crashed)
             /\ got[2].restarts > 0
      <4> SUFFICES ASSUME got[2] # Gone
                   PROVE  \E l \in past : /\ l.pods[input.pod] # Gone
                                          /\ got[2].restarts = restart_count(l.pods[input.pod])
                                          /\ got[2].restarts > 0
        OBVIOUS
      <4>1. PICK l \in past :
              /\ input.pod \in Present(l.pods) /\ restart_count(l.pods[input.pod]) > 0
              /\ got[2] = Log(l, input.pod)
        BY <3>7
      <4>2. got[2].restarts = restart_count(l.pods[input.pod])  BY <4>1 DEF Log
      <4>3. l.pods[input.pod] # Gone  BY <4>1 DEF Present
      <4> QED  BY <4>1, <4>2, <4>3
    <3> HIDE DEF pod
    <3>13. \E x \in past : LET y == x.pods[input.pod] IN
             /\ y # Gone /\ reply.report.phase = y.phase
             /\ (reply.report.last_termination = "none" <=>
                   \A i \in DOMAIN y.containers : y.containers[i].last = "none")
             /\ reply.report.last_termination
                  \in {"none"} \union {k.last : k \in ToSet(y.containers)}
      BY <3>8, <3>9, <3>10 DEF pod
    <3>14. \E x \in past : \A e \in reply.report.warning_events :
             e \in x.events /\ e.object = input.pod /\ e.warning
      BY <3>11
    <3>15. reply.report.previous_logs # Gone => \E x \in past : LET y == x.pods[input.pod] IN
             y # Gone /\ reply.report.previous_logs.restarts = restart_count(y)
             /\ reply.report.previous_logs.restarts > 0
      BY <3>9, <3>12
    <3> QED  BY <3>13, <3>14, <3>15, Zenon
  <2> QED  BY <2>1, <2>2 DEF CrashReportIsTrue
<1> QED  BY <1>1, AnswersAreOfTheRun, PTL

-----------------------------------------------------------------------------
(* A node uses more than its share by what the tables make of quantities   *)
(* exactly if it does by what quantities are worth.                        *)
LEMMA ShareIsExact ==
  ASSUME NEW nodes, NEW usages, NEW n, n \in DOMAIN usages
  PROVE  /\ OverThreshold(Measured(usages, n).cpu, parse_cpu_nanocores(nodes[n].cpu))
              <=> usages[n] # Gone /\ Uses(CpuWorth(usages[n].cpu), CpuWorth(nodes[n].cpu))
         /\ OverThreshold(Measured(usages, n).mem, parse_mem_bytes(nodes[n].mem))
              <=> usages[n] # Gone /\ Uses(MemWorth(usages[n].mem), MemWorth(nodes[n].mem))
<1> DEFINE node  == nodes[n]
           usage == usages[n]
           cpu   == CpuWorth(node.cpu)
           mem   == MemWorth(node.mem)
<1>1. /\ parse_cpu_nanocores(node.cpu) = cpu /\ cpu \in Nat
      /\ parse_mem_bytes(node.mem) = mem /\ mem \in Nat
  BY CpuIsWorth, MemIsWorth
<1>2. /\ parse_cpu_nanocores(usage.cpu) = CpuWorth(usage.cpu) /\ CpuWorth(usage.cpu) \in Nat
      /\ parse_mem_bytes(usage.mem) = MemWorth(usage.mem) /\ MemWorth(usage.mem) \in Nat
  BY CpuIsWorth, MemIsWorth
<1>3. CASE usage = Gone
  <2>1. Measured(usages, n).cpu = 0 /\ Measured(usages, n).mem = 0
    BY <1>3 DEF Measured, Present
  <2>2. \A capacity \in Nat : ~ OverThreshold(0, capacity)
    BY DEF OverThreshold
  <2> HIDE DEF cpu, mem
  <2> QED  BY <1>1, <1>3, <2>1, <2>2
<1>4. CASE usage # Gone
  <2>1. /\ Measured(usages, n).cpu = CpuWorth(usage.cpu)
        /\ Measured(usages, n).mem = MemWorth(usage.mem)
    BY <1>2, <1>4 DEF Measured, Present
  <2> HIDE DEF cpu, mem
  <2>2. /\ OverThreshold(CpuWorth(usage.cpu), cpu) <=> Uses(CpuWorth(usage.cpu), cpu)
        /\ OverThreshold(MemWorth(usage.mem), mem) <=> Uses(MemWorth(usage.mem), mem)
    BY <1>1, <1>2, ThresholdIsExact
  <2> QED  BY <1>1, <1>4, <2>1, <2>2 DEF cpu, mem
<1> QED  BY <1>3, <1>4

LEMMA PressuredNodes ==
  ASSUME NEW nodes, NEW usages, NEW n, n \in DOMAIN nodes, n \in DOMAIN usages
  PROVE  (\E r \in pressure_report(nodes, usages).pressured_nodes : r.name = n)
           <=> nodes[n] # Gone /\ UnderPressure(nodes[n], usages[n])
<1> DEFINE Capacity(k)   == [cpu |-> parse_cpu_nanocores(nodes[k].cpu),
                             mem |-> parse_mem_bytes(nodes[k].mem)]
           Conditions(k) == nodes[k].conditions \intersect {"MemoryPressure", "DiskPressure"}
           Pressured(k)  == \/ Conditions(k) # {}
                            \/ OverThreshold(Measured(usages, k).cpu, Capacity(k).cpu)
                            \/ OverThreshold(Measured(usages, k).mem, Capacity(k).mem)
           Entry(k)      == [name |-> k, conditions |-> Conditions(k),
                             usage |-> Measured(usages, k), capacity |-> Capacity(k)]
<1>1. pressure_report(nodes, usages).pressured_nodes =
        {Entry(k) : k \in {m \in Present(nodes) : Pressured(m)}}
  BY DEF pressure_report
<1>2. \A k : Entry(k).name = k  OBVIOUS
<1>3. Pressured(n) <=> UnderPressure(nodes[n], usages[n])
  <2>1. /\ Capacity(n).cpu = parse_cpu_nanocores(nodes[n].cpu)
        /\ Capacity(n).mem = parse_mem_bytes(nodes[n].mem)
    OBVIOUS
  <2> HIDE DEF Capacity
  <2> QED  BY <2>1, ShareIsExact DEF UnderPressure
<1> HIDE DEF Entry, Pressured
<1>4. (\E r \in pressure_report(nodes, usages).pressured_nodes : r.name = n)
        <=> n \in Present(nodes) /\ Pressured(n)
  BY <1>1, <1>2
<1> QED  BY <1>3, <1>4 DEF Present

(* A node is called pressured exactly when it is, by its own word or by    *)
(* what two moments of the run say of its use and its size, in whatever    *)
(* units (diagnose.rs, pressure_report; observe.rs, parse_cpu_nanocores,   *)
(* parse_mem_bytes).                                                       *)
THEOREM PressureIsTrue == Spec => []PressureIsMeasured
<1>1. DInv => PressureIsMeasured
  <2> SUFFICES ASSUME DInv, reply.ok, op = "report_node_pressure",
                      NEW n \in DOMAIN cluster.nodes
               PROVE  \E c \in past, d \in past :
                        (\E r \in reply.report.pressured_nodes : r.name = n)
                          <=> c.nodes[n] # Gone /\ UnderPressure(c.nodes[n], d.metrics[n])
    BY DEF PressureIsMeasured
  <2>1. /\ op \in DOMAIN Gets /\ Len(got) = Len(Gets[op])
        /\ \A i \in 1 .. Len(got) : FromOne(past, input.pod, Gets[op][i], got[i])
        /\ reply.report = Report(op, got)
    BY DEF DInv
  <2>2. Len(got) = 2 /\ Gets[op][1] = "nodes" /\ Gets[op][2] = "node metrics"
    BY <2>1, GetsAre
  <2>3. FromOne(past, input.pod, "nodes", got[1]) /\ FromOne(past, input.pod, "node metrics", got[2])
    <3>1. Len(got) = 2  BY <2>2
    <3>2. 1 \in 1 .. Len(got) /\ 2 \in 1 .. Len(got)  BY <3>1
    <3>3. /\ FromOne(past, input.pod, Gets[op][1], got[1])
          /\ FromOne(past, input.pod, Gets[op][2], got[2])
      BY <2>1, <3>2
    <3> QED  BY <2>2, <3>3
  <2>4. PICK c \in past : got[1] = c.nodes  BY <2>3 DEF FromOne, Served
  <2>5. PICK d \in past : got[2] = d.metrics  BY <2>3 DEF FromOne, Served
  <2>6. reply.report = pressure_report(c.nodes, d.metrics)
    BY <2>1, <2>4, <2>5 DEF Report
  <2>7. n \in DOMAIN c.nodes /\ n \in DOMAIN d.metrics
    BY DEF DInv, WellFormed
  <2> QED  BY <2>6, <2>7, PressuredNodes
<1> QED  BY <1>1, AnswersAreOfTheRun, PTL
=============================================================================
