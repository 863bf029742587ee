---------------------------- MODULE BackendProofs ----------------------------
(***************************************************************************)
(* Theorems about the components of MCBackend: the audit log, the calls on *)
(* the workspace's connection, the commands, the saved connections, the    *)
(* file they are in and the publishing of a sandbox.  Each is first proved *)
(* of the component by itself; the last part shows that every step of the  *)
(* composition is a step of the component, or leaves it alone.             *)
(***************************************************************************)
EXTENDS MCBackend, WellFoundedInduction, SequenceTheorems, FiniteSetTheorems, TLAPS

(* A set of naturals that is not empty has a least element.                *)
LEMMA LeastNatural ==
  ASSUME NEW T, T \subseteq Nat, T # {}
  PROVE  \E m \in T : \A n \in T : m <= n
<1> DEFINE R == {ss \in Nat \X Nat : ss[1] < ss[2]}
<1>1. OpToRel(<, Nat) = R
  BY Zenon DEF OpToRel
<1>2. IsWellFoundedOn(R, Nat)
  BY <1>1, NatLessThanWellFounded
<1>3. \E m \in T : \A n \in T : ~(<<n, m>> \in R)
  BY <1>2, WFMin, Zenon
<1>4. ASSUME NEW m \in Nat, NEW n \in Nat, n < m
      PROVE  <<n, m>> \in R
  <2>1. <<n, m>> \in Nat \X Nat /\ <<n, m>>[1] = n /\ <<n, m>>[2] = m
    OBVIOUS
  <2> QED
    BY <1>4, <2>1
<1> HIDE DEF R
<1>5. PICK m \in T : \A n \in T : ~(<<n, m>> \in R)
  BY <1>3
<1>6. ASSUME NEW n \in T
      PROVE  m <= n
  <2>1. m \in Nat /\ n \in Nat
    OBVIOUS
  <2>2. ~(n < m)
    BY <1>4, <1>5, <2>1, Zenon
  <2> QED
    BY <2>1, <2>2
<1> QED
  BY <1>6


-----------------------------------------------------------------------------
(***************************************************************************)
(* The audit log.                                                          *)
(***************************************************************************)

(* What holds of a line of the file of day d.                              *)
LineOK(d, l) ==
  /\ l.run <= run /\ stage[l.entry] \in {"written", "failed"}
  /\ prev = "genesis" /\ l.kind = "keyed" => l.run # run
  /\ l.kind \in {"torn", "garbled"} => "torn" \in causes[d]
  /\ l.kind = "keyed" /\ l.key # hmacKey => "rekeyed" \in causes[d]
  /\ l.seal \notin {0, cipherKey} => "resealed" \in causes[d]

LinesOK ==
  \A d \in Days : \A i \in DOMAIN file[d] :
    /\ LineOK(d, file[d][i])
    /\ \A j \in DOMAIN file[d] : file[d][j].entry = file[d][i].entry => j = i

(* What was written is there, or has joined a line that was cut short.     *)
Entire(l) == l.kind \in {"keyed", "no-chain"}
Filed(d, e) == \E i \in DOMAIN file[d] : Entire(file[d][i]) /\ file[d][i].entry = e
WrittenOK ==
  \A e \in Entries : stage[e] = "written" =>
    Filed(stamp[e].day, e) \/ "torn" \in causes[stamp[e].day]

(* The link held in memory is the last line of the file this run appended  *)
(* to last.                                                                *)
HeadOK ==
  prev \notin {"genesis", "none"} =>
    /\ last # 0
    /\ causes[last] = {} =>
         /\ file[last] # <<>> /\ Last(file[last]).kind = "keyed"
         /\ Last(file[last]).entry = prev /\ Last(file[last]).run = run

(* A chained line is the first of its run, or links to the line before it, *)
(* which is of the same run.                                               *)
LinkedByRun(s) ==
  \A i \in DOMAIN s : s[i].kind = "keyed" =>
    \/ /\ s[i].prev = "genesis"
       /\ \A j \in 1 .. i - 1 : s[j].kind = "keyed" => s[j].run # s[i].run
    \/ /\ i > 1 /\ s[i - 1].kind = "keyed"
       /\ s[i].prev = s[i - 1].entry /\ s[i].run = s[i - 1].run

LinkedOK == \A d \in Days : causes[d] = {} => LinkedByRun(file[d])

ChainInv == TypeOK /\ LinesOK /\ WrittenOK /\ HeadOK /\ LinkedOK
(* Appending to a file gives a file, one line longer unless the last line  *)
(* was torn.                                                               *)
LEMMA AppendedIsFile ==
  ASSUME NEW s \in Seq(Line), NEW l \in Line
  PROVE  /\ Appended(s, l) \in Seq(Line)
         /\ s = <<>> \/ Last(s).kind # "torn" => Appended(s, l) = Append(s, l)
<1>1. s # <<>> => Front(s) \in Seq(Line)
  BY DEF Front
<1>2. [l EXCEPT !.kind = IF @ = "torn" THEN "torn" ELSE "garbled"] \in Line
  BY DEF Line
<1>3. Append(s, l) \in Seq(Line)
  OBVIOUS
<1>4. CASE s # <<>> /\ Last(s).kind = "torn"
  <2> DEFINE t == [l EXCEPT !.kind = IF @ = "torn" THEN "torn" ELSE "garbled"]
  <2>1. Appended(s, l) = Append(Front(s), t)
    BY <1>4 DEF Appended
  <2>2. t \in Line
    BY <1>2
  <2> HIDE DEF t
  <2> QED
    BY <1>1, <1>4, <2>1, <2>2
<1>5. CASE ~(s # <<>> /\ Last(s).kind = "torn")
  <2>1. Appended(s, l) = Append(s, l)
    BY <1>5 DEF Appended
  <2> QED
    BY <1>3, <1>5, <2>1
<1> QED
  BY <1>4, <1>5

(* The last line of a file a line was appended to.                         *)
LEMMA LastOfAppend ==
  ASSUME NEW s \in Seq(Line), NEW l \in Line
  PROVE  Append(s, l) # <<>> /\ Last(Append(s, l)) = l
<1>1. Len(Append(s, l)) = Len(s) + 1 /\ Append(s, l)[Len(s) + 1] = l
  OBVIOUS
<1> QED
  BY <1>1 DEF Last

(* A line of write_audit_entry is a line.                                  *)
LEMMA LineOfIsLine ==
  ASSUME TypeOK, NEW e \in Entries, NEW sealed \in BOOLEAN,
         NEW k \in {"keyed", "no-chain", "torn"}
  PROVE  LineOf(e, k, sealed) \in Line
<1>1. PICK n \in 0 .. MaxKey : n = IF sealed THEN cipherKey ELSE 0
  BY AuditAssumption DEF TypeOK
<1>2. LineOf(e, k, sealed) = [kind |-> k, entry |-> e, prev |-> prev, key |-> hmacKey,
                              seal |-> n, run |-> run]
  BY <1>1 DEF LineOf
<1> QED
  BY <1>1, <1>2 DEF Line, TypeOK

(* Every variable of the log keeps its type.                               *)
LEMMA TypeStep == ASSUME TypeOK, [Next]_vars PROVE TypeOK'
<1> USE DEF Days
<1>1. CASE UNCHANGED vars
  BY <1>1 DEF TypeOK, vars
<1>2. CASE Midnight
  BY <1>2, AuditAssumption DEF TypeOK, Midnight
<1>3. CASE Restart
  BY <1>3, AuditAssumption DEF TypeOK, Restart, Hash
<1>4. CASE LoseKey
  BY <1>4, AuditAssumption DEF TypeOK, LoseKey, Cause
<1>4c. CASE LoseCipher
  BY <1>4c, AuditAssumption DEF TypeOK, LoseCipher, Cause
<1>5. ASSUME NEW e \in Entries, Stamp(e) PROVE TypeOK'
  BY <1>5 DEF TypeOK, Stamp
<1>6. ASSUME NEW e \in Entries, NEW hmacUp \in BOOLEAN, NEW sealed \in BOOLEAN,
             Write(e, hmacUp, sealed)
      PROVE  TypeOK'
  <2> DEFINE d == stamp[e].day
             k == IF hmacUp THEN "keyed" ELSE "no-chain"
             t == Appended(file[d], LineOf(e, k, sealed))
  <2>1. d \in Days /\ file[d] \in Seq(Line)
    BY DEF TypeOK
  <2>2. LineOf(e, k, sealed) \in Line
    BY LineOfIsLine
  <2>3. t \in Seq(Line)
    BY <2>1, <2>2, AppendedIsFile
  <2>4. file' = [file EXCEPT ![d] = t]
    BY <1>6 DEF Write
  <2>5. file' \in [Days -> Seq(Line)]
    <3> HIDE DEF t, d
    <3> QED
      BY <2>1, <2>3, <2>4 DEF TypeOK
  <2>6. prev' \in Hash
    BY <1>6 DEF Write, Hash
  <2>7. stage' \in [Entries -> {"new", "stamped", "written", "failed"}]
    BY <1>6 DEF Write, TypeOK
  <2>8. last' \in 0..MaxDay
    BY <1>6, <2>1, AuditAssumption DEF Write
  <2>9. causes' \in [Days -> SUBSET Cause]
    <3>1. Disturbs(e, hmacUp) \in SUBSET Cause
      BY DEF Disturbs, Cause
    <3>2. causes' = [causes EXCEPT ![d] = @ \cup Disturbs(e, hmacUp)]
      BY <1>6 DEF Write
    <3> QED
      BY <3>1, <3>2, <2>1 DEF TypeOK
  <2> QED
    BY <1>6, <2>5, <2>6, <2>7, <2>8, <2>9 DEF Write, TypeOK
<1>7. ASSUME NEW e \in Entries, OpenFails(e) PROVE TypeOK'
  BY <1>7 DEF TypeOK, OpenFails
<1>8. ASSUME NEW e \in Entries, NEW sealed \in BOOLEAN, WriteCutShort(e, sealed)
      PROVE  TypeOK'
  <2> DEFINE d == stamp[e].day
             t == Appended(file[d], LineOf(e, "torn", sealed))
  <2>1. d \in Days /\ file[d] \in Seq(Line)
    BY DEF TypeOK
  <2>2. t \in Seq(Line)
    BY <2>1, LineOfIsLine, AppendedIsFile
  <2>3. file' = [file EXCEPT ![d] = t] /\ causes' = [causes EXCEPT ![d] = @ \cup {"torn"}]
    BY <1>8 DEF WriteCutShort
  <2>4. file' \in [Days -> Seq(Line)]
    <3> HIDE DEF t, d
    <3> QED
      BY <2>1, <2>2, <2>3 DEF TypeOK
  <2>5. causes' \in [Days -> SUBSET Cause]
    BY <2>1, <2>3 DEF TypeOK, Cause
  <2> QED
    BY <1>8, <2>4, <2>5 DEF WriteCutShort, TypeOK
<1> QED
  BY <1>1, <1>2, <1>3, <1>4, <1>4c, <1>5, <1>6, <1>7, <1>8 DEF Next

(* What appending makes of a file: a line is put after the whole lines, or *)
(* joins the piece of a line the file ends in.                             *)
Grown(s, l, n, t) ==
  /\ t = Appended(s, l) /\ Len(t) = n /\ n <= Len(s) + 1
  /\ \A i \in 1 .. n - 1 : i \in DOMAIN s /\ t[i] = s[i]
  /\ t[n].entry = l.entry /\ t[n].run = l.run /\ t[n].key = l.key /\ t[n].seal = l.seal
  /\ \/ n = Len(s) + 1 /\ t[n] = l
     \/ /\ n = Len(s) /\ s # <<>> /\ Last(s).kind = "torn" /\ s[n].kind = "torn"
        /\ t[n].kind \in {"torn", "garbled"}

(* Appending a line to a file completes its torn last line, or adds one.   *)
LEMMA AppendedLines ==
  ASSUME NEW s \in Seq(Line), NEW l \in Line
  PROVE  \E n \in Nat \ {0}, t \in Seq(Line) : Grown(s, l, n, t)
<1>0. Len(s) \in Nat /\ DOMAIN s = 1 .. Len(s)
  OBVIOUS
<1>1. CASE s # <<>> /\ Last(s).kind = "torn"
  <2> DEFINE x == [l EXCEPT !.kind = IF @ = "torn" THEN "torn" ELSE "garbled"]
             t == Append(Front(s), x)
             n == Len(s)
  <2>1. Appended(s, l) = t
    BY <1>1 DEF Appended
  <2>2. /\ x \in Line /\ x.kind \in {"torn", "garbled"}
        /\ x.entry = l.entry /\ x.run = l.run /\ x.key = l.key /\ x.seal = l.seal
    BY DEF Line
  <2> HIDE DEF x
  <2>3. n >= 1
    BY <1>0, <1>1
  <2>4. Front(s) = [i \in 1 .. n - 1 |-> s[i]]
    BY DEF Front
  <2>5. Front(s) \in Seq(Line) /\ Len(Front(s)) = n - 1 /\ \A i \in 1 .. n - 1 : Front(s)[i] = s[i]
    BY <1>0, <2>3, <2>4
  <2>6. t \in Seq(Line) /\ Len(t) = n /\ t[n] = x /\ \A i \in 1 .. n - 1 : t[i] = s[i]
    BY <2>2, <2>3, <2>5
  <2>7. n \in Nat \ {0} /\ s[n].kind = "torn"
    BY <1>0, <1>1, <2>3 DEF Last
  <2>8. \A i \in 1 .. n - 1 : i \in DOMAIN s
    BY <1>0
  <2> HIDE DEF t, n
  <2>9. n <= Len(s) + 1 /\ n = Len(s)
    BY <1>0 DEF n
  <2>10. Grown(s, l, n, t)
    BY <1>1, <2>1, <2>2, <2>6, <2>7, <2>8, <2>9 DEF Grown
  <2> QED
    BY <2>6, <2>7, <2>10
<1>2. CASE ~(s # <<>> /\ Last(s).kind = "torn")
  <2> DEFINE t == Append(s, l)
             n == Len(s) + 1
  <2>1. Appended(s, l) = t
    BY <1>2 DEF Appended
  <2>2. t \in Seq(Line) /\ Len(t) = n /\ t[n] = l /\ n \in Nat \ {0}
    BY <1>0
  <2>3. \A i \in 1 .. n - 1 : i \in DOMAIN s /\ t[i] = s[i]
    BY <1>0
  <2> HIDE DEF t, n
  <2>4. n <= Len(s) + 1 /\ n = Len(s) + 1
    BY <1>0 DEF n
  <2>5. Grown(s, l, n, t)
    BY <2>1, <2>2, <2>3, <2>4 DEF Grown
  <2> QED
    BY <2>2, <2>5
<1> QED
  BY <1>1, <1>2

(* A write, whole or cut short, keeps what holds of the lines.             *)
LEMMA LogGrows ==
  ASSUME TypeOK, LinesOK, WrittenOK,
         NEW e \in Entries, NEW l \in Line, NEW how \in {"written", "failed"},
         NEW C \in SUBSET Cause, NEW d \in Days, d = stamp[e].day,
         stage[e] = "stamped",
         l.entry = e, l.run = run, l.key = hmacKey, l.seal \in {0, cipherKey},
         l.kind \in {"keyed", "no-chain", "torn"},
         how = "written" => l.kind # "torn",
         l.kind = "torn" => "torn" \in C,
         file[d] # <<>> /\ Last(file[d]).kind = "torn" => "torn" \in C,
         file' = [file EXCEPT ![d] = Appended(file[d], l)],
         stage' = [stage EXCEPT ![e] = how],
         causes' = [causes EXCEPT ![d] = @ \cup C],
         UNCHANGED <<run, hmacKey, cipherKey, stamp>>,
         (prev' = prev /\ l.kind = "torn") \/ prev' \in {e, "none"}
  PROVE  LinesOK' /\ WrittenOK'
<1>0. /\ file[d] \in Seq(Line)
      /\ \A c \in Days : c # d => file'[c] = file[c] /\ causes'[c] = causes[c]
      /\ causes'[d] = causes[d] \cup C /\ file'[d] = Appended(file[d], l)
      /\ \A c \in Days : causes[c] \subseteq causes'[c]
      /\ stage'[e] = how /\ \A x \in Entries : x # e => stage'[x] = stage[x]
  BY DEF TypeOK
<1>g. prev' = prev \/ prev' # "genesis"
  BY AuditAssumption
<1>p. PICK n \in Nat \ {0}, t \in Seq(Line) : Grown(file[d], l, n, t)
  BY <1>0, AppendedLines
<1>1. /\ t = Appended(file[d], l) /\ Len(t) = n /\ n <= Len(file[d]) + 1
      /\ \A i \in 1 .. n - 1 : i \in DOMAIN file[d] /\ t[i] = file[d][i]
      /\ t[n].entry = e /\ t[n].run = run /\ t[n].key = hmacKey /\ t[n].seal \in {0, cipherKey}
  BY <1>p DEF Grown
<1>w. \/ n = Len(file[d]) + 1 /\ t[n] = l
      \/ /\ n = Len(file[d]) /\ "torn" \in C
         /\ file[d][n].kind = "torn" /\ t[n].kind \in {"torn", "garbled"}
  BY <1>p DEF Grown
<1>2. file'[d] = t /\ DOMAIN t = 1 .. n
  BY <1>0, <1>1
<1>3. ASSUME NEW c \in Days, NEW i \in DOMAIN file[c]
      PROVE  file[c][i] \in Line /\ LineOK(c, file[c][i]) /\ file[c][i].entry # e
  <2>1. file[c] \in Seq(Line) /\ file[c][i] \in Line
    BY DEF TypeOK
  <2>2. LineOK(c, file[c][i])
    BY DEF LinesOK
  <2> QED
    BY <2>1, <2>2 DEF LineOK
<1>4. ASSUME NEW c \in Days, NEW x \in Line, LineOK(c, x), x.entry # e
      PROVE  LineOK(c, x)'
  <2>1. stage'[x.entry] = stage[x.entry]
    BY <1>0, <1>4 DEF Line
  <2>2. prev' = "genesis" => prev = "genesis"
    BY <1>g
  <2> QED
    BY <1>0, <1>4, <2>1, <2>2 DEF LineOK
<1>5. LineOK(d, t[n])'
  <2>1. t[n] \in Line
    BY <1>1
  <2>2. l.kind = "keyed" => prev' # "genesis"
    BY AuditAssumption
  <2>3. run \in Nat
    BY DEF TypeOK
  <2>4. t[n].kind = l.kind \/ (t[n].kind \in {"torn", "garbled"} /\ "torn" \in C)
    BY <1>w
  <2>5. t[n].kind = "keyed" => prev' # "genesis"
    BY <2>2, <2>4
  <2>6. t[n].kind \in {"torn", "garbled"} => "torn" \in causes'[d]
    BY <1>0, <2>4
  <2>7. /\ t[n].run = run /\ t[n].key = hmacKey /\ t[n].entry = e
        /\ t[n].seal \in {0, cipherKey}
    BY <1>1
  <2> QED
    BY <1>0, <2>1, <2>3, <2>5, <2>6, <2>7 DEF LineOK
<1>6. LinesOK'
  <2>1. ASSUME NEW c \in Days, NEW i \in DOMAIN file'[c]
        PROVE  /\ LineOK(c, file[c][i])'
               /\ \A j \in DOMAIN file'[c] : file'[c][j].entry = file'[c][i].entry => j = i
    <3>1. CASE c # d
      <4>1. file'[c] = file[c]
        BY <1>0, <3>1
      <4>3. LineOK(c, file[c][i])'
        <5>1. PICK x : x = file[c][i]
          OBVIOUS
        <5>2. LineOK(c, x)'
          BY <1>3, <1>4, <2>1, <4>1, <5>1
        <5> QED
          BY <2>1, <4>1, <5>1, <5>2 DEF LineOK
      <4> QED
        BY <2>1, <4>1, <4>3 DEF LinesOK
    <3>2. CASE c = d
      <4>1. i \in 1 .. n /\ file'[c][i] = t[i]
        BY <1>2, <2>1, <3>2
      <4>2. ASSUME NEW j \in 1 .. n - 1 PROVE t[j].entry # e /\ LineOK(d, t[j])'
        <5>1. j \in DOMAIN file[d] /\ t[j] = file[d][j]
          BY <1>1
        <5>2. t[j] \in Line /\ LineOK(d, t[j]) /\ t[j].entry # e
          BY <1>3, <5>1
        <5>3. LineOK(d, t[j])'
          BY <1>4, <5>2
        <5> QED
          BY <5>2, <5>3
      <4>3. LineOK(d, t[i])'
        BY <1>5, <4>1, <4>2
      <4>4. \A j \in 1 .. n - 1, k \in 1 .. n - 1 : t[j].entry = t[k].entry => j = k
        BY <1>1 DEF LinesOK
      <4>5. \A j \in 1 .. n, k \in 1 .. n : t[j].entry = t[k].entry => j = k
        BY <1>1, <4>2, <4>4
      <4> QED
        BY <1>2, <3>2, <4>1, <4>3, <4>5 DEF LineOK
    <3> QED
      BY <3>1, <3>2
  <2> QED
    BY <2>1 DEF LinesOK, LineOK
<1>7. WrittenOK'
  <2>1. ASSUME NEW x \in Entries, stage'[x] = "written"
        PROVE  Filed(stamp[x].day, x)' \/ "torn" \in causes'[stamp[x].day]
    <3>1. PICK c \in Days : c = stamp[x].day /\ c = stamp'[x].day
      BY DEF TypeOK
    <3>2. CASE x = e
      <4>1. c = d /\ l.kind \in {"keyed", "no-chain"}
        BY <1>0, <2>1, <3>1, <3>2
      <4>2. CASE t[n] = l
        <5>1. n \in DOMAIN t /\ Entire(t[n]) /\ t[n].entry = x
          BY <1>1, <1>2, <3>2, <4>1, <4>2 DEF Entire
        <5>2. Filed(d, x)'
          BY <1>2, <5>1 DEF Filed, Entire
        <5> QED
          BY <3>1, <4>1, <5>2 DEF Filed, Entire
      <4>3. CASE "torn" \in C
        BY <1>0, <3>1, <4>1, <4>3
      <4> QED
        BY <1>w, <4>2, <4>3
    <3>3. CASE x # e
      <4>1. stage[x] = "written" /\ (Filed(c, x) \/ "torn" \in causes[c])
        BY <1>0, <2>1, <3>1, <3>3 DEF WrittenOK
      <4>2. "torn" \in causes[c] => "torn" \in causes'[c]
        BY <1>0, <3>1
      <4>3. ASSUME Filed(c, x) PROVE Filed(c, x)'
        <5>1. PICK i \in DOMAIN file[c] : Entire(file[c][i]) /\ file[c][i].entry = x
          BY <4>3 DEF Filed
        <5>2. CASE c # d
          <6>1. file'[c] = file[c]
            BY <1>0, <3>1, <5>2
          <6> QED
            BY <5>1, <6>1 DEF Filed, Entire
        <5>3. CASE c = d
          <6>1. i \in 1 .. Len(file[d]) /\ Len(file[d]) \in Nat
            BY <1>0, <5>1, <5>3
          <6>2. file[d][i].kind # "torn"
            BY <5>1, <5>3 DEF Entire
          <6>3. i \in 1 .. n - 1
            BY <1>1, <1>w, <6>1, <6>2
          <6>4. i \in DOMAIN t /\ t[i] = file[d][i]
            BY <1>1, <1>2, <6>3
          <6>5. file'[c] = t
            BY <1>2, <5>3
          <6> QED
            BY <5>1, <5>3, <6>4, <6>5 DEF Filed, Entire
        <5> QED
          BY <5>2, <5>3
      <4> QED
        BY <3>1, <4>1, <4>2, <4>3 DEF Filed, Entire
    <3> QED
      BY <3>2, <3>3
  <2> QED
    BY <2>1 DEF WrittenOK, Filed, Entire
<1> QED
  BY <1>6, <1>7

(* A linked file stays linked by a line that is not chained, is the first  *)
(* of its run, or links to the last line.                                  *)
LEMMA AppendLinked ==
  ASSUME NEW s \in Seq(Line), NEW l \in Line, LinkedByRun(s),
         \/ l.kind # "keyed"
         \/ l.prev = "genesis" /\ \A j \in DOMAIN s : s[j].kind = "keyed" => s[j].run # l.run
         \/ /\ s # <<>> /\ Last(s).kind = "keyed"
            /\ l.prev = Last(s).entry /\ l.run = Last(s).run
  PROVE  LinkedByRun(Append(s, l))
<1> DEFINE t == Append(s, l)
<1>1. DOMAIN t = 1..(Len(s) + 1) /\ DOMAIN s = 1..Len(s) /\ Len(s) \in Nat
  OBVIOUS
<1>2. \A i \in 1..Len(s) : t[i] = s[i]
  OBVIOUS
<1>3. t[Len(s) + 1] = l
  OBVIOUS
<1>4. s # <<>> => Len(s) >= 1
  OBVIOUS
<1> HIDE DEF t
<1>5. SUFFICES ASSUME NEW i \in DOMAIN t, t[i].kind = "keyed"
              PROVE  \/ /\ t[i].prev = "genesis"
                        /\ \A j \in 1 .. i - 1 : t[j].kind = "keyed" => t[j].run # t[i].run
                     \/ /\ i > 1 /\ t[i - 1].kind = "keyed"
                        /\ t[i].prev = t[i - 1].entry /\ t[i].run = t[i - 1].run
  BY DEF LinkedByRun, t
<1>6. CASE i \in 1..Len(s)
  <2>1. i \in DOMAIN s /\ t[i] = s[i] /\ (i > 1 => t[i - 1] = s[i - 1])
    BY <1>1, <1>2, <1>6
  <2>2. \A j \in 1 .. i - 1 : t[j] = s[j]
    BY <1>1, <1>2, <1>6
  <2> QED
    BY <1>5, <2>1, <2>2 DEF LinkedByRun
<1>7. CASE i = Len(s) + 1
  <2>1. CASE l.prev = "genesis" /\ \A j \in DOMAIN s : s[j].kind = "keyed" => s[j].run # l.run
    <3>1. \A j \in 1 .. i - 1 : j \in DOMAIN s /\ t[j] = s[j]
      BY <1>1, <1>2, <1>7
    <3> QED
      BY <1>3, <1>7, <2>1, <3>1
  <2>2. CASE s # <<>> /\ Last(s).kind = "keyed" /\ l.prev = Last(s).entry /\ l.run = Last(s).run
    <3>1. Len(s) \in 1..Len(s) /\ i - 1 = Len(s) /\ i > 1
      BY <1>1, <1>4, <1>7, <2>2
    <3>2. t[i-1] = Last(s)
      BY <1>2, <3>1 DEF Last
    <3> QED
      BY <1>3, <1>7, <2>2, <3>1, <3>2
  <2> QED
    BY <1>3, <1>5, <1>7, <2>1, <2>2
<1> QED
  BY <1>1, <1>6, <1>7

(* One step of the log keeps ChainInv.                                     *)
LEMMA ChainStep ==
  ASSUME ChainInv, [Next]_vars PROVE ChainInv'
<1>0. TypeOK /\ LinesOK /\ WrittenOK /\ HeadOK /\ LinkedOK
  BY DEF ChainInv
<1>t. TypeOK'
  BY <1>0, TypeStep
<1>d. \A d \in Days : file[d] \in Seq(Line) /\ \A i \in DOMAIN file[d] : file[d][i] \in Line
  BY <1>0 DEF TypeOK
<1>l. last # 0 => last \in Days
  BY <1>0, AuditAssumption DEF TypeOK, Days
(* The steps that write nothing: what is remembered of the chain stays.    *)
<1>s. ASSUME UNCHANGED <<prev, run, stamp, file, last>>,
             \A e \in Entries :
               \/ stage'[e] = stage[e]
               \/ stage[e] \in {"new", "stamped"} /\ stage'[e] # "written",
             \A d \in Days : causes[d] \subseteq causes'[d],
             hmacKey' = hmacKey \/ \A d \in Days : \A i \in DOMAIN file[d] :
                                     file[d][i].kind = "keyed" => "rekeyed" \in causes'[d],
             cipherKey' = cipherKey \/ \A d \in Days : \A i \in DOMAIN file[d] :
               file[d][i].seal = 0 \/ "resealed" \in causes'[d]
      PROVE  ChainInv'
  <2>1. \A d \in Days : causes'[d] = {} => causes[d] = {}
    BY <1>s
  <2>2. LinkedOK'
    BY <1>0, <1>s, <2>1 DEF LinkedOK, LinkedByRun
  <2>3. HeadOK'
    BY <1>0, <1>l, <1>s, <2>1 DEF HeadOK
  <2>4. LinesOK'
    <3>1. ASSUME NEW d \in Days, NEW i \in DOMAIN file[d] PROVE LineOK(d, file[d][i])'
      <4>1. LineOK(d, file[d][i]) /\ file[d][i].entry \in Entries
        BY <1>0, <1>d DEF LinesOK, Line
      <4> QED
        BY <1>s, <4>1 DEF LineOK
    <3>2. \A d \in Days : \A i \in DOMAIN file[d] : \A j \in DOMAIN file[d] :
            file[d][j].entry = file[d][i].entry => j = i
      BY <1>0 DEF LinesOK
    <3> QED
      BY <1>s, <3>1, <3>2 DEF LinesOK, LineOK
  <2>5. WrittenOK'
    <3>1. ASSUME NEW e \in Entries, stage'[e] = "written"
          PROVE  Filed(stamp[e].day, e)' \/ "torn" \in causes'[stamp[e].day]
      <4>1. stage[e] = "written" /\ stamp[e].day \in Days
        BY <1>0, <1>s, <3>1 DEF TypeOK
      <4> QED
        BY <1>0, <1>s, <4>1 DEF WrittenOK, Filed, Entire
    <3> QED
      BY <1>s, <3>1 DEF WrittenOK, Filed, Entire
  <2> QED
    BY <1>t, <2>2, <2>3, <2>4, <2>5 DEF ChainInv
<1>1. CASE UNCHANGED vars
  BY <1>1, <1>s DEF vars
<1>2. CASE Midnight
  BY <1>2, <1>s DEF Midnight
<1>3. CASE Restart
  <2>0. /\ run' = run + 1 /\ prev' = "genesis" /\ run \in Nat
        /\ UNCHANGED <<hmacKey, cipherKey, stamp, file, causes>>
        /\ \A e \in Entries : stage[e] \in {"written", "failed"} => stage'[e] = stage[e]
        /\ \A e \in Entries : stage'[e] = "written" => stage[e] = "written"
    BY <1>0, <1>3 DEF Restart, TypeOK
  <2>1. HeadOK'
    BY <2>0 DEF HeadOK
  <2>2. LinkedOK'
    BY <1>0, <2>0 DEF LinkedOK, LinkedByRun
  <2>3. LinesOK'
    <3>1. ASSUME NEW d \in Days, NEW i \in DOMAIN file[d] PROVE LineOK(d, file[d][i])'
      <4>1. LineOK(d, file[d][i]) /\ file[d][i].entry \in Entries /\ file[d][i].run \in Nat
        BY <1>0, <1>d DEF LinesOK, Line
      <4> QED
        BY <2>0, <4>1 DEF LineOK
    <3>2. \A d \in Days : \A i \in DOMAIN file[d] : \A j \in DOMAIN file[d] :
            file[d][j].entry = file[d][i].entry => j = i
      BY <1>0 DEF LinesOK
    <3> QED
      BY <2>0, <3>1, <3>2 DEF LinesOK, LineOK
  <2>4. WrittenOK'
    BY <1>0, <2>0 DEF WrittenOK, Filed, Entire
  <2> QED
    BY <1>t, <2>1, <2>2, <2>3, <2>4 DEF ChainInv
<1>4. CASE LoseKey
  BY <1>0, <1>4, <1>s DEF LoseKey, TypeOK
<1>4c. CASE LoseCipher
  <2>1. ASSUME NEW d \in Days, NEW i \in DOMAIN file[d]
        PROVE  file[d][i].seal = 0 \/ "resealed" \in causes'[d]
    <3>1. LineOK(d, file[d][i])
      BY <1>0 DEF LinesOK
    <3>2. file[d][i].seal = cipherKey => "resealed" \in causes'[d]
      BY <1>4c DEF LoseCipher
    <3>3. causes[d] \subseteq causes'[d]
      BY <1>0, <1>4c DEF LoseCipher, TypeOK
    <3> QED
      BY <3>1, <3>2, <3>3 DEF LineOK
  <2>2. /\ UNCHANGED <<prev, run, stamp, file, last, stage, hmacKey>>
        /\ \A d \in Days : causes[d] \subseteq causes'[d]
    BY <1>0, <1>4c DEF LoseCipher, TypeOK
  <2> QED
    BY <1>s, <2>1, <2>2
<1>5. ASSUME NEW e \in Entries, Stamp(e) PROVE ChainInv'
  <2>1. /\ UNCHANGED <<hmacKey, cipherKey, prev, run, file, last, causes>>
        /\ stage[e] = "new" /\ stage'[e] = "stamped"
        /\ \A x \in Entries : x # e => stage'[x] = stage[x] /\ stamp'[x] = stamp[x]
    BY <1>0, <1>5 DEF Stamp, TypeOK
  <2>2. LinkedOK' /\ HeadOK'
    BY <1>0, <2>1 DEF LinkedOK, LinkedByRun, HeadOK
  <2>3. LinesOK'
    <3>1. ASSUME NEW d \in Days, NEW i \in DOMAIN file[d] PROVE LineOK(d, file[d][i])'
      <4>1. LineOK(d, file[d][i]) /\ file[d][i].entry \in Entries
        BY <1>0, <1>d DEF LinesOK, Line
      <4> QED
        BY <2>1, <4>1 DEF LineOK
    <3>2. \A d \in Days : \A i \in DOMAIN file[d] : \A j \in DOMAIN file[d] :
            file[d][j].entry = file[d][i].entry => j = i
      BY <1>0 DEF LinesOK
    <3> QED
      BY <2>1, <3>1, <3>2 DEF LinesOK, LineOK
  <2>4. WrittenOK'
    <3>1. ASSUME NEW x \in Entries, stage'[x] = "written"
          PROVE  stage[x] = "written" /\ stamp'[x] = stamp[x]
      BY <2>1, <3>1
    <3> QED
      BY <1>0, <2>1, <3>1 DEF WrittenOK, Filed, Entire
  <2> QED
    BY <1>t, <2>2, <2>3, <2>4 DEF ChainInv
<1>6. ASSUME NEW e \in Entries, NEW hmacUp \in BOOLEAN, NEW sealed \in BOOLEAN,
             Write(e, hmacUp, sealed)
      PROVE  ChainInv'
  <2> DEFINE k == IF hmacUp THEN "keyed" ELSE "no-chain"
  <2>1. PICK d \in Days : d = stamp[e].day
    BY <1>0 DEF TypeOK
  <2>2. PICK l \in Line : l = LineOf(e, k, sealed)
    BY <1>0, LineOfIsLine
  <2>3. l.kind = k /\ l.entry = e /\ l.prev = prev /\ l.run = run /\ l.key = hmacKey
    BY <2>2 DEF LineOf
  <2>3s. l.seal \in {0, cipherKey}
    BY <2>2 DEF LineOf
  <2>4. /\ stage[e] = "stamped"
        /\ file' = [file EXCEPT ![d] = Appended(file[d], l)]
        /\ stage' = [stage EXCEPT ![e] = "written"]
        /\ causes' = [causes EXCEPT ![d] = @ \cup Disturbs(e, hmacUp)]
        /\ prev' = IF hmacUp THEN e ELSE "none"
        /\ last' = d
        /\ UNCHANGED <<run, hmacKey, cipherKey, stamp>>
    BY <1>6, <2>1, <2>2 DEF Write
  <2>5. PICK C \in SUBSET Cause : C = Disturbs(e, hmacUp)
    BY DEF Disturbs, Cause
  <2>6. /\ k = "keyed" /\ prev = "none" => C # {}
        /\ k = "keyed" /\ last \notin {0, d} => C # {}
        /\ file[d] # <<>> /\ Last(file[d]).kind = "torn" => "torn" \in C
    BY <2>1, <2>5 DEF Disturbs
  <2>7. k \in {"keyed", "no-chain"} /\ (hmacUp <=> k = "keyed")
    OBVIOUS
  <2> HIDE DEF k
  <2>8. causes' = [causes EXCEPT ![d] = @ \cup C] /\ prev' \in {e, "none"}
    BY <2>4, <2>5
  <2>9. LinesOK' /\ WrittenOK'
    <3>1. PICK how \in {"written", "failed"} : how = "written"
      OBVIOUS
    <3>2. /\ l.kind \in {"keyed", "no-chain", "torn"} /\ l.kind # "torn"
          /\ l.entry = e /\ l.run = run /\ l.key = hmacKey
      BY <2>3, <2>7
    <3>3. how = "written" => l.kind # "torn"
      BY <3>2
    <3>4. file[d] # <<>> /\ Last(file[d]).kind = "torn" => "torn" \in C
      BY <2>6
    <3>5. /\ stage[e] = "stamped" /\ stage' = [stage EXCEPT ![e] = how]
          /\ file' = [file EXCEPT ![d] = Appended(file[d], l)]
          /\ UNCHANGED <<run, hmacKey, cipherKey, stamp>>
      BY <2>4, <3>1
    <3>6. (prev' = prev /\ l.kind = "torn") \/ prev' \in {e, "none"}
      BY <2>8
    <3>7. l.kind = "torn" => "torn" \in C
      BY <3>2
    <3> QED
      BY <1>0, <2>1, <2>3s, <2>8, <3>2, <3>3, <3>4, <3>5, <3>6, <3>7, LogGrows
  <2>10. /\ \A c \in Days : c # d => file'[c] = file[c] /\ causes'[c] = causes[c]
         /\ causes'[d] = causes[d] \cup C /\ file'[d] = Appended(file[d], l)
    BY <1>0, <2>4, <2>8 DEF TypeOK
  <2>11. ASSUME causes'[d] = {}
         PROVE  /\ causes[d] = {} /\ C = {}
                /\ file'[d] = Append(file[d], l)
    <3>1. causes[d] = {} /\ C = {}
      BY <2>10, <2>11
    <3>2. file[d] = <<>> \/ Last(file[d]).kind # "torn"
      BY <2>6, <3>1
    <3>3. file[d] \in Seq(Line)
      BY <1>d
    <3>4. Appended(file[d], l) = Append(file[d], l)
      BY <3>2, <3>3, AppendedIsFile
    <3> QED
      BY <2>10, <3>1, <3>4
  <2>12. HeadOK'
    <3>0. file[d] \in Seq(Line)
      BY <1>d
    <3>1. causes'[d] = {} => file'[d] # <<>> /\ Last(file'[d]) = l
      BY <2>11, <3>0, LastOfAppend
    <3>2. prev' # "none" => prev' = e /\ k = "keyed"
      BY <2>4, <2>7
    <3>3. d # 0
      BY AuditAssumption DEF Days
    <3> QED
      BY <2>3, <2>4, <3>1, <3>2, <3>3 DEF HeadOK
  <2>13. ASSUME NEW c \in Days, causes'[c] = {} PROVE LinkedByRun(file'[c])
    <3>1. CASE c # d
      <4>1. file'[c] = file[c] /\ causes[c] = {}
        BY <2>10, <2>13, <3>1
      <4> QED
        BY <1>0, <4>1 DEF LinkedOK
    <3>2. CASE c = d
      <4>1. causes[d] = {} /\ C = {} /\ file'[d] = Append(file[d], l) /\ LinkedByRun(file[d])
        BY <1>0, <2>11, <2>13, <3>2 DEF LinkedOK
      <4>2. CASE k = "keyed" /\ prev = "genesis"
        <5>1. \A j \in DOMAIN file[d] : file[d][j].kind = "keyed" => file[d][j].run # run
          BY <1>0, <4>2 DEF LinesOK, LineOK
        <5> QED
          BY <1>d, <2>3, <3>2, <4>1, <4>2, <5>1, AppendLinked
      <4>3. CASE k = "keyed" /\ prev # "genesis"
        <5>1. prev \notin {"genesis", "none"} /\ last \in {0, d}
          BY <2>6, <4>1, <4>3
        <5>2. last = d
          BY <1>0, <5>1 DEF HeadOK
        <5>3. /\ file[d] # <<>> /\ Last(file[d]).kind = "keyed"
              /\ Last(file[d]).entry = prev /\ Last(file[d]).run = run
          BY <1>0, <4>1, <5>1, <5>2 DEF HeadOK
        <5> QED
          BY <1>d, <2>3, <3>2, <4>1, <5>3, AppendLinked
      <4>4. CASE k # "keyed"
        BY <1>d, <2>3, <3>2, <4>1, <4>4, AppendLinked
      <4> QED
        BY <4>2, <4>3, <4>4
    <3> QED
      BY <3>1, <3>2
  <2>14. LinkedOK'
    BY <2>13 DEF LinkedOK, LinkedByRun
  <2> QED
    BY <1>t, <2>9, <2>12, <2>14 DEF ChainInv
<1>7. ASSUME NEW e \in Entries, OpenFails(e) PROVE ChainInv'
  <2>1. \A x \in Entries : stage'[x] = stage[x] \/ (stage[x] = "stamped" /\ stage'[x] = "failed")
    BY <1>0, <1>7 DEF OpenFails, TypeOK
  <2> QED
    BY <1>7, <1>s, <2>1 DEF OpenFails
<1>8. ASSUME NEW e \in Entries, NEW sealed \in BOOLEAN, WriteCutShort(e, sealed)
      PROVE  ChainInv'
  <2>1. PICK d \in Days : d = stamp[e].day
    BY <1>0 DEF TypeOK
  <2>2. PICK l \in Line : l = LineOf(e, "torn", sealed)
    BY <1>0, LineOfIsLine
  <2>3. l.kind = "torn" /\ l.entry = e /\ l.run = run /\ l.key = hmacKey
    BY <2>2 DEF LineOf
  <2>3s. l.seal \in {0, cipherKey}
    BY <2>2 DEF LineOf
  <2>4. /\ stage[e] = "stamped"
        /\ file' = [file EXCEPT ![d] = Appended(file[d], l)]
        /\ stage' = [stage EXCEPT ![e] = "failed"]
        /\ causes' = [causes EXCEPT ![d] = @ \cup {"torn"}]
        /\ UNCHANGED <<prev, last, run, hmacKey, cipherKey, stamp>>
    BY <1>8, <2>1, <2>2 DEF WriteCutShort
  <2>5. PICK C \in SUBSET Cause : C = {"torn"}
    BY DEF Cause
  <2>6. causes' = [causes EXCEPT ![d] = @ \cup C]
    BY <2>4, <2>5
  <2>7. LinesOK' /\ WrittenOK'
    BY <1>0, <2>1, <2>3, <2>3s, <2>4, <2>5, <2>6, LogGrows
  <2>8. \A c \in Days : causes'[c] = {} => file'[c] = file[c] /\ causes[c] = {}
    BY <1>0, <2>4 DEF TypeOK
  <2>9. HeadOK'
    BY <1>0, <1>l, <2>4, <2>8 DEF HeadOK
  <2>10. LinkedOK'
    BY <1>0, <2>8 DEF LinkedOK, LinkedByRun
  <2> QED
    BY <1>t, <2>7, <2>9, <2>10 DEF ChainInv
<1> QED
  BY <1>1, <1>2, <1>3, <1>4, <1>4c, <1>5, <1>6, <1>7, <1>8 DEF Next

(* The log starts empty, and ChainInv holds of it.                         *)
LEMMA ChainInit == ASSUME Init PROVE ChainInv
<1>1. TypeOK
  BY AuditAssumption DEF Init, TypeOK, Days, Hash
<1>2. \A d \in Days : DOMAIN file[d] = {}
  BY DEF Init
<1> QED
  BY <1>1, <1>2 DEF Init, ChainInv, LinesOK, WrittenOK, HeadOK, LinkedOK, LinkedByRun

(* A trace of the check over the first n lines of a file.                  *)
Trace(d, n, f) ==
  f = [m \in 0 .. n |-> IF m = 0 THEN Unchecked ELSE VerifyLine(f[m - 1], file[d][m], TRUE)]

(* The check of a file has a trace, and its verdict is the last element.   *)
LEMMA TraceExists ==
  ASSUME TypeOK, NEW d \in Days, NEW n \in Nat
  PROVE  \E f : Trace(d, n, f)
<1> DEFINE T == {m \in Nat : ~\E f : Trace(d, m, f)}
<1>1. SUFFICES ASSUME T # {} PROVE FALSE
  OBVIOUS
<1>2. T \subseteq Nat
  OBVIOUS
<1>3. PICK m \in T : \A k \in T : m <= k
  BY <1>1, <1>2, LeastNatural
<1>4. m # 0
  <2> DEFINE f == [k \in 0 .. 0 |-> Unchecked]
  <2>1. Trace(d, 0, f)
    BY DEF Trace
  <2> QED
    BY <1>3, <2>1
<1>5. m - 1 \in Nat /\ m - 1 \notin T /\ m \in Nat
  BY <1>3, <1>4
<1>6. PICK g : Trace(d, m - 1, g)
  BY <1>5
<1> DEFINE f == [k \in 0 .. m |-> IF k = m THEN VerifyLine(g[m - 1], file[d][m], TRUE) ELSE g[k]]
<1>7. \A k \in 0 .. m - 1 :
        g[k] = IF k = 0 THEN Unchecked ELSE VerifyLine(g[k - 1], file[d][k], TRUE)
  BY <1>6 DEF Trace
<1>8. ASSUME NEW k \in 0 .. m
      PROVE  f[k] = IF k = 0 THEN Unchecked ELSE VerifyLine(f[k - 1], file[d][k], TRUE)
  <2>1. CASE k = m
    <3>1. k # 0 /\ k - 1 \in 0 .. m /\ k - 1 # m
      BY <1>4, <1>5, <2>1
    <3>2. f[k] = VerifyLine(g[m - 1], file[d][m], TRUE) /\ f[k - 1] = g[m - 1]
      BY <2>1, <3>1
    <3> QED
      BY <2>1, <3>1, <3>2
  <2>2. CASE k # m
    <3>1. k \in 0 .. m - 1 /\ f[k] = g[k]
      BY <1>5, <2>2
    <3>2. k # 0 => k - 1 \in 0 .. m /\ k - 1 # m
      BY <1>5, <3>1
    <3>3. k # 0 => f[k - 1] = g[k - 1]
      BY <3>2
    <3> QED
      BY <1>7, <3>1, <3>3
  <2> QED
    BY <2>1, <2>2
<1>9. Trace(d, m, f)
  <2>1. DOMAIN f = 0 .. m
    OBVIOUS
  <2> DEFINE h == [k \in 0 .. m |->
                    IF k = 0 THEN Unchecked ELSE VerifyLine(f[k - 1], file[d][k], TRUE)]
  <2>2. \A k \in 0 .. m : f[k] = h[k]
    BY <1>8
  <2>3. f = h
    BY <2>2
  <2> QED
    BY <2>3 DEF Trace
<1> QED
  BY <1>3, <1>9

(* What the check says of a file is the last value of its trace.           *)
LEMMA VerifyIsTrace ==
  ASSUME TypeOK, NEW d \in Days
  PROVE  \E f : Trace(d, Len(file[d]), f) /\ Verify(d, TRUE) = f[Len(file[d])]
<1>1. Len(file[d]) \in Nat
  BY DEF TypeOK
<1> DEFINE h == CHOOSE f : Trace(d, Len(file[d]), f)
<1>2. Trace(d, Len(file[d]), h)
  BY <1>1, TraceExists
<1>3. Verify(d, TRUE) = h[Len(file[d])]
  BY DEF Verify, Trace
<1> QED
  BY <1>2, <1>3

Verdict == [ok : BOOLEAN, expected : Hash, checked : Nat, skipped : Nat, subChains : Nat]

(* What the check makes of a line that has its place in the chain, and of  *)
(* one that is not chained.                                                *)
LEMMA VerifyLinked ==
  ASSUME TypeOK, NEW r \in Verdict, r.ok, NEW l \in Line, l.kind = "keyed", l.key = hmacKey,
         l.seal \in {0, cipherKey}, l.prev = "genesis" \/ l.prev = r.expected
  PROVE  /\ VerifyLine(r, l, TRUE) \in Verdict /\ VerifyLine(r, l, TRUE).ok
         /\ VerifyLine(r, l, TRUE).expected = l.entry
         /\ VerifyLine(r, l, TRUE).checked = r.checked + 1
         /\ VerifyLine(r, l, TRUE).subChains = r.subChains + IF l.prev = "genesis" THEN 1 ELSE 0
<1>1. Readable(l, TRUE)
  BY DEF Readable
<1>2. VerifyLine(r, l, TRUE) = [r EXCEPT !.expected = l.entry, !.checked = @ + 1,
                                !.subChains = @ + IF l.prev = "genesis" THEN 1 ELSE 0]
  BY <1>1 DEF VerifyLine
<1>3. l.entry \in Hash
  BY DEF Line, Hash
<1>4. PICK k \in Nat : k = r.subChains + IF l.prev = "genesis" THEN 1 ELSE 0
  BY DEF Verdict
<1>5. VerifyLine(r, l, TRUE) = [r EXCEPT !.expected = l.entry, !.checked = r.checked + 1,
                                !.subChains = k]
  BY <1>2, <1>4
<1>6. VerifyLine(r, l, TRUE) = [ok |-> TRUE, expected |-> l.entry, checked |-> r.checked + 1,
                                skipped |-> r.skipped, subChains |-> k]
  BY <1>5 DEF Verdict
<1>7. r.checked \in Nat /\ r.skipped \in Nat
  BY DEF Verdict
<1>8. PICK v : v = [ok |-> TRUE, expected |-> l.entry, checked |-> r.checked + 1,
                    skipped |-> r.skipped, subChains |-> k]
  OBVIOUS
<1>9. v \in Verdict
  BY <1>3, <1>7, <1>8 DEF Verdict
<1>10. v.ok /\ v.expected = l.entry /\ v.checked = r.checked + 1 /\ v.subChains = k
  BY <1>8
<1>11. VerifyLine(r, l, TRUE) = v
  BY <1>6, <1>8
<1> QED
  BY <1>4, <1>9, <1>10, <1>11

(* A line without a chain is passed over.                                  *)
LEMMA VerifyUnchained ==
  ASSUME NEW r \in Verdict, r.ok, NEW l \in Line, l.kind = "no-chain", l.seal \in {0, cipherKey}
  PROVE  /\ VerifyLine(r, l, TRUE) \in Verdict /\ VerifyLine(r, l, TRUE).ok
         /\ VerifyLine(r, l, TRUE).checked = r.checked
         /\ VerifyLine(r, l, TRUE).subChains = r.subChains
<1>1. Readable(l, TRUE)
  BY DEF Readable
<1>2. VerifyLine(r, l, TRUE) = [r EXCEPT !.skipped = @ + 1]
  BY <1>1 DEF VerifyLine
<1>3. VerifyLine(r, l, TRUE) = [ok |-> TRUE, expected |-> r.expected, checked |-> r.checked,
                                skipped |-> r.skipped + 1, subChains |-> r.subChains]
  BY <1>2 DEF Verdict
<1>4. r.expected \in Hash /\ r.checked \in Nat /\ r.skipped + 1 \in Nat /\ r.subChains \in Nat
  BY DEF Verdict
<1>5. PICK v : v = [ok |-> TRUE, expected |-> r.expected, checked |-> r.checked,
                    skipped |-> r.skipped + 1, subChains |-> r.subChains]
  OBVIOUS
<1>6. v \in Verdict
  BY <1>4, <1>5 DEF Verdict
<1>7. v.ok /\ v.checked = r.checked /\ v.subChains = r.subChains
  BY <1>5
<1> QED
  BY <1>3, <1>5, <1>6, <1>7

(* The chained lines among the first n, and the runs they are of.          *)
KeyedTo(s, n) == {i \in 1 .. n : s[i].kind = "keyed"}
RunsTo(s, n) == {s[i].run : i \in KeyedTo(s, n)}
CheckedTo(s, n, r) ==
  /\ r \in Verdict /\ r.ok
  /\ r.checked = Cardinality(KeyedTo(s, n)) /\ IsFiniteSet(KeyedTo(s, n))
  /\ r.subChains = Cardinality(RunsTo(s, n)) /\ IsFiniteSet(RunsTo(s, n))
  /\ n > 0 /\ s[n].kind = "keyed" => r.expected = s[n].entry

(* One more line of a linked file.                                         *)
LEMMA CheckedOneMore ==
  ASSUME TypeOK, NEW s \in Seq(Line), LinkedByRun(s),
         \A i \in DOMAIN s : /\ s[i].kind \in {"keyed", "no-chain"}
                             /\ s[i].kind = "keyed" => s[i].key = hmacKey
                             /\ s[i].seal \in {0, cipherKey},
         NEW n \in 1 .. Len(s), NEW r, CheckedTo(s, n - 1, r)
  PROVE  CheckedTo(s, n, VerifyLine(r, s[n], TRUE))
<1> DEFINE l == s[n]
           K == KeyedTo(s, n - 1)
           R == RunsTo(s, n - 1)
<1>1. /\ r \in Verdict /\ r.ok
      /\ r.checked = Cardinality(K) /\ IsFiniteSet(K)
      /\ r.subChains = Cardinality(R) /\ IsFiniteSet(R)
      /\ n - 1 > 0 /\ s[n - 1].kind = "keyed" => r.expected = s[n - 1].entry
  BY DEF CheckedTo
<1>2. n \in DOMAIN s /\ n \in Nat /\ l \in Line /\ DOMAIN s = 1 .. Len(s) /\ Len(s) \in Nat
  OBVIOUS
<1>3. /\ l.kind \in {"keyed", "no-chain"} /\ (l.kind = "keyed" => l.key = hmacKey)
      /\ l.seal \in {0, cipherKey}
  BY <1>2
<1>4. CASE l.kind = "no-chain"
  <2>1. KeyedTo(s, n) = K
    BY <1>2, <1>4 DEF KeyedTo
  <2>2. RunsTo(s, n) = R
    BY <2>1 DEF RunsTo
  <2> HIDE DEF K, R
  <2> QED
    BY <1>1, <1>2, <1>3, <1>4, <2>1, <2>2, VerifyUnchained DEF CheckedTo
<1>5. CASE l.kind = "keyed"
  <2>1. KeyedTo(s, n) = K \cup {n} /\ n \notin K
    BY <1>2, <1>5 DEF KeyedTo
  <2>2. RunsTo(s, n) = R \cup {l.run}
    BY <2>1 DEF RunsTo
  <2>3. /\ Cardinality(K \cup {n}) = Cardinality(K) + 1 /\ IsFiniteSet(K \cup {n})
    BY <1>1, <2>1, FS_AddElement
  <2>4. CASE /\ l.prev = "genesis"
             /\ \A j \in 1 .. n - 1 : s[j].kind = "keyed" => s[j].run # l.run
    <3>1. l.run \notin R
      BY <2>4 DEF RunsTo, KeyedTo
    <3>2. Cardinality(R \cup {l.run}) = Cardinality(R) + 1 /\ IsFiniteSet(R \cup {l.run})
      BY <1>1, <3>1, FS_AddElement
    <3>3. /\ VerifyLine(r, l, TRUE) \in Verdict /\ VerifyLine(r, l, TRUE).ok
          /\ VerifyLine(r, l, TRUE).expected = l.entry
          /\ VerifyLine(r, l, TRUE).checked = r.checked + 1
          /\ VerifyLine(r, l, TRUE).subChains = r.subChains + IF l.prev = "genesis" THEN 1 ELSE 0
      BY <1>1, <1>2, <1>3, <1>5, <2>4, VerifyLinked
    <3>4. VerifyLine(r, l, TRUE).subChains = r.subChains + 1
      BY <2>4, <3>3
    <3> HIDE DEF K, R
    <3> QED
      BY <1>1, <1>5, <2>1, <2>2, <2>3, <3>2, <3>3, <3>4 DEF CheckedTo
  <2>5. CASE /\ n > 1 /\ s[n - 1].kind = "keyed"
             /\ l.prev = s[n - 1].entry /\ l.run = s[n - 1].run
    <3>1. n - 1 \in 1 .. n - 1 /\ n - 1 > 0 /\ n - 1 \in DOMAIN s
      BY <1>2, <2>5
    <3>2. l.run \in R
      BY <2>5, <3>1 DEF RunsTo, KeyedTo
    <3>3. R \cup {l.run} = R
      BY <3>2
    <3>4. l.prev = r.expected /\ s[n - 1] \in Line
      BY <1>1, <2>5, <3>1
    <3>5. l.prev # "genesis"
      <4>1. s[n - 1].entry \in Entries
        BY <3>4 DEF Line
      <4> QED
        BY <2>5, <4>1, AuditAssumption
    <3>6. /\ VerifyLine(r, l, TRUE) \in Verdict /\ VerifyLine(r, l, TRUE).ok
          /\ VerifyLine(r, l, TRUE).expected = l.entry
          /\ VerifyLine(r, l, TRUE).checked = r.checked + 1
          /\ VerifyLine(r, l, TRUE).subChains = r.subChains + IF l.prev = "genesis" THEN 1 ELSE 0
      BY <1>1, <1>2, <1>3, <1>5, <3>4, VerifyLinked
    <3>7. VerifyLine(r, l, TRUE).subChains = r.subChains
      <4>1. r.subChains \in Nat
        BY <1>1 DEF Verdict
      <4>2. r.subChains + (IF l.prev = "genesis" THEN 1 ELSE 0) = r.subChains
        BY <3>5, <4>1
      <4> QED
        BY <3>6, <4>2
    <3> HIDE DEF K, R
    <3> QED
      BY <1>1, <1>5, <2>1, <2>2, <2>3, <3>3, <3>6, <3>7 DEF CheckedTo
  <2>6. \/ /\ l.prev = "genesis"
           /\ \A j \in 1 .. n - 1 : s[j].kind = "keyed" => s[j].run # l.run
        \/ /\ n > 1 /\ s[n - 1].kind = "keyed"
           /\ l.prev = s[n - 1].entry /\ l.run = s[n - 1].run
    BY <1>2, <1>5 DEF LinkedByRun
  <2> QED
    BY <2>4, <2>5, <2>6
<1> QED
  BY <1>3, <1>4, <1>5

(* A file nothing disturbed is checked to its end.                         *)
LEMMA UndisturbedChecked ==
  ASSUME ChainInv, NEW d \in Days, causes[d] = {}
  PROVE  CheckedTo(file[d], Len(file[d]), Verify(d, TRUE))
<1>0. TypeOK /\ LinesOK /\ LinkedByRun(file[d])
  BY DEF ChainInv, LinkedOK
<1>1. PICK s \in Seq(Line) : s = file[d]
  BY <1>0 DEF TypeOK
<1>2. PICK f : Trace(d, Len(s), f) /\ Verify(d, TRUE) = f[Len(s)]
  BY <1>0, <1>1, VerifyIsTrace
<1>3. Len(s) \in Nat /\ DOMAIN s = 1 .. Len(s)
  BY <1>1
<1>4. \A m \in 0 .. Len(s) :
        f[m] = IF m = 0 THEN Unchecked ELSE VerifyLine(f[m - 1], s[m], TRUE)
  BY <1>1, <1>2 DEF Trace
<1>5. \A i \in DOMAIN s : /\ s[i].kind \in {"keyed", "no-chain"}
                          /\ s[i].kind = "keyed" => s[i].key = hmacKey
                          /\ s[i].seal \in {0, cipherKey}
  <2>1. ASSUME NEW i \in DOMAIN s
        PROVE  /\ s[i].kind \in {"keyed", "no-chain"}
               /\ s[i].kind = "keyed" => s[i].key = hmacKey
               /\ s[i].seal \in {0, cipherKey}
    <3>1. LineOK(d, s[i]) /\ s[i] \in Line
      BY <1>0, <1>1 DEF LinesOK
    <3> QED
      BY <3>1 DEF LineOK, Line
  <2> QED
    BY <2>1
<1> DEFINE T == {m \in 0 .. Len(s) : ~CheckedTo(s, m, f[m])}
<1>6. T = {}
  <2>1. SUFFICES ASSUME T # {} PROVE FALSE
    OBVIOUS
  <2>2. T \subseteq Nat
    BY <1>3
  <2>3. PICK m \in T : \A k \in T : m <= k
    BY <2>1, <2>2, LeastNatural
  <2>4. CheckedTo(s, 0, f[0])
    <3>0. 0 \in 0 .. Len(s)
      BY <1>3
    <3>1. f[0] = Unchecked
      BY <1>4, <3>0
    <3>2. KeyedTo(s, 0) = {}
      BY DEF KeyedTo
    <3>3. RunsTo(s, 0) = {}
      BY <3>2 DEF RunsTo
    <3>4. Unchecked \in Verdict /\ Unchecked.ok /\ Unchecked.checked = 0 /\ Unchecked.subChains = 0
      BY DEF Unchecked, Verdict, Hash
    <3>5. IsFiniteSet({}) /\ Cardinality({}) = 0
      BY FS_EmptySet
    <3>6. /\ Unchecked.checked = Cardinality(KeyedTo(s, 0)) /\ IsFiniteSet(KeyedTo(s, 0))
          /\ Unchecked.subChains = Cardinality(RunsTo(s, 0)) /\ IsFiniteSet(RunsTo(s, 0))
      BY <3>2, <3>3, <3>4, <3>5
    <3>7. CheckedTo(s, 0, Unchecked)
      <4> HIDE DEF Unchecked
      <4> QED
        BY <3>4, <3>6 DEF CheckedTo
    <3> QED
      BY <3>1, <3>7
  <2>5. m \in 1 .. Len(s) /\ m - 1 \in 0 .. Len(s) /\ m - 1 \notin T
    <3>1. m \in 0 .. Len(s) /\ m # 0
      BY <2>3, <2>4
    <3> QED
      BY <1>3, <2>3, <3>1
  <2>6. CheckedTo(s, m - 1, f[m - 1])
    BY <2>5
  <2>7. CheckedTo(s, m, VerifyLine(f[m - 1], s[m], TRUE))
    BY <1>0, <1>1, <1>5, <2>5, <2>6, CheckedOneMore
  <2>8. f[m] = VerifyLine(f[m - 1], s[m], TRUE)
    <3>1. m \in 0 .. Len(s) /\ m # 0
      BY <1>3, <2>5
    <3> QED
      BY <1>4, <3>1
  <2> QED
    BY <2>3, <2>7, <2>8
<1>7. Len(s) \in 0 .. Len(s)
  BY <1>3
<1>8. CheckedTo(s, Len(s), f[Len(s)])
  BY <1>6, <1>7
<1> QED
  BY <1>1, <1>2, <1>8

(* What the runs check follows from ChainInv.                              *)
LEMMA ChainSuffices ==
  ASSUME ChainInv
  PROVE  UndisturbedVerifies /\ SubChainsAreRuns /\ WrittenIsRead
<1>0. TypeOK /\ LinesOK /\ WrittenOK
  BY DEF ChainInv
<1>1. ASSUME NEW d \in Days, causes[d] = {}
      PROVE  /\ Verify(d, TRUE).ok
             /\ Verify(d, TRUE).checked = Cardinality(Keyed(d))
             /\ Verify(d, TRUE).subChains = Cardinality({file[d][i].run : i \in Keyed(d)})
  <2>1. CheckedTo(file[d], Len(file[d]), Verify(d, TRUE))
    BY <1>1, UndisturbedChecked
  <2>2. DOMAIN file[d] = 1 .. Len(file[d])
    BY <1>0 DEF TypeOK
  <2>3. Keyed(d) = KeyedTo(file[d], Len(file[d]))
    BY <2>2 DEF Keyed, KeyedTo
  <2>4. {file[d][i].run : i \in Keyed(d)} = RunsTo(file[d], Len(file[d]))
    BY <2>3 DEF RunsTo
  <2> QED
    BY <2>1, <2>3, <2>4 DEF CheckedTo
<1>2. ASSUME NEW e \in Entries, stage[e] = "written"
      PROVE  LET found == {i \in DOMAIN file[stamp[e].day] :
                             /\ Readable(file[stamp[e].day][i], TRUE)
                             /\ file[stamp[e].day][i].entry = e}
             IN \/ Cardinality(found) = 1
                \/ found = {} /\ {"torn", "resealed"} \cap causes[stamp[e].day] # {}
  <2>1. PICK d \in Days : d = stamp[e].day
    BY <1>0 DEF TypeOK
  <2> DEFINE found == {i \in DOMAIN file[d] : Readable(file[d][i], TRUE) /\ file[d][i].entry = e}
  <2>2. found # {} \/ {"torn", "resealed"} \cap causes[d] # {}
    <3>1. CASE "torn" \in causes[d]
      BY <3>1
    <3>2. CASE Filed(d, e)
      <4>1. PICK i \in DOMAIN file[d] : Entire(file[d][i]) /\ file[d][i].entry = e
        BY <3>2 DEF Filed
      <4>2. file[d][i].seal \in {0, cipherKey} \/ "resealed" \in causes[d]
        BY <1>0, <4>1 DEF LinesOK, LineOK
      <4>3. CASE file[d][i].seal \in {0, cipherKey}
        <5>1. Readable(file[d][i], TRUE)
          BY <4>1, <4>3 DEF Readable, Entire
        <5> QED
          BY <4>1, <5>1
      <4>4. CASE "resealed" \in causes[d]
        BY <4>4
      <4> QED
        BY <4>2, <4>3, <4>4
    <3> QED
      BY <1>0, <1>2, <2>1, <3>1, <3>2 DEF WrittenOK
  <2>3. \A i \in found, j \in found : i = j
    BY <1>0 DEF LinesOK
  <2>4. ASSUME NEW i \in found PROVE Cardinality(found) = 1
    <3>1. found = {i}
      BY <2>3
    <3> HIDE DEF found
    <3> QED
      BY <3>1, FS_Singleton
  <2>5. \/ Cardinality(found) = 1
        \/ found = {} /\ {"torn", "resealed"} \cap causes[d] # {}
    BY <2>2, <2>4
  <2> QED
    BY <2>1, <2>5
<1> QED
  BY <1>1, <1>2 DEF UndisturbedVerifies, SubChainsAreRuns, WrittenIsRead

(* A file linked run by run is linked.                                     *)
LEMMA LinkedSuffices == ASSUME ChainInv PROVE UndisturbedIsLinked
BY DEF ChainInv, LinkedOK, LinkedByRun, UndisturbedIsLinked, Linked

(* Every variable of the audit log stays within its type.                  *)
THEOREM LogTypeCorrect == Spec => []TypeOK
<1>1. ChainInv => TypeOK
  BY DEF ChainInv
<1> QED
  BY <1>1, ChainInit, ChainStep, PTL DEF Spec

(* In a file no failure disturbed, every chained line starts a sub-chain   *)
(* or links to the chained line right before it.                           *)
THEOREM LinkedUnlessDisturbed == Spec => []UndisturbedIsLinked
BY LinkedSuffices, ChainInit, ChainStep, PTL DEF Spec

-----------------------------------------------------------------------------
(***************************************************************************)
(* The calls on the workspace's connection.                                *)
(***************************************************************************)

IsProgram(p) == p # <<>> /\ \E T : p \in Seq(T)

(* Programs may be put one behind the other.                               *)
LEMMA IsProgramConcat ==
  ASSUME NEW p, NEW q, IsProgram(p), IsProgram(q)
  PROVE  IsProgram(p \o q)
<1>1. PICK S, T : p \in Seq(S) /\ q \in Seq(T)
  BY DEF IsProgram
<1>2. p \in Seq(S \cup T) /\ q \in Seq(S \cup T)
  BY <1>1, SeqMonotonic
<1>3. p \o q \in Seq(S \cup T) /\ Len(p \o q) = Len(p) + Len(q) /\ Len(p) \in Nat \ {0} /\ Len(q) \in Nat
  BY <1>2, ConcatProperties DEF IsProgram
<1> QED
  BY <1>3 DEF IsProgram

(* The short programs are programs.                                        *)
LEMMA Short ==
  /\ \A s : IsProgram(<<s>>)
  /\ \A s, t : IsProgram(<<s, t>>) /\ IsProgram(OrElse(s, t))
  /\ \A s, t, u : IsProgram(<<s, t, u>>)
  /\ \A s, t, u, v : IsProgram(<<s, t, u, v>>)
  /\ \A s, t, u, v, w : IsProgram(<<s, t, u, v, w>>)
  /\ \A s, t, u, v, w, x : IsProgram(<<s, t, u, v, w, x>>)
<1>1. ASSUME NEW s PROVE IsProgram(<<s>>)
  <2>1. <<s>> \in Seq({s})
    OBVIOUS
  <2> QED BY <2>1 DEF IsProgram
<1>2. ASSUME NEW s, NEW t PROVE IsProgram(<<s, t>>)
  <2>1. <<s, t>> \in Seq({s, t})
    OBVIOUS
  <2> QED BY <2>1 DEF IsProgram
<1>3. ASSUME NEW s, NEW t, NEW u PROVE IsProgram(<<s, t, u>>)
  <2>1. <<s, t, u>> \in Seq({s, t, u})
    OBVIOUS
  <2> QED BY <2>1 DEF IsProgram
<1>4. ASSUME NEW s, NEW t, NEW u, NEW v PROVE IsProgram(<<s, t, u, v>>)
  <2>1. <<s, t, u, v>> \in Seq({s, t, u, v})
    OBVIOUS
  <2> QED BY <2>1 DEF IsProgram
<1>5. ASSUME NEW s, NEW t, NEW u, NEW v, NEW w PROVE IsProgram(<<s, t, u, v, w>>)
  <2>1. <<s, t, u, v, w>> \in Seq({s, t, u, v, w})
    OBVIOUS
  <2> QED BY <2>1 DEF IsProgram
<1>6. ASSUME NEW s, NEW t, NEW u, NEW v, NEW w, NEW x PROVE IsProgram(<<s, t, u, v, w, x>>)
  <2>1. <<s, t, u, v, w, x>> \in Seq({s, t, u, v, w, x})
    OBVIOUS
  <2> QED BY <2>1 DEF IsProgram
<1> QED
  BY <1>1, <1>2, <1>3, <1>4, <1>5, <1>6 DEF OrElse

(* The programs of the tree and the panes,                                 *)
LEMMA BrowserPrograms ==
  \A p \in {schemaList, objectsList, mviewDetails, synonymDetails, dbLinksList, dbLinkDdl,
          directoriesList, directoryDetails, queuesList, queueDetails,
          queueDdl, tableDescribe, compileErrors, objectDdl, objectsListPlsql,
          objectDataflow, tableRelated, tableCountRows, objectsSearch,
          schemaKindCounts} : IsProgram(p)
<1>1. IsProgram(directoryDetails)
  BY Short, IsProgramConcat, Zenon DEF directoryDetails
<1>2. IsProgram(tableRelated)
  <2>1. tableRelated \in Seq({Tried(Reads)}) /\ Len(tableRelated) = 6
    BY DEF tableRelated
  <2>2. tableRelated # <<>>
    BY <2>1
  <2> QED
    BY <2>1, <2>2 DEF IsProgram
<1> QED
  BY <1>1, <1>2, Short, Zenon DEF
       schemaList, objectsList, mviewDetails, synonymDetails, dbLinksList,
       dbLinkDdl, directoriesList, queuesList, queueDetails, queueDdl,
       tableDescribe, compileErrors, objectDdl, objectsListPlsql,
       objectDataflow, tableCountRows, objectsSearch, schemaKindCounts

(* of the assistant and the analyses,                                      *)
LEMMA AssistantPrograms ==
  \A p \in {vectorSimilaritySearch, vectorTablesInSchema, vectorIndexList,
          vectorCreateIndex, vectorDropIndex, embedCountPending, embedBatch,
          explainPlan, procDescribe, dmlPreview, procExecute, mviewRefresh,
          querySessionSelf, setSessionAction, tablesStats,
          enableDbmsOutputForActiveSession} : IsProgram(p)
  BY Short, Zenon DEF
       vectorSimilaritySearch, vectorTablesInSchema, vectorIndexList,
       vectorCreateIndex, vectorDropIndex, embedCountPending, embedBatch,
       explainPlan, procDescribe, dmlPreview, procExecute, mviewRefresh,
       querySessionSelf, setSessionAction, tablesStats,
       enableDbmsOutputForActiveSession

(* of the scheduler and the sessions,                                      *)
LEMMA SchedulerPrograms ==
  \A p \in {schedulerJobsList, schedulerJobDetails, legacyJobDetails, schedulerJobDdl,
          schedulerProgramDetails, schedulerScheduleDetails,
          schedulerJobPrivCheck, schedulerJobRun, schedulerJobEnable,
          schedulerJobDisable, dbmsJobRun, dbmsJobBroken, dbmsJobUnbroken} : IsProgram(p)
  BY Short, Zenon DEF
       schedulerJobsList, schedulerJobDetails, legacyJobDetails,
       schedulerJobDdl, schedulerProgramDetails, schedulerScheduleDetails,
       schedulerJobPrivCheck, schedulerJobRun, schedulerJobEnable,
       schedulerJobDisable, dbmsJobRun, dbmsJobBroken, dbmsJobUnbroken

(* of the session's own statements,                                        *)
LEMMA SessionPrograms ==
  \A p \in {userDetails, userProfileDetails, userQuotas, sessionsListAll,
          sessionSqlPreview, sessionPrivCheck, sessionKill, privilegesList,
          blockingChain} : IsProgram(p)
<1>1. IsProgram(privilegesList)
  BY Short, IsProgramConcat, Zenon DEF privilegesList
<1> QED
  BY <1>1, Short, Zenon DEF
       userDetails, userProfileDetails, userQuotas, sessionsListAll,
       sessionSqlPreview, sessionPrivCheck, sessionKill, blockingChain

(* and of ORDS are programs.                                               *)
LEMMA OrdsPrograms ==
  \A p \in {ordsDetect, ordsModulesList, ordsModuleGet, ordsEnableSchema, ordsRolesList,
          ordsApply, ordsClientsList, ordsClientsCreate, ordsClientsRevoke} : IsProgram(p)
  BY Short, Zenon DEF
       ordsDetect, ordsModulesList, ordsModuleGet, ordsEnableSchema,
       ordsRolesList, ordsApply, ordsClientsList, ordsClientsCreate,
       ordsClientsRevoke

(* Every handler of Program is a sequence of statements.                   *)
LEMMA ProgramsAre ==
  ASSUME NEW h \in DOMAIN Program
  PROVE  IsProgram(Program[h])
  BY BrowserPrograms, AssistantPrograms, SchedulerPrograms, SessionPrograms, OrdsPrograms DEF Program

(* Where a call goes on is past the statement it is at, and not past the   *)
(* first that is no alternative.                                           *)
LEMMA FollowingIs ==
  ASSUME NEW c, NEW refused \in BOOLEAN, IsProgram(Prog(c)), call[c].at \in DOMAIN Prog(c)
  PROVE  /\ Following(c, refused) \in call[c].at + 1 .. Len(Prog(c)) + 1
         /\ \A k \in call[c].at + 1 .. Len(Prog(c)) :
              ~Prog(c)[k].alt => Following(c, refused) <= k
<1> DEFINE i == call[c].at
           p == Prog(c)
           Next1(j) == /\ j \in DOMAIN p => ~p[j].alt
                       /\ \A k \in i + 1 .. j - 1 : p[k].alt
           T == {j \in i + 1 .. Len(p) + 1 : j \in DOMAIN p => ~p[j].alt}
<1>1. DOMAIN p = 1 .. Len(p) /\ Len(p) \in Nat /\ i \in 1 .. Len(p)
  BY DEF IsProgram
<1>2. Following(c, refused) = IF refused \/ p[i].alt THEN i + 1
                              ELSE CHOOSE j \in i + 1 .. Len(p) + 1 : Next1(j)
  BY DEF Following
<1> HIDE DEF i, p
<1>3. \E m \in i + 1 .. Len(p) + 1 : Next1(m)
  <2>1. Len(p) + 1 \in T /\ T \subseteq Nat
    BY <1>1
  <2>2. PICK m \in T : \A n \in T : m <= n
    BY <2>1, LeastNatural
  <2>3. ASSUME NEW k \in i + 1 .. m - 1
        PROVE  p[k].alt
    <3>1. k \in i + 1 .. Len(p) /\ k \notin T
      BY <1>1, <2>2
    <3> QED
      BY <1>1, <3>1
  <2> QED
    BY <2>2, <2>3
<1>4. \A j \in i + 1 .. Len(p) + 1 :
        Next1(j) => \A k \in i + 1 .. Len(p) : ~p[k].alt => j <= k
  BY <1>1
<1>5. (CHOOSE j \in i + 1 .. Len(p) + 1 : Next1(j)) \in i + 1 .. Len(p) + 1
      /\ Next1(CHOOSE j \in i + 1 .. Len(p) + 1 : Next1(j))
  BY <1>3
<1> HIDE DEF Next1
<1>6. /\ Following(c, refused) \in i + 1 .. Len(p) + 1
      /\ \A k \in i + 1 .. Len(p) : ~p[k].alt => Following(c, refused) <= k
  BY <1>1, <1>2, <1>4, <1>5
<1> QED
  BY <1>6 DEF i, p

-----------------------------------------------------------------------------
CallsTypeOK ==
  /\ call \in [Calls -> CallRecord \cup {None}]
  /\ now \subseteq Calls \cup {User} /\ durable \subseteq Calls \cup {User}
  /\ conn \in [alive : BOOLEAN, kept : BOOLEAN, limit : {0, Preview}]
  /\ output \subseteq Calls
  /\ upset \in [overlapped : BOOLEAN, taken : SUBSET DOMAIN Program]
  /\ \A c \in Calls : InProgress(c) => call[c].at \in DOMAIN Prog(c)

(* Unless two previews overlapped there is one at most, which found the    *)
(* connection without a limit, and without one there is none.              *)
PreviewsAlone ==
  ~upset.overlapped =>
    /\ Previews = {} => conn.limit = 0
    /\ \A c \in Previews : call[c].saved = 0
    /\ \A c, d \in Previews : c = d

(* How far what a call writes has got: before its writing statement, ...   *)
Unwritten(c) == call[c] = None \/ ~call[c].wrote => c \notin now \cup durable

PlanKept(c) ==
  call[c] # None /\ call[c].by = "explainPlan" /\ "tx" \notin call[c].crossed =>
    /\ call[c].out = "none" => c \notin durable
    /\ call[c].out = "ok" => c \notin now \cup durable

EmbeddingKept(c) ==
  call[c] # None /\ call[c].by = "embedBatch" /\ "tx" \notin call[c].crossed /\ call[c].wrote =>
    /\ call[c].out = "none" => c \in now
    /\ call[c].out = "ok" => c \in now \cap durable

LinesKept(c) ==
  call[c] # None /\ call[c].by = "procExecute" /\ "output" \notin call[c].crossed =>
    /\ call[c].out = "none" /\ call[c].at = 4 /\ conn.alive => c \in output
    /\ call[c].out = "ok" /\ ~call[c].unread => c \in call[c].heard

ProcWrote(c) ==
  InProgress(c) /\ call[c].by = "procExecute" /\ call[c].at = 4 => call[c].wrote

CallKept(c) ==
  /\ Unwritten(c) /\ PlanKept(c) /\ EmbeddingKept(c) /\ LinesKept(c) /\ ProcWrote(c)

CallsInv == CallsTypeOK /\ PreviewsAlone /\ \A c \in Calls : CallKept(c)

-----------------------------------------------------------------------------
(* What a call c is under a step of another actor: the same, except that   *)
(* what went by is noted of one that has written.                          *)
Passed(d, what) ==
  IF call[d] = None THEN call'[d] = None
  ELSE /\ call'[d] \in CallRecord
       /\ call'[d].by = call[d].by /\ call'[d].at = call[d].at /\ call'[d].out = call[d].out
       /\ call'[d].wrote = call[d].wrote /\ call'[d].heard = call[d].heard
       /\ call'[d].saved = call[d].saved /\ call'[d].unread = call[d].unread
       /\ call'[d].crossed = IF call[d].out = "none" /\ call[d].wrote
                               THEN call[d].crossed \cup {what} ELSE call[d].crossed

(* ... and what becomes of its writes and lines.                           *)
Stays(d, what) ==
  /\ d \in now' \cup durable' => d \in now \cup durable
  /\ d \in now \cap durable => d \in now' \cap durable'
  /\ what # "tx" => (d \in now' <=> d \in now) /\ (d \in durable' <=> d \in durable)
  /\ conn'.alive => conn.alive
  /\ what # "output" /\ conn'.alive /\ d \in output => d \in output'

(* What marking the other calls does to one of them.                       *)
LEMMA CrossedIs ==
  ASSUME CallsTypeOK, NEW c, NEW d \in Calls, d # c, NEW what \in {"none", "tx", "output"},
         call'[d] = Crossed(c, what)[d]
  PROVE  Passed(d, what)
<1>1. call[d] \in CallRecord \cup {None} /\ None \notin CallRecord
  BY CallsAssumption DEF CallsTypeOK
<1>2. call'[d] = IF InProgress(d) /\ call[d].wrote
                   THEN [call[d] EXCEPT !.crossed = @ \cup {what}] ELSE call[d]
  BY DEF Crossed
<1>3. CASE call[d] = None
  BY <1>2, <1>3 DEF InProgress, Passed
<1>4. CASE call[d] \in CallRecord
  <2>1. [call[d] EXCEPT !.crossed = @ \cup {what}] \in CallRecord
    BY <1>4 DEF CallRecord
  <2> QED
    BY <1>1, <1>2, <1>4, <2>1 DEF InProgress, Passed, CallRecord
<1> QED
  BY <1>1, <1>3, <1>4

(* A call that only stands beside a step keeps its conditions.             *)
LEMMA BystanderIsKept ==
  ASSUME CallsTypeOK, NEW d \in Calls, NEW what \in {"none", "tx", "output"},
         CallKept(d), Passed(d, what), Stays(d, what)
  PROVE  CallKept(d)'
<1>1. CASE call[d] = None
  BY <1>1 DEF CallKept, Passed, Stays, Unwritten, PlanKept, EmbeddingKept, LinesKept, ProcWrote,
       InProgress
<1>2. CASE call[d] # None
  <2>1. /\ call'[d] \in CallRecord /\ None \notin CallRecord /\ call[d] \in CallRecord
    BY <1>2, CallsAssumption DEF Passed, CallsTypeOK
  <2>2. Unwritten(d)'
    BY <1>2, <2>1 DEF CallKept, Passed, Stays, Unwritten, CallRecord
  <2>3. PlanKept(d)'
    BY <1>2, <2>1 DEF CallKept, Passed, Stays, Unwritten, PlanKept, CallRecord
  <2>4. EmbeddingKept(d)'
    BY <1>2, <2>1 DEF CallKept, Passed, Stays, EmbeddingKept, CallRecord
  <2>5. LinesKept(d)'
    BY <1>2, <2>1 DEF CallKept, Passed, Stays, LinesKept, ProcWrote, InProgress, CallRecord
  <2>6. ProcWrote(d)'
    BY <1>2, <2>1 DEF CallKept, Passed, ProcWrote, InProgress, CallRecord
  <2> QED
    BY <2>2, <2>3, <2>4, <2>5, <2>6 DEF CallKept
<1> QED
  BY <1>1, <1>2

(* The statement a call is at, what becomes of the call, where it goes on. *)
StatementOf(c) == Prog(c)[call[c].at]
Fate(c, o) ==
  CASE o = "ok" -> "goes" [] o = "denied" -> StatementOf(c).denied
    [] OTHER -> StatementOf(c).failed
GoesOn(c, o) == Fate(c, o) \in {"goes", "else", "empty", "later"}
NextOf(c, o) ==
  IF GoesOn(c, o) THEN Following(c, Fate(c, o) = "else") ELSE call[c].at

(* What a statement does to the call that issues it.                       *)
LEMMA StatementIs ==
  ASSUME CallsTypeOK, NEW c \in Calls, NEW o \in {"ok", "denied", "failed", "lost"},
         NEW x \in {"none", "tx", "output"}, Statement(c, o, x)
  PROVE  /\ InProgress(c) /\ call[c] \in CallRecord /\ call[c].at \in DOMAIN Prog(c)
         /\ IsProgram(Prog(c))
         /\ call'[c] \in CallRecord /\ call'[c] # None
         /\ call'[c].by = call[c].by /\ call'[c].at = NextOf(c, o)
         /\ call'[c].crossed = call[c].crossed
         /\ call'[c].wrote = (call[c].wrote \/ (o = "ok" /\ StatementOf(c).does \in {"writes", "runs"}))
         /\ call'[c].heard = Heard(c, StatementOf(c).does, o)
         /\ call'[c].unread = (call[c].unread \/ (StatementOf(c).does = "drains" /\ o # "ok"))
         /\ call'[c].out = "none" <=> GoesOn(c, o) /\ NextOf(c, o) \in DOMAIN Prog(c)
         /\ call'[c].out = "ok" => GoesOn(c, o) \/ Fate(c, o) = "warned"
         /\ \A d \in Calls \ {c} : Passed(d, x)
         /\ call' \in [Calls -> CallRecord \cup {None}]
<1> DEFINE s == StatementOf(c)
           late == call[c].late \/ Fate(c, o) = "later"
           out == IF GoesOn(c, o) /\ NextOf(c, o) \in DOMAIN Prog(c) THEN "none"
                  ELSE IF (GoesOn(c, o) /\ ~late) \/ Fate(c, o) = "warned" THEN "ok" ELSE "error"
           new == [call[c] EXCEPT !.at = NextOf(c, o), !.met = @ \/ o = "lost", !.late = late,
                    !.wrote = @ \/ (o = "ok" /\ s.does \in {"writes", "runs"}),
                    !.heard = Heard(c, s.does, o),
                    !.unread = @ \/ (s.does = "drains" /\ o # "ok"), !.out = out]
<1>1. InProgress(c) /\ call' = [Crossed(c, x) EXCEPT ![c] = new]
  BY Zenon DEF Statement, Fate, GoesOn, NextOf, StatementOf
<1>2. call[c] \in CallRecord /\ None \notin CallRecord /\ call[c].at \in DOMAIN Prog(c)
  BY <1>1, CallsAssumption DEF CallsTypeOK, InProgress
<1>3. IsProgram(Prog(c))
  BY <1>2, ProgramsAre DEF Prog, CallRecord
<1>4. Crossed(c, x)[c] = call[c] /\ DOMAIN Crossed(c, x) = Calls
  BY DEF Crossed
<1>5. call'[c] = new /\ \A d \in Calls \ {c} : call'[d] = Crossed(c, x)[d]
  BY <1>1, <1>4
<1>6. \A d \in Calls \ {c} : Passed(d, x)
  BY <1>5, CrossedIs
<1>7. NextOf(c, o) \in Nat \ {0}
  <2>1. call[c].at \in Nat \ {0}
    BY <1>2 DEF CallRecord
  <2>2. Following(c, Fate(c, o) = "else") \in call[c].at + 1 .. Len(Prog(c)) + 1
    BY <1>2, <1>3, FollowingIs
  <2>3. Len(Prog(c)) \in Nat
    BY <1>3 DEF IsProgram
  <2> QED
    BY <2>1, <2>2, <2>3 DEF NextOf
<1>8. Heard(c, s.does, o) \in SUBSET Calls
  BY <1>2 DEF Heard, CallsTypeOK, CallRecord
<1>9. /\ new \in CallRecord
      /\ new.by = call[c].by /\ new.at = NextOf(c, o) /\ new.crossed = call[c].crossed
      /\ new.wrote = (call[c].wrote \/ (o = "ok" /\ s.does \in {"writes", "runs"}))
      /\ new.heard = Heard(c, s.does, o) /\ new.out = out
      /\ new.unread = (call[c].unread \/ (s.does = "drains" /\ o # "ok"))
  <2> HIDE DEF out, late, s
  <2>1. out \in {"none", "ok", "error"}
    BY DEF out
  <2>2. late \in BOOLEAN
    BY <1>2 DEF late, CallRecord
  <2>3. (call[c].wrote \/ (o = "ok" /\ s.does \in {"writes", "runs"})) \in BOOLEAN
    BY <1>2 DEF CallRecord
  <2>4. PICK w \in BOOLEAN : w = (call[c].wrote \/ (o = "ok" /\ s.does \in {"writes", "runs"}))
    BY <2>3
  <2>5. call[c].wrote \in BOOLEAN /\ call[c].met \in BOOLEAN /\ call[c].unread \in BOOLEAN
    BY <1>2 DEF CallRecord
  <2>6. PICK m \in BOOLEAN : m = (call[c].met \/ o = "lost")
    BY <2>5
  <2>7. PICK u \in BOOLEAN : u = (call[c].unread \/ (s.does = "drains" /\ o # "ok"))
    BY <2>5
  <2>8. new = [call[c] EXCEPT !.at = NextOf(c, o), !.met = m, !.late = late, !.wrote = w,
                              !.heard = Heard(c, s.does, o), !.unread = u, !.out = out]
    BY <2>4, <2>6, <2>7
  <2>9. new \in CallRecord
    <3> DEFINE half == [call[c] EXCEPT !.at = NextOf(c, o), !.met = m, !.late = late, !.wrote = w]
    <3>1. half \in CallRecord
      BY <1>2, <1>7, <2>2 DEF CallRecord
    <3>2. new = [half EXCEPT !.heard = Heard(c, s.does, o), !.unread = u, !.out = out]
      BY <1>2, <2>8 DEF CallRecord
    <3> HIDE DEF half, new
    <3> QED
      BY <1>8, <2>1, <3>1, <3>2 DEF CallRecord
  <2>10. DOMAIN call[c] = {"by", "at", "out", "met", "late", "wrote", "heard", "unread",
                           "saved", "crossed"}
    BY <1>2 DEF CallRecord
  <2>11. /\ new.by = call[c].by /\ new.at = NextOf(c, o) /\ new.crossed = call[c].crossed
         /\ new.wrote = w /\ new.heard = Heard(c, s.does, o) /\ new.out = out
         /\ new.unread = u
    <3> HIDE DEF new
    <3> QED
      BY <2>8, <2>10
  <2> QED
    BY <2>4, <2>7, <2>9, <2>11
<1>10. call' \in [Calls -> CallRecord \cup {None}]
  <2> HIDE DEF new
  <2>1. ASSUME NEW d \in Calls
        PROVE  call'[d] \in CallRecord \cup {None}
    <3>1. CASE d = c
      BY <1>5, <1>9, <3>1
    <3>2. CASE d # c
      <4>1. Passed(d, x)
        BY <1>6, <3>2
      <4> QED
        BY <4>1 DEF Passed
    <3> QED
      BY <3>1, <3>2
  <2>2. call' = [d \in Calls |-> call'[d]]
    BY <1>1, <1>4
  <2> QED
    BY <2>1, <2>2
<1> HIDE DEF new
<1> QED
  BY <1>1, <1>2, <1>3, <1>5, <1>6, <1>9, <1>10

(* The connection and what is written, after a statement of c.             *)
LEMMA StatementLeaves ==
  ASSUME CallsTypeOK, NEW c \in Calls, NEW o \in {"ok", "denied", "failed", "lost"},
         NEW x \in {"none", "tx", "output"}, Statement(c, o, x)
  PROVE  /\ \A d \in Calls \ {c} : Stays(d, x)
         /\ conn'.alive = conn.alive
         /\ now' \subseteq Calls \cup {User} /\ durable' \subseteq Calls \cup {User}
         /\ output' \subseteq Calls
         /\ upset' \in [overlapped : BOOLEAN, taken : SUBSET DOMAIN Program]
         /\ upset'.overlapped = upset.overlapped
         /\ conn' \in [alive : BOOLEAN, kept : BOOLEAN, limit : {0, Preview}]
         /\ conn'.limit = IF call[c].by = "dmlPreview" THEN call[c].saved ELSE conn.limit
<1> DEFINE s == StatementOf(c)
<1>1. /\ IF o = "ok" THEN Effect(c, s.does, x)
         ELSE x = "none" /\ UNCHANGED <<now, durable, output, upset>>
      /\ \E lost \in BOOLEAN :
           conn' = [conn EXCEPT !.kept = @ /\ ~lost,
                                !.limit = IF call[c].by = "dmlPreview" THEN Restored(c) ELSE @]
  BY DEF Statement, StatementOf
<1>2. call[c] \in CallRecord
  BY StatementIs
<1>3. /\ conn' \in [alive : BOOLEAN, kept : BOOLEAN, limit : {0, Preview}]
      /\ conn'.alive = conn.alive
      /\ conn'.limit = IF call[c].by = "dmlPreview" THEN call[c].saved ELSE conn.limit
  BY <1>1, <1>2 DEF CallsTypeOK, Restored, CallRecord
<1>4. CASE UNCHANGED <<now, durable, output, upset>>
  BY <1>3, <1>4 DEF CallsTypeOK, Stays
<1>5. CASE o = "ok"
  <2> HIDE DEF s
  <2>1. Effect(c, s.does, x)
    BY <1>1, <1>5
  <2>2. /\ \A d \in Calls \ {c} :
             /\ d \in now' \cup durable' => d \in now \cup durable
             /\ d \in now \cap durable => d \in now' \cap durable'
             /\ x # "tx" => (d \in now' <=> d \in now) /\ (d \in durable' <=> d \in durable)
             /\ x # "output" /\ d \in output => d \in output'
        /\ now' \subseteq Calls \cup {User} /\ durable' \subseteq Calls \cup {User}
        /\ output' \subseteq Calls
    BY <2>1 DEF Effect, Commits, CallsTypeOK
  <2>3. /\ upset' \in [overlapped : BOOLEAN, taken : SUBSET DOMAIN Program]
        /\ upset'.overlapped = upset.overlapped
    BY <1>2, <2>1 DEF Effect, Commits, CallsTypeOK, CallRecord
  <2> QED
    BY <1>3, <2>2, <2>3 DEF Stays
<1> QED
  BY <1>1, <1>3, <1>4, <1>5

-----------------------------------------------------------------------------
(* The four programs the properties speak of.                              *)
LEMMA PreviewProgram ==
  /\ Program["dmlPreview"] = dmlPreview /\ DOMAIN dmlPreview = {1} /\ Len(dmlPreview) = 1
  BY DEF Program, dmlPreview

(* The statements of the plan,                                             *)
LEMMA PlanProgram ==
  /\ Program["explainPlan"] = explainPlan
  /\ DOMAIN explainPlan = 1 .. 4 /\ Len(explainPlan) = 4
  /\ \A i \in 1 .. 4 : /\ explainPlan[i].does \in {"reads", "writes", "unwrites"}
                    /\ explainPlan[i].denied # "warned" /\ explainPlan[i].failed # "warned"
  /\ ~explainPlan[4].alt /\ explainPlan[4].does = "unwrites"
  /\ explainPlan[4].denied = "raised" /\ explainPlan[4].failed = "raised"
<1>1. Program["explainPlan"] = explainPlan
  BY DEF Program
<1>2. explainPlan[1] = [does |-> "writes", denied |-> "raised", failed |-> "raised", alt |-> FALSE]
  BY DEF explainPlan, Refused, Failing, Else, Does, Reads
<1>3. explainPlan[2] = [does |-> "reads", denied |-> "else", failed |-> "later", alt |-> FALSE]
  BY DEF explainPlan, Refused, Failing, Else, Does, Reads
<1>4. explainPlan[3] = [does |-> "reads", denied |-> "raised", failed |-> "later", alt |-> TRUE]
  BY DEF explainPlan, Refused, Failing, Else, Does, Reads
<1>5. explainPlan[4] = [does |-> "unwrites", denied |-> "raised", failed |-> "raised", alt |-> FALSE]
  BY DEF explainPlan, Refused, Failing, Else, Does, Reads
<1>6. DOMAIN explainPlan = 1 .. 4 /\ Len(explainPlan) = 4
  BY DEF explainPlan
<1>7. \A i \in 1 .. 4 : i = 1 \/ i = 2 \/ i = 3 \/ i = 4
  OBVIOUS
<1> QED
  BY <1>1, <1>2, <1>3, <1>4, <1>5, <1>6, <1>7

(* of an embedding,                                                        *)
LEMMA EmbeddingProgram ==
  /\ Program["embedBatch"] = embedBatch
  /\ DOMAIN embedBatch = 1 .. 3 /\ Len(embedBatch) = 3
  /\ \A i \in 1 .. 3 : /\ ~embedBatch[i].alt
                    /\ embedBatch[i].denied # "warned" /\ embedBatch[i].failed # "warned"
  /\ embedBatch[1].does = "reads" /\ embedBatch[2].does = "writes"
  /\ embedBatch[3].does = "commitsWritten"
  /\ embedBatch[3].denied = "raised" /\ embedBatch[3].failed = "raised"
<1>1. Program["embedBatch"] = embedBatch
  BY DEF Program
<1>2. embedBatch[1] = [does |-> "reads", denied |-> "raised", failed |-> "raised", alt |-> FALSE]
  BY DEF embedBatch, Tried, Does, Reads
<1>3. embedBatch[2] = [does |-> "writes", denied |-> "empty", failed |-> "empty", alt |-> FALSE]
  BY DEF embedBatch, Tried, Does, Reads
<1>4. embedBatch[3] = [does |-> "commitsWritten", denied |-> "raised", failed |-> "raised", alt |-> FALSE]
  BY DEF embedBatch, Tried, Does, Reads
<1>5. DOMAIN embedBatch = 1 .. 3 /\ Len(embedBatch) = 3
  BY DEF embedBatch
<1>6. \A i \in 1 .. 3 : i = 1 \/ i = 2 \/ i = 3
  OBVIOUS
<1> QED
  BY <1>1, <1>2, <1>3, <1>4, <1>5, <1>6

(* and of a procedure with its output.                                     *)
LEMMA ProcProgram ==
  /\ Program["procExecute"] = procExecute
  /\ DOMAIN procExecute = 1 .. 4 /\ Len(procExecute) = 4
  /\ \A i \in 1 .. 4 : /\ ~procExecute[i].alt
                    /\ procExecute[i].denied # "warned" /\ procExecute[i].failed # "warned"
  /\ procExecute[3].does = "runs" /\ procExecute[4].does = "drains"
  /\ procExecute[3].denied = "raised" /\ procExecute[3].failed = "raised"
<1>1. Program["procExecute"] = procExecute
  BY DEF Program
<1>2. procExecute[1] = [does |-> "reads", denied |-> "raised", failed |-> "raised", alt |-> FALSE]
  BY DEF procExecute, Tried, Does, Reads
<1>3. procExecute[2] = [does |-> "reads", denied |-> "raised", failed |-> "raised", alt |-> FALSE]
  BY DEF procExecute, Tried, Does, Reads
<1>4. procExecute[3] = [does |-> "runs", denied |-> "raised", failed |-> "raised", alt |-> FALSE]
  BY DEF procExecute, Tried, Does, Reads
<1>5. procExecute[4] = [does |-> "drains", denied |-> "empty", failed |-> "empty", alt |-> FALSE]
  BY DEF procExecute, Tried, Does, Reads
<1>6. DOMAIN procExecute = 1 .. 4 /\ Len(procExecute) = 4
  BY DEF procExecute
<1>7. \A i \in 1 .. 4 : i = 1 \/ i = 2 \/ i = 3 \/ i = 4
  OBVIOUS
<1> QED
  BY <1>1, <1>2, <1>3, <1>4, <1>5, <1>6, <1>7

(* A statement has its effect only when it succeeds.                       *)
LEMMA EffectIs ==
  ASSUME CallsTypeOK, NEW c \in Calls, NEW o \in {"ok", "denied", "failed", "lost"},
         NEW x \in {"none", "tx", "output"}, Statement(c, o, x)
  PROVE  IF o = "ok" THEN Effect(c, StatementOf(c).does, x)
         ELSE x = "none" /\ UNCHANGED <<now, durable, output, upset>>
  BY DEF Statement, StatementOf

(* What a statement of c itself leaves of its writes and of its lines.     *)
LEMMA OwnStatementKeeps ==
  ASSUME CallsTypeOK, NEW c \in Calls, CallKept(c),
         NEW o \in IF conn.alive THEN {"ok", "denied", "failed"} ELSE {"lost"},
         NEW x \in {"none", "tx", "output"}, Statement(c, o, x)
  PROVE  CallKept(c)'
<1> DEFINE s == StatementOf(c)
<1>a. o \in {"ok", "denied", "failed", "lost"} /\ (o = "lost" <=> ~conn.alive)
  OBVIOUS
<1>1. /\ InProgress(c) /\ call[c] \in CallRecord /\ call[c].at \in DOMAIN Prog(c)
      /\ IsProgram(Prog(c))
      /\ call'[c] \in CallRecord /\ call'[c] # None
      /\ call'[c].by = call[c].by /\ call'[c].at = NextOf(c, o)
      /\ call'[c].crossed = call[c].crossed
      /\ call'[c].wrote = (call[c].wrote \/ (o = "ok" /\ s.does \in {"writes", "runs"}))
      /\ call'[c].heard = Heard(c, s.does, o)
      /\ call'[c].unread = (call[c].unread \/ (s.does = "drains" /\ o # "ok"))
      /\ call'[c].out = "none" <=> GoesOn(c, o) /\ NextOf(c, o) \in DOMAIN Prog(c)
      /\ call'[c].out = "ok" => GoesOn(c, o) \/ Fate(c, o) = "warned"
  BY <1>a, StatementIs
<1>2. conn'.alive = conn.alive
  BY <1>a, StatementLeaves
<1>3. IF o = "ok" THEN Effect(c, s.does, x)
      ELSE x = "none" /\ UNCHANGED <<now, durable, output, upset>>
  BY <1>a, EffectIs
<1>4. /\ call[c].at \in Nat \ {0}
      /\ Following(c, Fate(c, o) = "else") \in call[c].at + 1 .. Len(Prog(c)) + 1
      /\ \A k \in call[c].at + 1 .. Len(Prog(c)) :
           ~Prog(c)[k].alt => Following(c, Fate(c, o) = "else") <= k
  BY <1>1, FollowingIs DEF CallRecord
<1>5. Unwritten(c)'
  <2>1. Unwritten(c) /\ call[c].wrote \in BOOLEAN
    BY <1>1 DEF CallKept, CallRecord
  <2> HIDE DEF s
  <2> QED
    BY <1>1, <1>3, <2>1 DEF Unwritten, Effect, Commits, InProgress
<1>6. ProcWrote(c)'
  <2> SUFFICES ASSUME call'[c].out = "none", call[c].by = "procExecute", call'[c].at = 4
               PROVE  call'[c].wrote
    BY <1>1 DEF ProcWrote, InProgress
  <2>1. Prog(c) = procExecute
    BY ProcProgram DEF Prog
  <2>2. call[c].at \in 1 .. 4 /\ Following(c, Fate(c, o) = "else") = 4
    BY <1>1, <1>4, <2>1, ProcProgram DEF NextOf
  <2>3. call[c].at = 3
    BY <1>4, <2>1, <2>2, ProcProgram
  <2>4. o = "ok"
    BY <1>1, <1>a, <2>1, <2>3, ProcProgram DEF GoesOn, Fate, StatementOf
  <2> QED
    BY <1>1, <2>1, <2>3, <2>4, ProcProgram DEF StatementOf
<1>7. PlanKept(c)'
  <2> SUFFICES ASSUME call[c].by = "explainPlan", "tx" \notin call[c].crossed
               PROVE  /\ call'[c].out = "none" => c \notin durable'
                      /\ call'[c].out = "ok" => c \notin now' \cup durable'
    BY <1>1 DEF PlanKept
  <2>1. Prog(c) = explainPlan
    BY PlanProgram DEF Prog
  <2>2. c \notin durable
    BY <1>1 DEF CallKept, PlanKept, InProgress
  <2>3. s.does \in {"reads", "writes", "unwrites"}
    BY <1>1, <2>1, PlanProgram DEF StatementOf
  <2>4. durable' = durable
    BY <1>1, <1>3, <2>3 DEF Effect, Commits
  <2>5. ASSUME call'[c].out = "ok"
        PROVE  c \notin now'
    <3>1. GoesOn(c, o)
      BY <1>1, <2>1, <2>5, PlanProgram DEF Fate, StatementOf
    <3>2. NextOf(c, o) \notin 1 .. 4 /\ NextOf(c, o) = Following(c, Fate(c, o) = "else")
      BY <1>1, <2>1, <2>5, <3>1, PlanProgram DEF NextOf
    <3>3. call[c].at = 4
      BY <1>1, <1>4, <2>1, <3>2, PlanProgram
    <3>4. o = "ok"
      BY <1>1, <1>a, <2>1, <3>1, <3>3, PlanProgram DEF GoesOn, Fate, StatementOf
    <3>5. Effect(c, "unwrites", x)
      BY <1>3, <2>1, <3>3, <3>4, PlanProgram DEF StatementOf
    <3> QED
      BY <3>5 DEF Effect
  <2> QED
    BY <2>2, <2>4, <2>5
<1>8. EmbeddingKept(c)'
  <2> SUFFICES ASSUME call[c].by = "embedBatch", "tx" \notin call[c].crossed, call'[c].wrote
               PROVE  /\ call'[c].out = "none" => c \in now'
                      /\ call'[c].out = "ok" => c \in now' \cap durable'
    BY <1>1 DEF EmbeddingKept
  <2>1. Prog(c) = embedBatch /\ call[c].at \in 1 .. 3
    BY <1>1, EmbeddingProgram DEF Prog
  <2>2. c \in now'
    <3>1. CASE call[c].wrote
      <4>1. c \in now
        BY <1>1, <3>1 DEF CallKept, EmbeddingKept, InProgress
      <4>2. s.does \in {"reads", "writes", "commitsWritten"}
        BY <2>1, EmbeddingProgram DEF StatementOf
      <4> QED
        BY <1>3, <4>1, <4>2 DEF Effect, Commits
    <3>2. CASE ~call[c].wrote
      BY <1>1, <1>3, <3>2 DEF Effect
    <3> QED
      BY <3>1, <3>2
  <2>3. ASSUME call'[c].out = "ok"
        PROVE  c \in durable'
    <3>1. GoesOn(c, o)
      BY <1>1, <2>1, <2>3, EmbeddingProgram DEF Fate, StatementOf
    <3>2. NextOf(c, o) \notin 1 .. 3 /\ NextOf(c, o) = Following(c, Fate(c, o) = "else")
      BY <1>1, <2>1, <2>3, <3>1, EmbeddingProgram DEF NextOf
    <3>3. call[c].at = 3
      BY <1>1, <1>4, <2>1, <3>2, EmbeddingProgram
    <3>4. o = "ok"
      BY <1>1, <1>a, <2>1, <3>1, <3>3, EmbeddingProgram DEF GoesOn, Fate, StatementOf
    <3>5. Effect(c, "commitsWritten", x) /\ call[c].wrote
      BY <1>1, <1>3, <2>1, <3>3, <3>4, EmbeddingProgram DEF StatementOf
    <3>6. durable' = now /\ now' = now
      BY <3>5 DEF Effect, Commits
    <3> QED
      BY <2>2, <3>6
  <2> QED
    BY <2>2, <2>3
<1>9. LinesKept(c)'
  <2> SUFFICES ASSUME call[c].by = "procExecute", "output" \notin call[c].crossed
               PROVE  /\ call'[c].out = "none" /\ call'[c].at = 4 /\ conn.alive => c \in output'
                      /\ call'[c].out = "ok" /\ ~call'[c].unread => c \in call'[c].heard
    BY <1>1, <1>2 DEF LinesKept
  <2>1. Prog(c) = procExecute /\ call[c].at \in 1 .. 4
    BY <1>1, ProcProgram DEF Prog
  <2>2. ASSUME call'[c].out = "none", call'[c].at = 4
        PROVE  c \in output'
    <3>1. GoesOn(c, o) /\ Following(c, Fate(c, o) = "else") = 4
      BY <1>1, <2>2 DEF NextOf
    <3>2. call[c].at = 3
      BY <1>4, <2>1, <3>1, ProcProgram
    <3>3. o = "ok"
      BY <1>a, <2>1, <3>1, <3>2, ProcProgram DEF GoesOn, Fate, StatementOf
    <3>4. Effect(c, "runs", x)
      BY <1>3, <2>1, <3>2, <3>3, ProcProgram DEF StatementOf
    <3> QED
      BY <3>4 DEF Effect
  <2>3. ASSUME call'[c].out = "ok", ~call'[c].unread
        PROVE  c \in call'[c].heard
    <3>1. GoesOn(c, o)
      BY <1>1, <2>1, <2>3, ProcProgram DEF Fate, StatementOf
    <3>2. NextOf(c, o) \notin 1 .. 4 /\ NextOf(c, o) = Following(c, Fate(c, o) = "else")
      BY <1>1, <2>1, <2>3, <3>1, ProcProgram DEF NextOf
    <3>3. call[c].at = 4
      BY <1>4, <2>1, <3>2, ProcProgram
    <3>4. s.does = "drains"
      BY <2>1, <3>3, ProcProgram DEF StatementOf
    <3>5. o = "ok" /\ c \in output
      BY <1>1, <1>a, <2>3, <3>3, <3>4 DEF CallKept, LinesKept, InProgress
    <3> QED
      BY <1>1, <3>4, <3>5 DEF Heard
  <2> QED
    BY <2>2, <2>3
<1> QED
  BY <1>5, <1>6, <1>7, <1>8, <1>9 DEF CallKept

-----------------------------------------------------------------------------
(* The first state.                                                        *)
LEMMA CallsStart == CallsInit => CallsInv
<1> SUFFICES ASSUME CallsInit PROVE CallsInv
  OBVIOUS
<1>1. /\ call = [c \in Calls |-> None] /\ now = {} /\ durable = {} /\ output = {}
      /\ conn = [alive |-> TRUE, kept |-> TRUE, limit |-> 0]
      /\ upset = [overlapped |-> FALSE, taken |-> {}]
  BY DEF CallsInit
<1>2. CallsTypeOK
  BY <1>1 DEF CallsTypeOK, InProgress
<1>3. PreviewsAlone
  BY <1>1 DEF PreviewsAlone, Previews, InProgress
<1>4. \A c \in Calls : CallKept(c)
  BY <1>1 DEF CallKept, Unwritten, PlanKept, EmbeddingKept, LinesKept, ProcWrote, InProgress
<1> QED
  BY <1>2, <1>3, <1>4 DEF CallsInv

(* A call begins.                                                          *)
LEMMA BeginKeeps ==
  ASSUME CallsInv, NEW c \in Calls, Begin(c)
  PROVE  CallsInv'
<1>1. CallsTypeOK /\ PreviewsAlone /\ \A d \in Calls : CallKept(d)
  BY DEF CallsInv
<1>2. PICK h \in IF c = 1 THEN DOMAIN Program ELSE Beside :
        /\ call' = [call EXCEPT ![c] =
             [by |-> h, at |-> 1, out |-> "none", met |-> FALSE, late |-> FALSE,
              wrote |-> FALSE, heard |-> {}, unread |-> FALSE,
              saved |-> IF h = "dmlPreview" THEN conn.limit ELSE 0, crossed |-> {}]]
        /\ IF h = "dmlPreview"
             THEN /\ conn' = [conn EXCEPT !.limit = Preview]
                  /\ upset' = [upset EXCEPT !.overlapped = @ \/ Previews # {}]
             ELSE UNCHANGED <<conn, upset>>
  BY DEF Begin
<1>3. h \in DOMAIN Program
  BY <1>2, CallsAssumption
<1>4. call[c] = None /\ UNCHANGED <<now, durable, output>>
  BY DEF Begin
<1>5. IsProgram(Program[h])
  BY <1>3, ProgramsAre
<1> DEFINE new == [by |-> h, at |-> 1, out |-> "none", met |-> FALSE, late |-> FALSE,
                   wrote |-> FALSE, heard |-> {}, unread |-> FALSE,
                   saved |-> IF h = "dmlPreview" THEN conn.limit ELSE 0, crossed |-> {}]
<1>6. /\ new \in CallRecord /\ new # None
      /\ new.by = h /\ new.at = 1 /\ new.out = "none" /\ new.wrote = FALSE
      /\ new.saved = IF h = "dmlPreview" THEN conn.limit ELSE 0
      /\ new.crossed = {}
  <2>1. conn.limit \in {0, Preview}
    BY <1>1 DEF CallsTypeOK
  <2>2. new \in CallRecord
    BY <1>3, <2>1 DEF CallRecord
  <2>3. new # None
    BY <2>2, CallsAssumption, Zenon
  <2> QED
    BY <2>2, <2>3
<1>7. call' = [call EXCEPT ![c] = new]
  BY <1>2
<1> HIDE DEF new
<1>8. call'[c] = new /\ \A d \in Calls \ {c} : call'[d] = call[d]
  BY <1>1, <1>7 DEF CallsTypeOK
<1>9. /\ conn' \in [alive : BOOLEAN, kept : BOOLEAN, limit : {0, Preview}]
      /\ conn'.alive = conn.alive
      /\ conn'.limit = IF h = "dmlPreview" THEN Preview ELSE conn.limit
      /\ upset' \in [overlapped : BOOLEAN, taken : SUBSET DOMAIN Program]
      /\ upset'.overlapped = (upset.overlapped \/ (h = "dmlPreview" /\ Previews # {}))
  BY <1>1, <1>2 DEF CallsTypeOK
<1>10. CallsTypeOK'
  <2>1. call' \in [Calls -> CallRecord \cup {None}]
    BY <1>1, <1>6, <1>7 DEF CallsTypeOK
  <2>2. 1 \in DOMAIN Program[h]
    BY <1>5 DEF IsProgram
  <2>3. \A d \in Calls : InProgress(d)' => call'[d].at \in DOMAIN Prog(d)'
    BY <1>1, <1>6, <1>8, <2>2 DEF CallsTypeOK, InProgress, Prog
  <2> QED
    BY <1>1, <1>4, <1>9, <2>1, <2>3 DEF CallsTypeOK
<1>11. PreviewsAlone'
  <2> SUFFICES ASSUME ~upset'.overlapped
               PROVE  /\ Previews' = {} => conn'.limit = 0
                      /\ \A d \in Previews' : call'[d].saved = 0
                      /\ \A d, e \in Previews' : d = e
    BY DEF PreviewsAlone
  <2>1. ~upset.overlapped /\ (h = "dmlPreview" => Previews = {})
    BY <1>9
  <2>2. /\ Previews = {} => conn.limit = 0
        /\ \A d \in Previews : call[d].saved = 0
        /\ \A d, e \in Previews : d = e
    BY <1>1, <2>1 DEF PreviewsAlone
  <2>3. Previews' = IF h = "dmlPreview" THEN {c} ELSE Previews
    <3>1. \A d \in Calls \ {c} : d \in Previews' <=> d \in Previews
      BY <1>8 DEF Previews, InProgress
    <3>2. c \notin Previews /\ (c \in Previews' <=> h = "dmlPreview")
      BY <1>4, <1>6, <1>8 DEF Previews, InProgress
    <3>3. Previews \subseteq Calls /\ Previews' \subseteq Calls
      BY DEF Previews
    <3> QED
      BY <2>1, <3>1, <3>2, <3>3
  <2>4. CASE h = "dmlPreview"
    BY <1>6, <1>8, <2>1, <2>2, <2>3, <2>4
  <2>5. CASE h # "dmlPreview"
    <3>1. Previews' = Previews /\ conn'.limit = conn.limit
      BY <1>9, <2>3, <2>5
    <3>2. \A d \in Previews : call'[d] = call[d]
      BY <1>4, <1>8 DEF Previews, InProgress
    <3> QED
      BY <2>2, <3>1, <3>2
  <2> QED
    BY <2>4, <2>5
<1>12. ASSUME NEW d \in Calls
       PROVE  CallKept(d)'
  <2>1. CASE d = c
    <3>1. c \notin now' \cup durable'
      BY <1>1, <1>4 DEF CallKept, Unwritten
    <3> QED
      BY <1>6, <1>8, <2>1, <3>1 DEF CallKept, Unwritten, PlanKept, EmbeddingKept, LinesKept,
           ProcWrote, InProgress
  <2>2. CASE d # c
    <3>1. call'[d] = call[d] /\ conn'.alive = conn.alive /\ CallKept(d)
      BY <1>1, <1>8, <1>9, <2>2
    <3> QED
      BY <1>4, <3>1 DEF CallKept, Unwritten, PlanKept, EmbeddingKept, LinesKept, ProcWrote,
           InProgress
  <2> QED
    BY <2>1, <2>2
<1> QED
  BY <1>10, <1>11, <1>12 DEF CallsInv

(* A preview is over with its one statement.                               *)
LEMMA PreviewEnds ==
  ASSUME CallsTypeOK, NEW c \in Calls, NEW o \in {"ok", "denied", "failed", "lost"},
         NEW x \in {"none", "tx", "output"}, Statement(c, o, x), call[c].by = "dmlPreview"
  PROVE  call'[c].out # "none"
<1>1. /\ call[c].at \in DOMAIN Prog(c) /\ IsProgram(Prog(c)) /\ Prog(c) = dmlPreview
      /\ call'[c].out = "none" <=> GoesOn(c, o) /\ NextOf(c, o) \in DOMAIN Prog(c)
  BY StatementIs, PreviewProgram DEF Prog
<1>2. Following(c, Fate(c, o) = "else") \in call[c].at + 1 .. Len(Prog(c)) + 1
  BY <1>1, FollowingIs
<1> QED
  BY <1>1, <1>2, PreviewProgram DEF NextOf

(* A call issues a statement.                                              *)
LEMMA StatementKeeps ==
  ASSUME CallsInv, NEW c \in Calls,
         NEW o \in IF conn.alive THEN {"ok", "denied", "failed"} ELSE {"lost"},
         NEW x \in {"none", "tx", "output"}, Statement(c, o, x)
  PROVE  CallsInv'
<1>1. CallsTypeOK /\ PreviewsAlone /\ \A d \in Calls : CallKept(d)
  BY DEF CallsInv
<1>2. o \in {"ok", "denied", "failed", "lost"}
  OBVIOUS
<1>3. /\ InProgress(c) /\ call[c] \in CallRecord
      /\ IsProgram(Prog(c))
      /\ call'[c] \in CallRecord /\ call'[c] # None
      /\ call'[c].by = call[c].by /\ call'[c].at = NextOf(c, o)
      /\ call'[c].out = "none" => NextOf(c, o) \in DOMAIN Prog(c)
      /\ \A d \in Calls \ {c} : Passed(d, x)
      /\ call' \in [Calls -> CallRecord \cup {None}]
  BY <1>1, <1>2, StatementIs
<1>4. /\ \A d \in Calls \ {c} : Stays(d, x)
      /\ now' \subseteq Calls \cup {User} /\ durable' \subseteq Calls \cup {User}
      /\ output' \subseteq Calls
      /\ upset' \in [overlapped : BOOLEAN, taken : SUBSET DOMAIN Program]
      /\ upset'.overlapped = upset.overlapped
      /\ conn' \in [alive : BOOLEAN, kept : BOOLEAN, limit : {0, Preview}]
      /\ conn'.limit = IF call[c].by = "dmlPreview" THEN call[c].saved ELSE conn.limit
  BY <1>1, <1>2, StatementLeaves
<1>5. ASSUME NEW d \in Calls \ {c}
      PROVE  /\ d \in Previews' <=> d \in Previews
             /\ call'[d] # None => call[d] # None /\ call'[d].saved = call[d].saved
             /\ InProgress(d)' => InProgress(d) /\ call'[d].at = call[d].at /\ Prog(d)' = Prog(d)
  BY <1>3, CallsAssumption DEF Passed, Previews, InProgress, Prog
<1>6. CallsTypeOK'
  <2>1. \A d \in Calls : InProgress(d)' => call'[d].at \in DOMAIN Prog(d)'
    <3>1. InProgress(c)' => call'[c].at \in DOMAIN Prog(c)'
      BY <1>3 DEF InProgress, Prog
    <3>2. \A d \in Calls \ {c} : InProgress(d)' => call'[d].at \in DOMAIN Prog(d)'
      BY <1>1, <1>5 DEF CallsTypeOK
    <3> QED
      BY <3>1, <3>2
  <2> QED
    BY <1>3, <1>4, <2>1 DEF CallsTypeOK
<1>7. PreviewsAlone'
  <2> SUFFICES ASSUME ~upset'.overlapped
               PROVE  /\ Previews' = {} => conn'.limit = 0
                      /\ \A d \in Previews' : call'[d].saved = 0
                      /\ \A d, e \in Previews' : d = e
    BY DEF PreviewsAlone
  <2>1. /\ Previews = {} => conn.limit = 0
        /\ \A d \in Previews : call[d].saved = 0
        /\ \A d, e \in Previews : d = e
    BY <1>1, <1>4 DEF PreviewsAlone
  <2>2. Previews \subseteq Calls /\ Previews' \subseteq Calls
    BY DEF Previews
  <2>3. CASE call[c].by = "dmlPreview"
    <3>1. c \in Previews /\ c \notin Previews'
      BY <1>1, <1>2, <1>3, <2>3, PreviewEnds DEF Previews, InProgress
    <3>2. Previews' = {} /\ conn'.limit = 0
      BY <1>4, <1>5, <2>1, <2>2, <2>3, <3>1
    <3> QED
      BY <3>2
  <2>4. CASE call[c].by # "dmlPreview"
    <3>1. c \notin Previews /\ c \notin Previews'
      BY <1>3, <2>4 DEF Previews
    <3>5. \A d \in Calls : d \in Previews' <=> d \in Previews
      BY <1>5, <3>1
    <3>6. Previews' = Previews
      BY <2>2, <3>5, Zenon
    <3>7. conn'.limit = conn.limit
      BY <1>4, <2>4
    <3>2. Previews' = Previews /\ conn'.limit = conn.limit
      BY <3>6, <3>7
    <3>3. \A d \in Previews : call'[d].saved = call[d].saved
      BY <1>5, <2>2, <3>1, <3>2 DEF Previews, InProgress
    <3> QED
      BY <2>1, <3>2, <3>3
  <2> QED
    BY <2>3, <2>4
<1>8. ASSUME NEW d \in Calls
      PROVE  CallKept(d)'
  <2>1. CASE d = c
    BY <1>1, <2>1, OwnStatementKeeps
  <2>2. CASE d # c
    BY <1>1, <1>3, <1>4, <2>2, BystanderIsKept
  <2> QED
    BY <2>1, <2>2
<1> QED
  BY <1>6, <1>7, <1>8 DEF CallsInv

(* A step of the user, or the loss of the connection.                      *)
LEMMA OthersKeep ==
  ASSUME CallsInv, NEW what \in {"tx", "output"}, call' = Crossed(User, what),
         \A d \in Calls : Stays(d, what),
         now' \subseteq Calls \cup {User}, durable' \subseteq Calls \cup {User},
         output' \subseteq Calls, upset' = upset,
         conn' \in [alive : BOOLEAN, kept : BOOLEAN, limit : {0, Preview}],
         conn'.limit = conn.limit
  PROVE  CallsInv'
<1>1. CallsTypeOK /\ PreviewsAlone /\ \A d \in Calls : CallKept(d)
  BY DEF CallsInv
<1>2. \A d \in Calls : Passed(d, what)
  BY <1>1, CrossedIs, CallsAssumption
<1>3. call' \in [Calls -> CallRecord \cup {None}]
  <2>1. \A d \in Calls : call'[d] \in CallRecord \cup {None}
    BY <1>2 DEF Passed
  <2>2. call' = [d \in Calls |-> call'[d]]
    BY DEF Crossed
  <2> QED
    BY <2>1, <2>2
<1>4. ASSUME NEW d \in Calls
      PROVE  /\ d \in Previews' <=> d \in Previews
             /\ call'[d] # None => call[d] # None /\ call'[d].saved = call[d].saved
             /\ InProgress(d)' => InProgress(d) /\ call'[d].at = call[d].at /\ Prog(d)' = Prog(d)
  BY <1>2, CallsAssumption DEF Passed, Previews, InProgress, Prog
<1>5. CallsTypeOK'
  BY <1>1, <1>3, <1>4 DEF CallsTypeOK
<1>6. PreviewsAlone'
  <2>1. Previews' = Previews
    BY <1>4 DEF Previews
  <2>2. \A d \in Previews : call'[d].saved = call[d].saved
    BY <1>4, <2>1 DEF Previews, InProgress
  <2> QED
    BY <1>1, <2>1, <2>2 DEF PreviewsAlone
<1>7. \A d \in Calls : CallKept(d)'
  BY <1>1, <1>2, BystanderIsKept
<1> QED
  BY <1>5, <1>6, <1>7 DEF CallsInv

(* Every step of the calls keeps the invariant.                            *)
LEMMA CallsStep == CallsInv /\ [CallsNext]_callVars => CallsInv'
<1> SUFFICES ASSUME CallsInv, [CallsNext]_callVars PROVE CallsInv'
  OBVIOUS
<1> USE DEF CallsInv
<1>1. ASSUME NEW c \in Calls, Begin(c) PROVE CallsInv'
  BY <1>1, BeginKeeps
<1>2. ASSUME NEW c \in Calls, StatementRuns(c) PROVE CallsInv'
  BY <1>2, StatementKeeps DEF StatementRuns
<1>3. CASE Drop
  <2>1. \A d \in Calls : Stays(d, "tx")
    BY <1>3 DEF Drop, Stays, CallsTypeOK
  <2> QED
    BY <1>3, <2>1, OthersKeep DEF Drop, CallsTypeOK
<1>4. CASE UserWrites
  <2>1. \A d \in Calls : Stays(d, "output")
    BY <1>4, CallsAssumption DEF UserWrites, Stays, CallsTypeOK
  <2> QED
    BY <1>4, <2>1, OthersKeep DEF UserWrites, CallsTypeOK
<1>5. CASE UserCommits
  <2>1. \A d \in Calls : Stays(d, "tx")
    BY <1>5 DEF UserCommits, Stays, CallsTypeOK
  <2> QED
    BY <1>5, <2>1, OthersKeep DEF UserCommits, CallsTypeOK
<1>6. CASE UserRollsBack
  <2>1. \A d \in Calls : Stays(d, "tx")
    BY <1>6 DEF UserRollsBack, Stays, CallsTypeOK
  <2> QED
    BY <1>6, <2>1, OthersKeep DEF UserRollsBack, CallsTypeOK
<1>7. CASE UNCHANGED callVars
  BY <1>7 DEF callVars, CallsTypeOK, PreviewsAlone, Previews, CallKept, Unwritten, PlanKept,
       EmbeddingKept, LinesKept, ProcWrote, InProgress, Prog
<1> QED
  BY <1>1, <1>2, <1>3, <1>4, <1>5, <1>6, <1>7 DEF CallsNext

(* The invariant is what was to be shown of the connection.                *)
LEMMA CallsInvSuffices == CallsInv => CallsLeaveTheConnection
<1> SUFFICES ASSUME CallsInv PROVE CallsLeaveTheConnection
  OBVIOUS
<1>1. LimitIsRestored
  BY DEF CallsInv, CallsTypeOK, PreviewsAlone, LimitIsRestored, Preview
<1>2. CallsKeepTheirWrites
  BY DEF CallsInv, CallKept, PlanKept, EmbeddingKept, LinesKept, CallsKeepTheirWrites, Answered
<1> QED
  BY <1>1, <1>2 DEF CallsLeaveTheConnection

-----------------------------------------------------------------------------
(***************************************************************************)
(* The commands.                                                           *)
(***************************************************************************)

(* The steps of the commands.                                              *)
StepNames ==
  {"gate", "token", "key", "session", "sidecar", "store", "oracle", "own", "cloud", "leave",
   "path", "file", "folder", "config", "remote", "address", "lookup", "row", "event", "ask"}

(* The variables of the commands have their types.                         *)
CommandRecord ==
  [cmd : Seq(StepNames), todo : Seq(StepNames),
   res : {"none", "runs", "done", "refused", "failed"},
   arg : Bases \cup {Nobody}, built : Bases \cup {Nobody},
   took : SUBSET {"token", "key"}, acct : People \cup {Nobody},
   creds : Bases \cup {Nobody}, ran : Bases \cup {Nobody},
   left : BOOLEAN, logged : BOOLEAN, gapped : BOOLEAN]

CommandsTypeOK ==
  /\ opened \in Bases \cup {Nobody} /\ gap \in BOOLEAN /\ account \in People \cup {Nobody}
  /\ asked \in CommandRecord

(* What the steps before the k-th of the command have left: the gate was   *)
(* open, the token is somebody's, the connection is that of the saved      *)
(* build, the window is open.                                              *)
Behind(k) ==
  /\ k > 1 /\ asked.cmd[1] = "gate" => ~asked.gapped
  /\ k > 2 /\ asked.cmd[1] = "gate" /\ asked.cmd[2] = "token" => asked.acct # Nobody
  /\ k > 4 /\ asked.cmd = SandboxRepublish => asked.arg = asked.built
  /\ k > 1 /\ asked.cmd = DdlConfirm => asked.ran # Nobody

(* What a command has left to do is an end of it.                          *)
TodoIsAnEnd ==
  asked.todo # <<>> =>
    \E k \in DOMAIN asked.cmd :
      asked.todo = SubSeq(asked.cmd, k, Len(asked.cmd)) /\ Behind(k)

CommandsOrdered ==
  GapHolds /\ SecretsBehindTheGate /\ CloudCallsAreSigned /\ RepublishReadsItsOwn
    /\ WindowsLoggedWereOpened

CommandsInv ==
  /\ CommandsTypeOK
  /\ asked.cmd \in Commands \cup {<<>>}
  /\ asked.gapped => gap
  /\ TodoIsAnEnd
  /\ CommandsOrdered
(* What every command has: secrets are taken, and the network is used,     *)
(* behind the gate, by all but two; the cloud is asked with the token.     *)
WellGated(cmd) ==
  /\ cmd \in Seq(StepNames) /\ cmd # <<>>
  /\ \A i \in DOMAIN cmd :
       /\ cmd[i] \in {"token", "key"} => cmd[1] = "gate"
       /\ cmd[i] \in {"leave", "cloud"} => cmd[1] = "gate" \/ cmd \in NotGated
       /\ cmd[i] = "cloud" => Len(cmd) > 1 /\ cmd[1] = "gate" /\ cmd[2] = "token"

Kept == {"token", "key", "leave", "cloud"}

(* The names of the steps are what they are.                               *)
LEMMA StepNamesAre ==
  /\ "gate" \in StepNames /\ "token" \in StepNames /\ "key" \in StepNames
  /\ "session" \in StepNames /\ "sidecar" \in StepNames /\ "store" \in StepNames
  /\ "oracle" \in StepNames /\ "own" \in StepNames /\ "cloud" \in StepNames
  /\ "leave" \in StepNames /\ "path" \in StepNames /\ "file" \in StepNames
  /\ "folder" \in StepNames /\ "config" \in StepNames /\ "remote" \in StepNames
  /\ "address" \in StepNames /\ "lookup" \in StepNames /\ "row" \in StepNames
  /\ "event" \in StepNames /\ "ask" \in StepNames
BY DEF StepNames

(* Short sequences of steps.                                               *)
LEMMA ShortCommands ==
  /\ \A s \in StepNames : <<s>> \in Seq(StepNames)
  /\ \A s, t \in StepNames : <<s, t>> \in Seq(StepNames)
  /\ \A s, t, u \in StepNames : <<s, t, u>> \in Seq(StepNames)
  /\ \A s, t, u, v \in StepNames : <<s, t, u, v>> \in Seq(StepNames)
  /\ \A s, t, u, v, w \in StepNames : <<s, t, u, v, w>> \in Seq(StepNames)
OBVIOUS

(* A short command of steps that need no gate; the same behind it; one     *)
(* that takes the token.                                                   *)
LEMMA UngatedCommands ==
  /\ \A s \in StepNames \ Kept : WellGated(<<s>>)
  /\ \A s, t \in StepNames \ Kept : WellGated(<<s, t>>)
<1>1. ASSUME NEW s \in StepNames \ Kept PROVE WellGated(<<s>>)
  <2>1. <<s>> \in Seq(StepNames) /\ DOMAIN <<s>> = {1} /\ <<s>>[1] = s
    OBVIOUS
  <2> QED
    BY <2>1 DEF WellGated, Kept
<1>2. ASSUME NEW s \in StepNames \ Kept, NEW t \in StepNames \ Kept PROVE WellGated(<<s, t>>)
  <2>1. <<s, t>> \in Seq(StepNames) /\ DOMAIN <<s, t>> = {1, 2} /\ <<s, t>>[1] = s /\ <<s, t>>[2] = t
    OBVIOUS
  <2> QED
    BY <2>1 DEF WellGated, Kept
<1> QED
  BY <1>1, <1>2, Zenon

(* The elements of a concatenation with a sequence of one, or of two.      *)
LEMMA GatedIs ==
  ASSUME NEW p \in Seq(StepNames)
  PROVE  /\ Gated(p) \in Seq(StepNames) /\ Len(Gated(p)) = Len(p) + 1 /\ Gated(p)[1] = "gate"
         /\ \A i \in 2 .. Len(p) + 1 : Gated(p)[i] = p[i - 1]
<1>1. <<"gate">> \in Seq(StepNames) /\ Len(<<"gate">>) = 1 /\ <<"gate">>[1] = "gate"
  <2>1. <<"gate">> \in Seq(StepNames)
    BY StepNamesAre, ShortCommands, Zenon
  <2>2. Len(<<"gate">>) = 1 /\ <<"gate">>[1] = "gate"
    OBVIOUS
  <2> QED
    BY <2>1, <2>2
<1>2. Len(p) \in Nat
  OBVIOUS
<1> QED
  BY <1>1, <1>2, ConcatProperties DEF Gated

(* What the gate and the token in front do to a sequence of steps.         *)
LEMMA EnvelopedIs ==
  ASSUME NEW p \in Seq(StepNames)
  PROVE  /\ Enveloped \o p \in Seq(StepNames) /\ Len(Enveloped \o p) = Len(p) + 2
         /\ (Enveloped \o p)[1] = "gate" /\ (Enveloped \o p)[2] = "token"
         /\ \A i \in 3 .. Len(p) + 2 : (Enveloped \o p)[i] = p[i - 2]
<1>1. /\ Enveloped \in Seq(StepNames) /\ Len(Enveloped) = 2
      /\ Enveloped[1] = "gate" /\ Enveloped[2] = "token"
  <2>1. Enveloped \in Seq(StepNames)
    BY StepNamesAre, ShortCommands, Zenon DEF Enveloped
  <2>2. Len(Enveloped) = 2 /\ Enveloped[1] = "gate" /\ Enveloped[2] = "token"
    BY DEF Enveloped
  <2> QED
    BY <2>1, <2>2
<1> DEFINE q == Enveloped \o p
<1>2. Len(p) \in Nat
  OBVIOUS
<1>3. /\ q \in Seq(StepNames) /\ Len(q) = 2 + Len(p)
      /\ \A i \in 1 .. 2 + Len(p) : q[i] = IF i <= 2 THEN Enveloped[i] ELSE p[i - 2]
  <2>1. /\ q \in Seq(StepNames) /\ Len(q) = Len(Enveloped) + Len(p)
        /\ \A i \in 1 .. Len(Enveloped) + Len(p) :
             q[i] = IF i <= Len(Enveloped) THEN Enveloped[i] ELSE p[i - Len(Enveloped)]
    BY <1>1, ConcatProperties, Zenon
  <2> HIDE DEF q
  <2> QED
    BY <1>1, <2>1
<1> HIDE DEF q
<1>4. q[1] = "gate" /\ q[2] = "token"
  BY <1>1, <1>2, <1>3
<1>5. \A i \in 3 .. Len(p) + 2 : q[i] = p[i - 2]
  BY <1>2, <1>3
<1> QED
  BY <1>2, <1>3, <1>4, <1>5 DEF q

(* A sequence behind the gate is well gated,                               *)
LEMMA GatedCommands ==
  ASSUME NEW p \in Seq(StepNames), \A i \in DOMAIN p : p[i] # "cloud"
  PROVE  WellGated(Gated(p))
<1>1. Len(p) \in Nat /\ DOMAIN p = 1 .. Len(p)
  OBVIOUS
<1>2. DOMAIN Gated(p) = 1 .. Len(p) + 1
  BY <1>1, GatedIs
<1>3. \A i \in 1 .. Len(p) + 1 : Gated(p)[i] # "cloud"
  <2> TAKE i \in 1 .. Len(p) + 1
  <2>1. CASE i = 1
    BY <2>1, GatedIs
  <2>2. CASE i # 1
    <3>1. i \in 2 .. Len(p) + 1 /\ i - 1 \in DOMAIN p
      BY <1>1, <2>2
    <3> QED
      BY <3>1, GatedIs
  <2> QED
    BY <2>1, <2>2
<1> QED
  BY <1>1, <1>2, <1>3, GatedIs DEF WellGated

(* and one behind the gate and the token.                                  *)
LEMMA EnvelopedCommands ==
  ASSUME NEW p \in Seq(StepNames)
  PROVE  WellGated(Enveloped \o p)
<1>1. Len(p) \in Nat
  OBVIOUS
<1> QED
  BY <1>1, EnvelopedIs DEF WellGated

(* The commands that ask the gate themselves,                              *)
LEMMA CommandsGated ==
  /\ \A p \in {<<"leave">>, OnSession, <<"session", "leave", "session">>, <<"key">>,
               <<"store", "remote", "leave">>, InStore} : WellGated(Gated(p))
  /\ \A p \in {<<"cloud">>, <<"sidecar">>, <<"folder", "cloud">>,
               <<"folder", "config", "oracle", "own", "cloud">>,
               <<"folder", "oracle", "cloud", "own">>,
               <<"oracle", "folder", "cloud", "own">>} : WellGated(Enveloped \o p)
<1>1. /\ <<"leave">> \in Seq(StepNames) /\ OnSession \in Seq(StepNames)
      /\ <<"session", "leave", "session">> \in Seq(StepNames) /\ <<"key">> \in Seq(StepNames)
      /\ <<"store", "remote", "leave">> \in Seq(StepNames) /\ InStore \in Seq(StepNames)
  BY StepNamesAre, ShortCommands, Zenon DEF OnSession, InStore
<1>2. /\ <<"cloud">> \in Seq(StepNames) /\ <<"sidecar">> \in Seq(StepNames)
      /\ <<"folder", "cloud">> \in Seq(StepNames)
      /\ <<"folder", "config", "oracle", "own", "cloud">> \in Seq(StepNames)
      /\ <<"folder", "oracle", "cloud", "own">> \in Seq(StepNames)
      /\ <<"oracle", "folder", "cloud", "own">> \in Seq(StepNames)
  BY StepNamesAre, ShortCommands, Zenon
<1>3. /\ \A i \in DOMAIN <<"leave">> : <<"leave">>[i] # "cloud"
      /\ \A i \in DOMAIN OnSession : OnSession[i] # "cloud"
      /\ \A i \in DOMAIN <<"session", "leave", "session">> :
           <<"session", "leave", "session">>[i] # "cloud"
      /\ \A i \in DOMAIN <<"key">> : <<"key">>[i] # "cloud"
      /\ \A i \in DOMAIN <<"store", "remote", "leave">> :
           <<"store", "remote", "leave">>[i] # "cloud"
      /\ \A i \in DOMAIN InStore : InStore[i] # "cloud"
  BY DEF OnSession, InStore
<1>4. \A p \in {<<"leave">>, OnSession, <<"session", "leave", "session">>, <<"key">>,
                <<"store", "remote", "leave">>, InStore} : WellGated(Gated(p))
  BY <1>1, <1>3, GatedCommands, Zenon
<1>5. \A p \in {<<"cloud">>, <<"sidecar">>, <<"folder", "cloud">>,
               <<"folder", "config", "oracle", "own", "cloud">>,
               <<"folder", "oracle", "cloud", "own">>,
               <<"oracle", "folder", "cloud", "own">>} : WellGated(Enveloped \o p)
  BY <1>2, EnvelopedCommands, Zenon
<1> QED
  BY <1>4, <1>5, Zenon

(* The commands, group by group.                                           *)
LEMMA SessionCommands ==
  /\ WellGated(OnSession) /\ WellGated(InSidecar) /\ WellGated(InStore)
  /\ WellGated(<<"event">>) /\ WellGated(<<"ask">>) /\ WellGated(<<"oracle">>)
  /\ WellGated(<<"path", "sidecar">>) /\ WellGated(<<"path", "store">>)
  /\ WellGated(<<"row", "store">>) /\ WellGated(<<"lookup", "row">>)
  /\ WellGated(<<"store", "remote">>) /\ WellGated(<<"path", "file">>)
  /\ WellGated(<<"oracle", "own">>) /\ WellGated(DdlConfirm)
<1>1. /\ "session" \in StepNames \ Kept /\ "sidecar" \in StepNames \ Kept
      /\ "store" \in StepNames \ Kept /\ "event" \in StepNames \ Kept
      /\ "ask" \in StepNames \ Kept /\ "oracle" \in StepNames \ Kept
      /\ "path" \in StepNames \ Kept /\ "row" \in StepNames \ Kept
      /\ "lookup" \in StepNames \ Kept /\ "remote" \in StepNames \ Kept
      /\ "file" \in StepNames \ Kept /\ "own" \in StepNames \ Kept
  BY StepNamesAre DEF Kept
<1> QED
  BY <1>1, UngatedCommands, Zenon DEF OnSession, InSidecar, InStore, DdlConfirm

(* those that go out without asking it,                                    *)
LEMMA OutsideCommands ==
  WellGated(OrdsTest.ords_test_http) /\ WellGated(VectorSearch)
<1>1. /\ <<"session", "address", "leave">> \in Seq(StepNames)
      /\ <<"leave", "session">> \in Seq(StepNames)
  BY StepNamesAre, ShortCommands, Zenon
<1>2. /\ OrdsTest.ords_test_http = <<"session", "address", "leave">>
      /\ VectorSearch = <<"leave", "session">>
  BY DEF OrdsTest, VectorSearch
<1>3. WellGated(VectorSearch)
  BY <1>1, <1>2 DEF WellGated, NotGated
<1>4. WellGated(OrdsTest.ords_test_http)
  BY <1>1, <1>2 DEF WellGated, NotGated
<1> QED
  BY <1>3, <1>4

(* and so all of them.                                                     *)
LEMMA CommandsAre == \A cmd \in Commands : WellGated(cmd)
<1> DEFINE Are(group) == \A n \in DOMAIN group : WellGated(group[n])
<1>1. /\ Are(OfConnections) /\ Are(OfTheTree) /\ Are(OfHistory) /\ Are(HistorySave)
      /\ Are(HistoryClear) /\ Are(OfObjects)
  BY SessionCommands DEF OfConnections, OfTheTree, OfHistory, HistorySave, HistoryClear, OfObjects
<1>2. Are(OfModels)
  BY SessionCommands, CommandsGated DEF OfModels
<1>3. Are(OfTransactions) /\ Are(OfTheDebugger) /\ Are(OfORDS) /\ Are(OfApproval)
  BY SessionCommands DEF OfTransactions, OfTheDebugger, OfORDS, OfApproval
<1>4. Are(OfVectors) /\ Are(OrdsTest)
  <2>1. Are(OfVectors)
    BY SessionCommands, OutsideCommands DEF OfVectors
  <2>2. DOMAIN OrdsTest = {"ords_test_http"} /\ OrdsTest["ords_test_http"] = OrdsTest.ords_test_http
    BY DEF OrdsTest
  <2> QED
    BY <2>1, <2>2, OutsideCommands
<1>5. Are(OfClients) /\ Are(OfConfirmations) /\ Are(OfTheWizard)
  BY SessionCommands DEF OfClients, OfConfirmations, OfTheWizard
<1>6. Are(OfVersions) /\ Are(OfTheToken)
  BY SessionCommands, CommandsGated DEF OfVersions, OfTheToken
<1>7. Are(OfSandboxes) /\ Are(OfSharing) /\ Are(OfOpenSandboxes) /\ Are(DryRun) /\ Are(Build)
  <2> DEFINE asks == Enveloped \o <<"folder", "cloud">>
             dry == Enveloped \o <<"folder", "oracle", "cloud", "own">>
             builds == Enveloped \o <<"oracle", "folder", "cloud", "own">>
  <2>1. /\ WellGated(SandboxCloud) /\ WellGated(SandboxLocal) /\ WellGated(SandboxRepublish)
        /\ WellGated(asks) /\ WellGated(dry) /\ WellGated(builds)
    BY CommandsGated, Zenon DEF SandboxCloud, SandboxLocal, SandboxRepublish
  <2>2. /\ OfSandboxes = [sandbox_ensure_keypair |-> SandboxCloud, sandbox_publish |-> asks,
                          sandbox_republish |-> SandboxRepublish]
        /\ DryRun = [sandbox_build_dry_run |-> dry] /\ Build = [sandbox_build |-> builds]
    BY Zenon DEF OfSandboxes, DryRun, Build
  <2> HIDE DEF asks, dry, builds
  <2> QED
    BY <2>1, <2>2 DEF OfSharing, OfOpenSandboxes
<1>8. Are(OfTheCommandWindow) /\ Are(OfMoreObjects) /\ Are(OfJobs) /\ Are(OfUsersAndSessions)
  BY SessionCommands DEF OfTheCommandWindow, OfMoreObjects, OfJobs, OfUsersAndSessions
<1> HIDE DEF Are
<1>9. \A group \in Handlers : Are(group)
  BY <1>1, <1>2, <1>3, <1>4, <1>5, <1>6, <1>7, <1>8 DEF Handlers
<1> QED
  BY <1>9, Zenon DEF Commands, Are

(* Publishing again reads the builds folder before it takes passwords.     *)
LEMMA RepublishIs ==
  /\ SandboxRepublish[5] = "oracle" /\ SandboxRepublish[4] = "config"
  /\ \A i \in DOMAIN SandboxRepublish :
       SandboxRepublish[i] = "oracle" => i = 5
<1> DEFINE p == <<"folder", "config", "oracle", "own", "cloud">>
           q == SandboxRepublish
<1>1. p \in Seq(StepNames)
  BY StepNamesAre, ShortCommands, Zenon
<1>2. /\ Len(p) = 5 /\ p[1] = "folder" /\ p[2] = "config" /\ p[3] = "oracle" /\ p[4] = "own"
      /\ p[5] = "cloud"
  OBVIOUS
<1>3. q = Enveloped \o p
  BY DEF SandboxRepublish
<1> HIDE DEF p, q
<1>4. /\ q \in Seq(StepNames) /\ Len(q) = Len(p) + 2 /\ q[1] = "gate" /\ q[2] = "token"
      /\ \A i \in 3 .. Len(p) + 2 : q[i] = p[i - 2]
  BY <1>1, <1>3, EnvelopedIs
<1>5. DOMAIN q = 1 .. 7
  BY <1>2, <1>4
<1>6. q[3] = "folder" /\ q[4] = "config" /\ q[5] = "oracle" /\ q[6] = "own" /\ q[7] = "cloud"
  BY <1>2, <1>4
<1>7. \A i \in 1 .. 7 : q[i] = "oracle" => i = 5
  BY <1>4, <1>6
<1> QED
  BY <1>5, <1>6, <1>7 DEF q

(* The first state.                                                        *)
LEMMA CommandsStart ==
  ASSUME CommandsInit PROVE CommandsInv
<1>1. asked = NoCall
  BY DEF CommandsInit
<1>2. <<>> \in Seq(StepNames)
  OBVIOUS
<1>3. CommandsTypeOK
  <2>1. NoCall \in CommandRecord
    BY <1>2 DEF NoCall, CommandRecord
  <2> QED
    BY <1>1, <2>1 DEF CommandsInit, CommandsTypeOK
<1>4. asked.cmd \in Commands \cup {<<>>} /\ (asked.gapped => gap) /\ TodoIsAnEnd
  BY <1>1 DEF NoCall, TodoIsAnEnd
<1>5. CommandsOrdered
  BY <1>1 DEF NoCall, CommandsOrdered, GapHolds, SecretsBehindTheGate, CloudCallsAreSigned,
     RepublishReadsItsOwn, WindowsLoggedWereOpened
<1> QED
  BY <1>3, <1>4, <1>5 DEF CommandsInv

(* What is left of an end of a sequence.                                   *)
LEMMA EndOfEnd ==
  ASSUME NEW s \in Seq(StepNames), NEW k \in DOMAIN s
  PROVE  LET e == SubSeq(s, k, Len(s)) IN
         /\ e # <<>> /\ Head(e) = s[k] /\ Tail(e) \in Seq(StepNames)
         /\ Tail(e) # <<>> => k + 1 \in DOMAIN s /\ Tail(e) = SubSeq(s, k + 1, Len(s))
<1> DEFINE n == Len(s)
           e == SubSeq(s, k, n)
<1>1. n \in Nat /\ k \in 1 .. n /\ DOMAIN s = 1 .. n
  OBVIOUS
<1>2. e \in Seq(StepNames) /\ Len(e) = n - k + 1 /\ \A i \in 1 .. n - k + 1 : e[i] = s[k + i - 1]
  BY <1>1, SubSeqProperties
<1>3. e # <<>> /\ Head(e) = s[k]
  BY <1>1, <1>2
<1> HIDE DEF e
<1>4. /\ Tail(e) \in Seq(StepNames) /\ Len(Tail(e)) = n - k
      /\ \A i \in 1 .. n - k : Tail(e)[i] = s[k + i]
  BY <1>1, <1>2, <1>3
<1>5. ASSUME Tail(e) # <<>>
      PROVE  k + 1 \in DOMAIN s /\ Tail(e) = SubSeq(s, k + 1, n)
  <2>1. k + 1 \in 1 .. n
    BY <1>1, <1>4, <1>5
  <2>2. /\ SubSeq(s, k + 1, n) \in Seq(StepNames) /\ Len(SubSeq(s, k + 1, n)) = n - k
        /\ \A i \in 1 .. n - k : SubSeq(s, k + 1, n)[i] = s[k + i]
    BY <1>1, <2>1, SubSeqProperties
  <2>3. Tail(e) = SubSeq(s, k + 1, n)
    BY <1>1, <1>4, <2>2, SeqEqual
  <2> QED
    BY <1>1, <2>1, <2>3
<1> QED
  BY <1>3, <1>4, <1>5 DEF e

(* What a step leaves in the record of the command.                        *)
LeftBy(step, t) ==
  /\ t \in CommandRecord
  /\ t.cmd = asked.cmd /\ t.built = asked.built /\ t.gapped = asked.gapped
  /\ t.took = IF step \in {"token", "key"} THEN asked.took \cup {step} ELSE asked.took
  /\ t.acct = IF step = "token" THEN account ELSE asked.acct
  /\ t.arg = IF step = "config" THEN asked.built ELSE asked.arg
  /\ t.creds = IF step = "oracle" THEN asked.arg ELSE asked.creds
  /\ t.ran = IF step = "session" THEN opened ELSE asked.ran
  /\ t.left = (asked.left \/ step \in {"leave", "cloud"})
  /\ t.logged = (asked.logged \/ step \in {"row", "event"})

(* What a step that is taken leaves in the record of the command.          *)
LEMMA TakenIs ==
  ASSUME CommandsTypeOK, NEW step \in StepNames
  PROVE  LeftBy(step, Taken(step))
<1> DEFINE t == Taken(step)
<1> USE DEF LeftBy, CommandsTypeOK, CommandRecord
<1>1. CASE step = "token"
  <2>1. t = [asked EXCEPT !.took = asked.took \cup {step}, !.acct = account]
    BY <1>1 DEF Taken
  <2>2. asked.took \cup {step} \in SUBSET {"token", "key"}
    BY <1>1
  <2>3. t \in CommandRecord
    BY <2>1, <2>2
  <2> QED
    BY <1>1, <2>1, <2>3
<1>2. CASE step = "key"
  BY <1>2 DEF Taken
<1>3. CASE step = "config"
  BY <1>3 DEF Taken
<1>4. CASE step = "oracle"
  BY <1>4 DEF Taken
<1>5. CASE step = "session"
  BY <1>5 DEF Taken
<1>6. CASE step \in {"leave", "cloud"}
  BY <1>6 DEF Taken
<1>7. CASE step \in {"row", "event"}
  BY <1>7 DEF Taken
<1>8. CASE step \notin {"token", "key", "config", "oracle", "session", "leave", "cloud", "row",
                       "event"}
  <2>1. t = asked
    BY <1>8 DEF Taken
  <2> QED
    BY <1>8, <2>1
<1> QED
  BY <1>1, <1>2, <1>3, <1>4, <1>5, <1>6, <1>7, <1>8

(* A step, the k-th of the command, that does not end it: t is what it     *)
(* leaves, but for what is left to do.                                     *)
StepsOn(k, step, t) ==
  /\ k \in DOMAIN asked.cmd /\ Behind(k) /\ step = asked.cmd[k] /\ ~Refuses(step)
  /\ LeftBy(step, t) \/ (t = asked /\ step \in Swallowed)
  /\ \E todo \in Seq(StepNames), res \in {"runs", "done", "none", "refused", "failed"} :
       /\ asked' = [t EXCEPT !.todo = todo, !.res = res]
       /\ todo # <<>> => /\ k + 1 \in DOMAIN asked.cmd
                         /\ todo = SubSeq(asked.cmd, k + 1, Len(asked.cmd))
  /\ UNCHANGED <<opened, gap, account>>

(* A command goes on by one step.                                          *)
LEMMA GoingKeeps ==
  ASSUME CommandsInv, asked.cmd \in Commands, NEW k, NEW step, NEW t, StepsOn(k, step, t)
  PROVE  CommandsInv'
<1>0. /\ k \in DOMAIN asked.cmd /\ Behind(k) /\ step = asked.cmd[k] /\ ~Refuses(step)
      /\ LeftBy(step, t) \/ (t = asked /\ step \in Swallowed)
      /\ UNCHANGED <<opened, gap, account>>
  BY DEF StepsOn
<1>p. PICK todo \in Seq(StepNames), res \in {"runs", "done", "none", "refused", "failed"} :
       /\ asked' = [t EXCEPT !.todo = todo, !.res = res]
       /\ todo # <<>> => /\ k + 1 \in DOMAIN asked.cmd
                         /\ todo = SubSeq(asked.cmd, k + 1, Len(asked.cmd))
  BY DEF StepsOn
<1> DEFINE cmd == asked.cmd
<1>1. /\ CommandsTypeOK /\ (asked.gapped => gap) /\ CommandsOrdered
      /\ WellGated(cmd) /\ step \in StepNames /\ k \in Nat \ {0}
  <2>1. CommandsTypeOK /\ (asked.gapped => gap) /\ CommandsOrdered
    BY DEF CommandsInv
  <2>2. WellGated(cmd)
    BY CommandsAre
  <2>3. step \in StepNames /\ k \in Nat \ {0}
    BY <1>0, <2>2 DEF WellGated
  <2> QED
    BY <2>1, <2>2, <2>3
<1>2. /\ t \in CommandRecord
      /\ t.cmd = cmd /\ t.built = asked.built /\ t.gapped = asked.gapped
      /\ t.took = asked.took \/ step \in {"token", "key"}
      /\ t.acct = IF step = "token" THEN account ELSE asked.acct
      /\ t.arg = IF step = "config" THEN asked.built ELSE asked.arg
      /\ t.creds = IF step = "oracle" THEN asked.arg ELSE asked.creds
      /\ t.ran = IF step = "session" THEN opened ELSE asked.ran
      /\ t.left => asked.left \/ step \in {"leave", "cloud"}
      /\ t.logged => asked.logged \/ step \in {"row", "event"}
  <2>1. CASE LeftBy(step, t)
    BY <2>1 DEF LeftBy
  <2>2. CASE t = asked /\ step \in Swallowed
    BY <1>1, <2>2 DEF Swallowed, CommandsTypeOK
  <2> QED
    BY <1>0, <2>1, <2>2
<1>3. /\ asked' \in CommandRecord /\ asked'.todo = todo
      /\ asked'.cmd = t.cmd /\ asked'.built = t.built /\ asked'.gapped = t.gapped
      /\ asked'.took = t.took /\ asked'.acct = t.acct /\ asked'.arg = t.arg
      /\ asked'.creds = t.creds /\ asked'.ran = t.ran /\ asked'.left = t.left
      /\ asked'.logged = t.logged
  BY <1>2, <1>p DEF CommandRecord
<1>4. /\ step = "gate" => ~asked.gapped
      /\ step = "token" => account # Nobody
      /\ step = "session" => opened # Nobody
  BY <1>0, <1>1 DEF Refuses
<1> HIDE DEF cmd
<1>5. Behind(k + 1)'
  <2>1. cmd[1] = "gate" => ~asked.gapped
    BY <1>0, <1>1, <1>4 DEF Behind, cmd
  <2>2. k > 1 /\ cmd[1] = "gate" /\ cmd[2] = "token" => t.acct # Nobody
    BY <1>0, <1>1, <1>2, <1>4 DEF Behind, cmd
  <2>3. k > 3 /\ cmd = SandboxRepublish => t.arg = t.built
    BY <1>0, <1>1, <1>2, RepublishIs DEF Behind, cmd
  <2>4. cmd = DdlConfirm => t.ran # Nobody
    <3>1. DdlConfirm[1] = "session"
      BY DEF DdlConfirm
    <3> QED
      BY <1>0, <1>1, <1>2, <1>4, <3>1 DEF Behind, cmd
  <2> QED
    BY <1>0, <1>1, <1>2, <1>3, <2>1, <2>2, <2>3, <2>4 DEF Behind
<1>6. k > 1 \/ step = cmd[1]
  BY <1>0, <1>1 DEF cmd
<1>7. (GapHolds /\ SecretsBehindTheGate)'
  <2>1. step \in {"token", "key"} => ~asked.gapped
    BY <1>0, <1>1, <1>6 DEF WellGated, Behind, cmd
  <2>2. step \in {"leave", "cloud"} => ~asked.gapped \/ cmd \in NotGated
    BY <1>0, <1>1, <1>6 DEF WellGated, Behind, cmd
  <2> QED
    BY <1>1, <1>2, <1>3, <2>1, <2>2
       DEF CommandsOrdered, GapHolds, SecretsBehindTheGate, cmd
<1>8. CloudCallsAreSigned'
  <2> SUFFICES ASSUME t.left, NEW i \in DOMAIN cmd, cmd[i] = "cloud"
               PROVE  t.acct # Nobody
    BY <1>2, <1>3 DEF CloudCallsAreSigned
  <2>1. CASE asked.left
    <3>1. asked.acct # Nobody
      BY <1>1, <2>1 DEF CommandsOrdered, CloudCallsAreSigned, cmd
    <3> QED
      BY <1>2, <1>4, <3>1
  <2>2. CASE step \in {"leave", "cloud"}
    <3>1. Len(cmd) > 1 /\ cmd[1] = "gate" /\ cmd[2] = "token"
      BY <1>1 DEF WellGated
    <3>2. k # 1 /\ k # 2
      BY <1>0, <2>2, <3>1 DEF cmd
    <3> QED
      BY <1>0, <1>1, <1>2, <2>2, <3>1, <3>2 DEF Behind, cmd
  <2> QED
    BY <1>2, <2>1, <2>2
<1>9. (RepublishReadsItsOwn /\ WindowsLoggedWereOpened)'
  <2>1. cmd = SandboxRepublish /\ t.creds # Nobody => t.creds = t.built
    <3>1. cmd = SandboxRepublish /\ step = "oracle" => asked.arg = asked.built
      <4>1. k \in DOMAIN cmd /\ step = cmd[k]
        BY <1>0 DEF cmd
      <4>2. cmd = SandboxRepublish /\ step = "oracle" => k = 5
        BY <4>1, RepublishIs
      <4> QED
        BY <1>0, <4>2 DEF Behind, cmd
    <3> QED
      BY <1>1, <1>2, <3>1 DEF CommandsOrdered, RepublishReadsItsOwn, cmd
  <2>2. cmd = DdlConfirm /\ t.logged => t.ran # Nobody
    <3>1. DdlConfirm[1] = "session"
      BY DEF DdlConfirm
    <3>2. cmd = DdlConfirm /\ k > 1 => asked.ran # Nobody
      BY <1>0 DEF Behind, cmd
    <3> QED
      BY <1>1, <1>2, <1>4, <1>6, <3>1, <3>2 DEF CommandsOrdered, WindowsLoggedWereOpened, cmd
  <2> QED
    BY <1>2, <1>3, <2>1, <2>2 DEF RepublishReadsItsOwn, WindowsLoggedWereOpened
<1>10. TodoIsAnEnd'
  <2> SUFFICES ASSUME asked'.todo # <<>>
               PROVE  \E j \in DOMAIN asked'.cmd :
                        /\ asked'.todo = SubSeq(asked'.cmd, j, Len(asked'.cmd))
                        /\ Behind(j)'
    BY DEF TodoIsAnEnd, Behind
  <2>1. k + 1 \in DOMAIN cmd /\ todo = SubSeq(cmd, k + 1, Len(cmd))
    BY <1>3, <1>p DEF cmd
  <2> QED
    BY <1>2, <1>3, <1>5, <1>p, <2>1
<1> QED
  BY <1>0, <1>1, <1>2, <1>3, <1>7, <1>8, <1>9, <1>10 DEF CommandsInv, CommandsTypeOK, CommandsOrdered, cmd

(* A step of the command that runs.                                        *)
LEMMA StepKeeps ==
  ASSUME CommandsInv, Step PROVE CommandsInv'
<1>1. /\ CommandsTypeOK /\ (asked.gapped => gap) /\ CommandsOrdered
      /\ asked.todo # <<>> /\ UNCHANGED <<opened, gap, account>>
      /\ \E k \in DOMAIN asked.cmd :
           asked.todo = SubSeq(asked.cmd, k, Len(asked.cmd)) /\ Behind(k)
  BY DEF CommandsInv, TodoIsAnEnd, Step
<1>2. PICK k \in DOMAIN asked.cmd :
        asked.todo = SubSeq(asked.cmd, k, Len(asked.cmd)) /\ Behind(k)
  BY <1>1
<1>3. asked.cmd \in Seq(StepNames) /\ asked.cmd \in Commands
  BY <1>1, <1>2 DEF CommandsInv, CommandsTypeOK, CommandRecord
<1> DEFINE step == Head(asked.todo)
           rest == Tail(asked.todo)
<1>4. /\ step = asked.cmd[k] /\ rest \in Seq(StepNames)
      /\ rest # <<>> => /\ k + 1 \in DOMAIN asked.cmd
                        /\ rest = SubSeq(asked.cmd, k + 1, Len(asked.cmd))
  BY <1>2, <1>3, EndOfEnd
<1>5. ASSUME NEW res \in {"refused", "failed"}, asked' = Ended(res)
      PROVE  CommandsInv'
  <2>1. /\ asked' \in CommandRecord /\ asked'.todo = <<>>
        /\ asked'.cmd = asked.cmd /\ asked'.built = asked.built /\ asked'.gapped = asked.gapped
        /\ asked'.took = asked.took /\ asked'.acct = asked.acct
        /\ asked'.creds = asked.creds /\ asked'.ran = asked.ran /\ asked'.left = asked.left
        /\ asked'.logged = asked.logged
    <3>1. <<>> \in Seq(StepNames)
      OBVIOUS
    <3> QED
      BY <1>1, <1>5, <3>1 DEF Ended, CommandRecord, CommandsTypeOK
  <2>2. CommandsOrdered'
    BY <1>1, <2>1 DEF CommandsOrdered, GapHolds, SecretsBehindTheGate, CloudCallsAreSigned,
       RepublishReadsItsOwn, WindowsLoggedWereOpened
  <2> QED
    BY <1>1, <1>3, <2>1, <2>2 DEF CommandsInv, CommandsTypeOK, TodoIsAnEnd
<1>6. ASSUME NEW t, LeftBy(step, t) \/ (t = asked /\ step \in Swallowed), ~Refuses(step),
             t.res \in {"runs", "done", "none", "refused", "failed"},
             asked' = [t EXCEPT !.todo = rest, !.res = IF rest = <<>> THEN "done" ELSE t.res]
      PROVE  CommandsInv'
  <2> DEFINE res == IF rest = <<>> THEN "done" ELSE t.res
  <2>1. res \in {"runs", "done", "none", "refused", "failed"}
    BY <1>6
  <2>2. asked' = [t EXCEPT !.todo = rest, !.res = res]
    BY <1>6
  <2> HIDE DEF res, step, rest
  <2>3. StepsOn(k, step, t)
    BY <1>1, <1>2, <1>4, <1>6, <2>1, <2>2 DEF StepsOn
  <2> QED
    BY <1>3, <2>3, GoingKeeps
<1>7. step \in StepNames
  BY <1>3, <1>4
<1>8. \/ \E res \in {"refused", "failed"} : asked' = Ended(res)
      \/ \E t \in {Taken(step), asked} :
           /\ t = Taken(step) \/ (t = asked /\ step \in Swallowed)
           /\ ~Refuses(step)
           /\ asked' = [t EXCEPT !.todo = rest, !.res = IF rest = <<>> THEN "done" ELSE t.res]
  <2>1. step \in Swallowed => ~Refuses(step)
    BY DEF Swallowed, Refuses
  <2> QED
    BY <2>1 DEF Step
<1>9. asked.res \in {"runs", "done", "none", "refused", "failed"}
  BY <1>1 DEF CommandsTypeOK, CommandRecord
<1>10. LeftBy(step, Taken(step))
  BY <1>1, <1>7, TakenIs
<1>11. Taken(step).res \in {"runs", "done", "none", "refused", "failed"}
  BY <1>10 DEF LeftBy, CommandRecord
<1> HIDE DEF step, rest
<1> QED
  BY <1>5, <1>6, <1>8, <1>9, <1>10, <1>11

(* What goes on beside the command, and its beginning.                     *)
LEMMA CommandsStep == CommandsInv /\ [CommandsNext]_commandsVars => CommandsInv'
<1> SUFFICES ASSUME CommandsInv, [CommandsNext]_commandsVars PROVE CommandsInv'
  OBVIOUS
<1>1. CASE Step
  BY <1>1, StepKeeps
<1>i. /\ CommandsTypeOK /\ asked.cmd \in Commands \cup {<<>>} /\ (asked.gapped => gap)
      /\ TodoIsAnEnd /\ CommandsOrdered
  BY DEF CommandsInv
<1>2. ASSUME NEW cmd \in Commands, NEW arg \in Bases \cup {Nobody},
             NEW built \in Bases \cup {Nobody}, Issue(cmd, arg, built)
      PROVE  CommandsInv'
  <2>1. cmd \in Seq(StepNames) /\ cmd # <<>>
    BY CommandsAre DEF WellGated
  <2>2. asked = NoCall /\ NoCall \in CommandRecord
    BY <1>2, <1>i DEF Issue, CommandsTypeOK
  <2>3. /\ asked' \in CommandRecord /\ asked'.cmd = cmd /\ asked'.todo = cmd
        /\ asked'.gapped = gap /\ asked'.left = FALSE /\ asked'.took = {}
        /\ asked'.creds = Nobody /\ asked'.logged = FALSE
    BY <1>2, <1>i, <2>1, <2>2 DEF Issue, NoCall, CommandRecord, CommandsTypeOK
  <2>4. UNCHANGED <<opened, gap, account>>
    BY <1>2 DEF Issue
  <2>5. TodoIsAnEnd'
    <3>1. 1 \in DOMAIN cmd /\ cmd = SubSeq(cmd, 1, Len(cmd))
      BY <2>1, SubSeqFull
    <3>2. Behind(1)'
      BY DEF Behind
    <3> QED
      BY <2>3, <3>1, <3>2 DEF TodoIsAnEnd
  <2>6. CommandsOrdered'
    BY <2>3 DEF CommandsOrdered, GapHolds, SecretsBehindTheGate, CloudCallsAreSigned,
       RepublishReadsItsOwn, WindowsLoggedWereOpened
  <2> QED
    BY <1>i, <2>3, <2>4, <2>5, <2>6 DEF CommandsInv, CommandsTypeOK
<1>3. CASE CellFollows
  <2>1. /\ asked' \in CommandRecord /\ asked'.cmd = asked.cmd /\ asked'.todo = asked.todo
        /\ asked'.gapped = (asked.gapped /\ gap') /\ asked'.left = asked.left
        /\ asked'.took = asked.took /\ asked'.acct = asked.acct /\ asked'.arg = asked.arg
        /\ asked'.built = asked.built /\ asked'.creds = asked.creds
        /\ asked'.ran = asked.ran /\ asked'.logged = asked.logged
        /\ gap' \in BOOLEAN /\ UNCHANGED <<opened, account>>
    <3>1. /\ asked' = [asked EXCEPT !.gapped = asked.gapped /\ gap'] /\ gap' \in BOOLEAN
          /\ UNCHANGED <<opened, account>> /\ asked.gapped \in BOOLEAN
      BY <1>3, <1>i DEF CellFollows, CommandsTypeOK, CommandRecord
    <3>2. PICK g \in BOOLEAN : g = (asked.gapped /\ gap')
      BY <3>1
    <3>3. asked' = [asked EXCEPT !.gapped = g]
      BY <3>1, <3>2
    <3> QED
      BY <1>i, <3>1, <3>2, <3>3 DEF CommandsTypeOK, CommandRecord
  <2>2. \A k : Behind(k) => Behind(k)'
    BY <2>1 DEF Behind
  <2>3. TodoIsAnEnd'
    BY <1>i, <2>1, <2>2 DEF TodoIsAnEnd
  <2>4. CommandsOrdered'
    BY <1>i, <2>1 DEF CommandsOrdered, GapHolds, SecretsBehindTheGate, CloudCallsAreSigned,
       RepublishReadsItsOwn, WindowsLoggedWereOpened
  <2> QED
    BY <1>i, <2>1, <2>3, <2>4 DEF CommandsInv, CommandsTypeOK
<1>4. ASSUME asked' = asked, gap' = gap, opened' \in Bases \cup {Nobody},
             account' \in People \cup {Nobody}
      PROVE  CommandsInv'
  <2>1. \A k : Behind(k) => Behind(k)'
    BY <1>4 DEF Behind
  <2>2. TodoIsAnEnd'
    BY <1>4, <1>i, <2>1 DEF TodoIsAnEnd
  <2>3. CommandsOrdered'
    BY <1>4, <1>i DEF CommandsOrdered, GapHolds, SecretsBehindTheGate, CloudCallsAreSigned,
       RepublishReadsItsOwn, WindowsLoggedWereOpened
  <2> QED
    BY <1>4, <1>i, <2>2, <2>3 DEF CommandsInv, CommandsTypeOK
<1>5. ASSUME NEW c \in Bases \cup {Nobody}, SessionChanges(c) PROVE CommandsInv'
  BY <1>4, <1>5, <1>i DEF SessionChanges, CommandsTypeOK
<1>6. ASSUME NEW a \in People \cup {Nobody}, SignsInOrOut(a) PROVE CommandsInv'
  BY <1>4, <1>6, <1>i DEF SignsInOrOut, CommandsTypeOK
<1>7. ASSUME NEW c \in Bases, Removed(c) PROVE CommandsInv'
  BY <1>4, <1>7, <1>i DEF Removed, CommandsTypeOK
<1>8. CASE UNCHANGED commandsVars
  BY <1>4, <1>8, <1>i DEF commandsVars, CommandsTypeOK
<1> QED
  BY <1>1, <1>2, <1>3, <1>5, <1>6, <1>7, <1>8 DEF CommandsNext

-----------------------------------------------------------------------------
(***************************************************************************)
(* The saved connections.                                                  *)
(***************************************************************************)

(* The saves and deletes, and what is left of one that is over.            *)
SaveTask ==
  [kind : {"save"}, pc : {"begin", "files", "extract", "persist", "user", "wallet", "done"},
   new : BOOLEAN, name : Names, env : Store!Envs, alias : Wallets \cup {None}, zip : BOOLEAN,
   airgap : BOOLEAN, toggled : BOOLEAN, conn : Store!Ids, alone : BOOLEAN]
DeleteTask ==
  [kind : {"delete"}, pc : {"row", "keys", "done"}, toggled : BOOLEAN,
   alias : Wallets \cup {None}, conn : Store!Ids, alone : BOOLEAN]
OverTask == [conn : Store!Ids, toggled : BOOLEAN, pc : {"done"}]
Task == SaveTask \cup DeleteTask \cup OverTask

Form ==
  [page : {"list", "new", "edit"}, conn : 0 .. MaxTasks, env : Store!Envs \cup {None},
   alias : Wallets \cup {None}, airgap : BOOLEAN, saving : 0 .. MaxTasks]

ConnTypeOK ==
  /\ row \in [Store!Ids -> Store!Row \cup {None}]
  /\ secret \in [Store!Ids -> [user : 0 .. MaxTasks, wallet : 0 .. MaxTasks]]
  /\ dir \in [Store!Ids -> Store!Dir \cup {None}]
  /\ task \in Seq(Task) /\ Len(task) <= MaxTasks
  /\ form \in Form
  /\ torn \in [Store!Parts -> SUBSET Store!Ids]

Saving == {"begin", "files", "extract", "persist", "user", "wallet"}
Early == {"begin", "files", "extract", "persist"}

(* What the operation has not touched yet.                                 *)
Untouched(s) == s.pc \in {"begin", "files", "row"} \/ (s.pc = "persist" /\ ~s.zip)

(* The wallet of a save that has come by it, new or kept.                  *)
WalletThere(s) ==
  s.pc \in {"persist", "user", "wallet"} /\ s.alias # None =>
    dir[s.conn] = Store!WholeWallet(s.alias)

(* What an operation that is alone finds as it left it.                    *)
Found(t, s) ==
  /\ s.pc \in {"files", "extract", "persist"} /\ ~s.new =>
       row[s.conn] # None /\ Store!EnvMayBecome(row[s.conn].env, s.env)
  /\ s.pc \in {"user", "wallet"} =>
       row[s.conn] # None /\ row[s.conn].by = t /\ row[s.conn].alias = s.alias
  /\ s.zip => WalletThere(s)
  /\ s.pc = "wallet" => secret[s.conn].user = t
  /\ s.pc = "keys" => row[s.conn] = None

TaskOK(t, s) ==
  /\ s.pc \in Early /\ s.new => s.conn = t /\ row[t] = None
  /\ s.pc \in {"files", "extract", "wallet"} => s.alias # None
  /\ s.pc = "extract" => s.zip
  /\ s.pc \in Saving /\ s.zip => s.alias # None
  /\ s.conn \notin torn["keys"] =>
       s.alone /\ (s.pc \in Early \cup {"row"} => Store!KeysAreWhole(s.conn))
  /\ s.conn \notin torn["wallet"] =>
       s.alone /\ (Untouched(s) => Store!WalletIsWhole(s.conn)) /\ (s.pc \in Saving => WalletThere(s))
  /\ s.alone => Found(t, s)

(* A connection stays of one kind, with a wallet or (basic) without.       *)
KindIs(basic) ==
  /\ \A c \in Store!Ids : row[c] # None => (row[c].alias = None <=> c \in basic)
  /\ \A t \in DOMAIN task : task[t].pc \in Saving \cup {"keys"} =>
       (task[t].alias = None <=> task[t].conn \in basic)
  /\ form.page = "edit" => (form.alias = None <=> form.conn \in basic)
  /\ \A c \in basic : dir[c] = None /\ secret[c].wallet = 0

(* Connections and operations that are no more than numbers yet.           *)
Numbered ==
  /\ \A c \in Store!Ids : c > Len(task) =>
       row[c] = None /\ secret[c] = [user |-> 0, wallet |-> 0] /\ dir[c] = None
  /\ \A t \in DOMAIN task : task[t].conn \in 1 .. Len(task)
  /\ form.page = "edit" => form.conn \in 1 .. Len(task)

(* What is not torn is whole.                                              *)
Sound(c) ==
  /\ c \notin torn["keys"] => Store!KeysAreWhole(c)
  /\ c \notin torn["wallet"] => Store!WalletIsWhole(c)

TasksOK == \A t \in DOMAIN task : task[t].pc # "done" => TaskOK(t, task[t])

NoneAlone ==
  \A t, u \in DOMAIN task :
    t # u /\ task[t].pc # "done" /\ task[u].pc # "done" /\ task[t].conn = task[u].conn =>
      ~task[t].alone

ConnInv ==
  /\ ConnTypeOK /\ Numbered /\ TasksOK /\ NoneAlone
  /\ \A c \in Store!Ids : Store!Running(c) = {} => Sound(c)
  /\ \E basic \in SUBSET Store!Ids : KindIs(basic)

(* The connection of task t, alone, is touched; r is what becomes of t.    *)
OnlyOf(c) ==
  \A d \in Store!Ids \ {c} :
    /\ row'[d] = row[d] /\ secret'[d] = secret[d] /\ dir'[d] = dir[d]
    /\ \A p \in Store!Parts : d \in torn'[p] <=> d \in torn[p]

Typed ==
  /\ row' \in [Store!Ids -> Store!Row \cup {None}]
  /\ secret' \in [Store!Ids -> [user : 0 .. MaxTasks, wallet : 0 .. MaxTasks]]
  /\ dir' \in [Store!Ids -> Store!Dir \cup {None}]
  /\ torn' \in [Store!Parts -> SUBSET Store!Ids]
  /\ \/ form' = Store!List
     \/ /\ form' \in Form
        /\ form'.page = form.page /\ form'.conn = form.conn /\ form'.alias = form.alias

SameKind(s, r) ==
  /\ row'[s.conn] # None =>
       row'[s.conn] = row[s.conn] \/ (s.pc \in Saving
         /\ (row'[s.conn].alias = None <=> s.alias = None))
  /\ r.pc \in Saving \cup {"keys"} =>
       \/ s.pc \in Saving /\ (r.alias = None <=> s.alias = None)
       \/ row[s.conn] # None /\ (r.alias = None <=> row[s.conn].alias = None)
  /\ \/ dir'[s.conn] \in {None, dir[s.conn]}
     \/ s.pc \in Saving /\ s.alias # None
  /\ \/ secret'[s.conn].wallet \in {0, secret[s.conn].wallet}
     \/ s.pc \in Saving /\ s.alias # None

Moves(t, s, r) ==
  /\ s = task[t] /\ s.pc # "done" /\ r \in Task /\ r.conn = s.conn
  /\ task' = [task EXCEPT ![t] = r]
  /\ Typed /\ OnlyOf(s.conn) /\ SameKind(s, r)
  /\ r.pc # "done" => r.alone = s.alone /\ TaskOK(t, r)'
  /\ r.pc = "done" => Sound(s.conn)'
  /\ \A p \in Store!Parts : s.conn \in torn[p] /\ s.conn \notin torn'[p] => s.alone
  /\ row[s.conn] = None /\ row'[s.conn] # None => s.pc \in Early /\ s.new

(* A task of the store goes on by one step: what the conditions share.     *)
LEMMA MovesKeeps ==
  ASSUME ConnInv, NEW t \in DOMAIN task, NEW s, NEW r, Moves(t, s, r)
  PROVE  ConnInv'
<1> DEFINE c == s.conn
<1>i. /\ ConnTypeOK /\ Numbered /\ TasksOK /\ NoneAlone
      /\ \A d \in Store!Ids : Store!Running(d) = {} => Sound(d)
  BY DEF ConnInv
<1>1. /\ s = task[t] /\ s.pc # "done" /\ r \in Task /\ r.conn = c
      /\ task' = [task EXCEPT ![t] = r]
      /\ Typed /\ OnlyOf(c) /\ SameKind(s, r)
      /\ r.pc # "done" => r.alone = s.alone /\ TaskOK(t, r)'
      /\ r.pc = "done" => Sound(c)'
      /\ \A p \in Store!Parts : c \in torn[p] /\ c \notin torn'[p] => s.alone
      /\ row[c] = None /\ row'[c] # None => s.pc \in Early /\ s.new
  BY DEF Moves
<1>2. /\ task \in Seq(Task) /\ task' \in Seq(Task) /\ DOMAIN task' = DOMAIN task
      /\ Len(task') = Len(task) /\ task'[t] = r /\ \A u \in DOMAIN task \ {t} : task'[u] = task[u]
      /\ Len(task) \in Nat /\ DOMAIN task = 1 .. Len(task)
  BY <1>1, <1>i DEF ConnTypeOK
<1>3. s \in Task /\ c \in Store!Ids /\ \A u \in DOMAIN task : task[u] \in Task
        /\ task[u].conn \in Store!Ids
  <2>1. \A q \in Task : q.conn \in Store!Ids
    BY DEF Task, SaveTask, DeleteTask, OverTask
  <2> QED
    BY <1>1, <1>2, <2>1
<1>n. t \in Nat /\ Store!Ids \subseteq Nat
  BY <1>2 DEF Store!Ids
<1>f. \/ form'.page = "list"
      \/ form'.page = form.page /\ form'.conn = form.conn /\ form'.alias = form.alias
  BY <1>1 DEF Typed, Store!List
<1>4. ConnTypeOK'
  <2>1. form' \in Form
    <3>1. 0 \in 0 .. MaxTasks
      BY StoreAssumption
    <3>2. Store!List \in Form
      BY <3>1 DEF Store!List, Form
    <3> QED
      BY <1>1, <3>2 DEF Typed
  <2> QED
    BY <1>1, <1>2, <1>i, <2>1 DEF ConnTypeOK, Typed
<1>5. Numbered'
  <2>1. \A u \in DOMAIN task' : task'[u].conn \in 1 .. Len(task')
    BY <1>1, <1>2, <1>i DEF Numbered
  <2>2. form'.page = "edit" => form'.conn \in 1 .. Len(task')
    BY <1>2, <1>f, <1>i DEF Numbered
  <2>3. ASSUME NEW d \in Store!Ids, d > Len(task')
        PROVE  row'[d] = None /\ secret'[d] = [user |-> 0, wallet |-> 0] /\ dir'[d] = None
    <3>1. d # c
      BY <1>1, <1>2, <1>i, <2>3, <1>n DEF Numbered
    <3> QED
      BY <1>1, <1>2, <1>i, <2>3, <3>1 DEF Numbered, OnlyOf
  <2> QED
    BY <2>1, <2>2, <2>3 DEF Numbered
<1>6. ASSUME NEW u \in DOMAIN task, u # t, task[u].pc # "done"
      PROVE  TaskOK(u, task[u])'
  <2>0. PICK q : q = task[u]
    OBVIOUS
  <2>1. q \in Task /\ q.conn \in Store!Ids /\ TaskOK(u, q) /\ task'[u] = q
    BY <1>2, <1>3, <1>6, <1>i, <2>0 DEF TasksOK
  <2>2. CASE q.conn # c
    <3>1. /\ row'[q.conn] = row[q.conn] /\ secret'[q.conn] = secret[q.conn]
          /\ dir'[q.conn] = dir[q.conn]
          /\ \A p \in Store!Parts : q.conn \in torn'[p] <=> q.conn \in torn[p]
      BY <1>1, <2>1, <2>2 DEF OnlyOf
    <3>2. TaskOK(u, q)'
      <4>1. /\ Store!KeysAreWhole(q.conn) => Store!KeysAreWhole(q.conn)'
            /\ Store!WalletIsWhole(q.conn) => Store!WalletIsWhole(q.conn)'
            /\ WalletThere(q) => WalletThere(q)'
        BY <3>1 DEF Store!KeysAreWhole, Store!WalletIsWhole, WalletThere
      <4>2. Found(u, q) => Found(u, q)'
        BY <3>1 DEF Found, WalletThere
      <4>3. q.pc \in Early /\ q.new => q.conn = u /\ row'[u] = None
        BY <2>1, <3>1 DEF TaskOK
      <4>4. \A p \in {"keys", "wallet"} : q.conn \notin torn'[p] => q.conn \notin torn[p]
        BY <3>1 DEF Store!Parts
      <4> QED
        BY <2>1, <4>1, <4>2, <4>3, <4>4 DEF TaskOK, Untouched
    <3> QED
      BY <2>1, <3>2
  <2>3. CASE q.conn = c
    <3>1. ~s.alone /\ ~q.alone
      BY <1>1, <1>6, <1>i, <2>0, <2>3 DEF NoneAlone
    <3>2. /\ c \in torn["keys"] /\ c \in torn'["keys"]
          /\ c \in torn["wallet"] /\ c \in torn'["wallet"]
      BY <1>1, <2>1, <2>3, <3>1 DEF TaskOK, Store!Parts
    <3>3. q.pc \in Early /\ q.new => q.conn = u /\ row'[u] = None
      <4> SUFFICES ASSUME q.pc \in Early, q.new, row'[u] # None PROVE FALSE
        BY <2>1 DEF TaskOK
      <4>1. q.conn = u /\ row[u] = None
        BY <2>1 DEF TaskOK
      <4>2. s.pc \in Early /\ s.new
        BY <1>1, <2>3, <4>1
      <4>3. s.conn = t
        BY <1>1, <1>i, <4>2 DEF TasksOK, TaskOK
      <4> QED
        BY <1>6, <2>3, <4>1, <4>3
    <3>4. TaskOK(u, q)'
      BY <2>1, <2>3, <3>1, <3>2, <3>3 DEF TaskOK
    <3> QED
      BY <2>1, <3>4
  <2> QED
    BY <2>2, <2>3
<1>7. TasksOK'
  BY <1>1, <1>2, <1>6 DEF TasksOK
<1>8. NoneAlone'
  BY <1>1, <1>2, <1>i DEF NoneAlone
<1>9. ASSUME NEW d \in Store!Ids, Store!Running(d)' = {}
      PROVE  Sound(d)'
  <2>1. CASE d = c
    <3>1. r.pc = "done"
      BY <1>1, <1>2, <1>9, <2>1 DEF Store!Running
    <3> QED
      BY <1>1, <1>9, <2>1, <3>1
  <2>2. CASE d # c
    <3>1. Store!Running(d) = {}
      BY <1>1, <1>2, <1>9, <2>2 DEF Store!Running
    <3>2. Sound(d)
      BY <1>i, <3>1
    <3>3. /\ row'[d] = row[d] /\ secret'[d] = secret[d] /\ dir'[d] = dir[d]
          /\ \A p \in {"keys", "wallet"} : d \in torn'[p] <=> d \in torn[p]
      BY <1>1, <1>9, <2>2 DEF OnlyOf, Store!Parts
    <3> QED
      BY <3>2, <3>3 DEF Sound, Store!KeysAreWhole, Store!WalletIsWhole
  <2> QED
    BY <2>1, <2>2
<1>10. \E basic \in SUBSET Store!Ids : KindIs(basic)'
  <2>1. PICK basic \in SUBSET Store!Ids : KindIs(basic)
    BY DEF ConnInv
  <2>2. s.pc \in Saving => (s.alias = None <=> c \in basic)
    BY <1>1, <2>1 DEF KindIs
  <2>3. \A d \in Store!Ids : row'[d] # None => (row'[d].alias = None <=> d \in basic)
    BY <1>1, <1>3, <2>1, <2>2 DEF KindIs, OnlyOf, SameKind
  <2>4. \A u \in DOMAIN task' : task'[u].pc \in Saving \cup {"keys"} =>
          (task'[u].alias = None <=> task'[u].conn \in basic)
    BY <1>1, <1>2, <1>3, <2>1, <2>2 DEF KindIs, SameKind
  <2>5. form'.page = "edit" => (form'.alias = None <=> form'.conn \in basic)
    BY <1>f, <2>1 DEF KindIs
  <2>6. \A d \in basic : dir'[d] = None /\ secret'[d].wallet = 0
    BY <1>1, <1>3, <2>1, <2>2 DEF KindIs, OnlyOf, SameKind
  <2> QED
    BY <2>3, <2>4, <2>5, <2>6 DEF KindIs
<1> QED
  BY <1>4, <1>5, <1>7, <1>8, <1>9, <1>10 DEF ConnInv

(* What the type of an operation's record says of its place.               *)
LEMMA TaskIs ==
  \A s \in Task :
    /\ s.conn \in Store!Ids
    /\ s.pc \in Saving => s \in SaveTask
    /\ s.pc \in {"row", "keys"} => s \in DeleteTask
    /\ s.pc \in Saving \cup {"row", "keys", "done"}
    /\ s.toggled \in BOOLEAN
<1> SUFFICES ASSUME NEW s \in Task
             PROVE  /\ s.conn \in Store!Ids
                    /\ s.pc \in Saving => s \in SaveTask
                    /\ s.pc \in {"row", "keys"} => s \in DeleteTask
                    /\ s.pc \in Saving \cup {"row", "keys", "done"}
                    /\ s.toggled \in BOOLEAN
  OBVIOUS
<1>1. CASE s \in SaveTask
  <2>1. s.conn \in Store!Ids /\ s.pc \in Saving \cup {"done"} /\ s.toggled \in BOOLEAN
    BY <1>1 DEF SaveTask, Saving
  <2> QED
    BY <1>1, <2>1 DEF Saving
<1>2. CASE s \in DeleteTask
  <2>1. s.conn \in Store!Ids /\ s.pc \in {"row", "keys", "done"} /\ s.toggled \in BOOLEAN
    BY <1>2 DEF DeleteTask
  <2> QED
    BY <1>2, <2>1 DEF Saving
<1>3. CASE s \in OverTask
  <2>1. s.conn \in Store!Ids /\ s.pc = "done" /\ s.toggled \in BOOLEAN
    BY <1>3 DEF OverTask
  <2> QED
    BY <2>1 DEF Saving
<1> QED
  BY <1>1, <1>2, <1>3 DEF Task

(* What the invariant gives of the operation t that makes the next step.   *)
LEMMA TaskHas ==
  ASSUME ConnInv, NEW t \in DOMAIN task, task[t].pc # "done"
  PROVE  /\ task[t] \in Task /\ task[t].conn \in Store!Ids /\ TaskOK(t, task[t]) /\ t \in Store!Ids
         /\ task[t].pc \in Saving => task[t] \in SaveTask
         /\ task[t].pc \in {"row", "keys"} => task[t] \in DeleteTask
<1>1. task \in Seq(Task) /\ Len(task) <= MaxTasks /\ TaskOK(t, task[t])
  BY DEF ConnInv, ConnTypeOK, TasksOK
<1>2. task[t] \in Task /\ t \in 1 .. Len(task) /\ Len(task) \in Nat
  BY <1>1
<1>3. t \in Store!Ids
  BY <1>1, <1>2, StoreAssumption DEF Store!Ids
<1> QED
  BY <1>1, <1>2, <1>3, TaskIs

(* A save that ends before it has done anything, or one that failed.       *)
LEMMA EndsKeeps ==
  ASSUME ConnInv, NEW t \in DOMAIN task, task[t].pc \in Saving, NEW ok \in BOOLEAN, Store!Ends(t,
           ok),
         UNCHANGED <<row, secret, dir>>,
         NEW P \in SUBSET Store!Parts, torn' = Store!TornWith(task[t].conn, P),
         task[t].pc \in Early \/ "keys" \in P,
         Untouched(task[t]) \/ "wallet" \in P \/ task[t].pc \in {"user", "wallet"}
  PROVE  ConnInv'
<1>1. PICK s : s = task[t]
  OBVIOUS
<1>2. s \in SaveTask /\ s.conn \in Store!Ids /\ TaskOK(t, s) /\ t \in Store!Ids
        /\ s.toggled \in BOOLEAN
  <2>1. s.pc # "done"
    BY <1>1 DEF Saving
  <2> QED
    BY <1>1, <2>1, TaskHas DEF SaveTask
<1>3. PICK r : r = [conn |-> s.conn, toggled |-> s.toggled, pc |-> "done"]
  OBVIOUS
<1>4. r \in Task /\ r.conn = s.conn /\ r.pc = "done"
  BY <1>2, <1>3 DEF Task, OverTask
<1>5. task' = [task EXCEPT ![t] = r]
  BY <1>1, <1>3 DEF Store!Ends, Store!Over
<1>6. Typed
  <2>1. form' = Store!List \/ form' = form \/ form' = [form EXCEPT !.saving = 0]
    BY DEF Store!Ends, Store!FormAfter
  <2>2. 0 \in 0 .. MaxTasks
    BY StoreAssumption
  <2> QED
    <3>1. ConnTypeOK
      BY DEF ConnInv
    <3>2. \/ form' = Store!List
          \/ /\ form' \in Form
             /\ form'.page = form.page /\ form'.conn = form.conn /\ form'.alias = form.alias
      BY <2>1, <2>2, <3>1 DEF ConnTypeOK, Form
    <3>3. torn' \in [Store!Parts -> SUBSET Store!Ids]
      BY <1>1, <1>2, <3>1 DEF ConnTypeOK, Store!TornWith
    <3> QED
      BY <3>1, <3>2, <3>3 DEF ConnTypeOK, Typed
<1>7. OnlyOf(s.conn) /\ SameKind(s, r)
  BY <1>1, <1>2, <1>4 DEF OnlyOf, SameKind, Saving, Store!TornWith
<1>8. Sound(s.conn)'
  <2>1. s.conn \notin torn'["keys"] => s.conn \notin torn["keys"] /\ s.pc \in Early
    BY <1>1 DEF Store!TornWith, Store!Parts
  <2>2. s.conn \notin torn'["wallet"] =>
          s.conn \notin torn["wallet"] /\ (Untouched(s) \/ s.pc \in {"user", "wallet"})
    BY <1>1 DEF Store!TornWith, Store!Parts
  <2>3. s.conn \notin torn["wallet"] /\ s.pc \in {"user", "wallet"} => Store!WalletIsWhole(s.conn)
    BY <1>2 DEF TaskOK, Found, WalletThere, Saving, Store!WalletIsWhole
  <2>4. s.conn \notin torn'["keys"] => Store!KeysAreWhole(s.conn)
    BY <1>2, <2>1 DEF TaskOK
  <2>5. s.conn \notin torn'["wallet"] => Store!WalletIsWhole(s.conn)
    BY <1>2, <2>2, <2>3 DEF TaskOK
  <2> QED
    BY <2>4, <2>5 DEF Sound, Store!KeysAreWhole, Store!WalletIsWhole
<1>8t. \A p \in Store!Parts : s.conn \in torn[p] => s.conn \in torn'[p]
  BY <1>1 DEF Store!TornWith
<1>9. Moves(t, s, r)
  BY <1>1, <1>4, <1>5, <1>6, <1>7, <1>8, <1>8t DEF Moves, Saving
<1> QED
  BY <1>9, MovesKeeps

(* The same of one that leaves the history as it was.                      *)
LEMMA EndsEarly ==
  ASSUME ConnInv, NEW t \in DOMAIN task, task[t].pc \in Saving \cap Early,
         Store!Ends(t, FALSE), UNCHANGED <<row, secret, dir, torn>>, Untouched(task[t])
  PROVE  ConnInv'
<1>1. torn = Store!TornWith(task[t].conn, {})
  BY DEF ConnInv, ConnTypeOK, Store!TornWith
<1>2. {} \in SUBSET Store!Parts
  OBVIOUS
<1> QED
  BY <1>1, <1>2, EndsKeeps

(* A save that goes on to its next step.                                   *)
LEMMA GoesKeeps ==
  ASSUME ConnInv, NEW t \in DOMAIN task, NEW s, NEW r, NEW pc \in Saving,
         s = task[t], s.pc \in Saving, r = [s EXCEPT !.pc = pc],
         Store!Goes(t, pc), UNCHANGED <<form, torn>>,
         row' \in [Store!Ids -> Store!Row \cup {None}],
         secret' \in [Store!Ids -> [user : 0 .. MaxTasks, wallet : 0 .. MaxTasks]],
         dir' \in [Store!Ids -> Store!Dir \cup {None}],
         OnlyOf(s.conn), SameKind(s, r), TaskOK(t, r)',
         row[s.conn] = None /\ row'[s.conn] # None => s.pc \in Early /\ s.new
  PROVE  ConnInv'
<1>1. s.pc # "done" /\ s \in SaveTask
  <2>1. s.pc # "done"
    BY DEF Saving
  <2> QED
    BY <2>1, TaskHas
<1>2. r \in Task /\ r.conn = s.conn /\ r.pc = pc /\ r.alone = s.alone /\ pc # "done"
  <2>1. r \in SaveTask
    BY <1>1 DEF SaveTask, Saving
  <2>2. r.conn = s.conn /\ r.pc = pc /\ r.alone = s.alone
    BY <1>1 DEF SaveTask
  <2> QED
    BY <2>1, <2>2 DEF Task, Saving
<1>3. task' = [task EXCEPT ![t] = r]
  BY DEF Store!Goes
<1>4. Typed
  BY DEF ConnInv, ConnTypeOK, Typed
<1>5. Moves(t, s, r)
  BY <1>1, <1>2, <1>3, <1>4 DEF Moves
<1> QED
  BY <1>5, MovesKeeps

(* The same of a save that is going on and has written nothing.            *)
LEMMA WaitsKeeps ==
  ASSUME ConnInv, NEW t \in DOMAIN task, NEW s, NEW r, NEW pc \in Saving,
         s = task[t], s.pc \in Saving, r = [s EXCEPT !.pc = pc],
         Store!Goes(t, pc), UNCHANGED <<row, secret, dir, form, torn>>, TaskOK(t, r)
  PROVE  ConnInv'
<1>1. s \in SaveTask
  BY TaskHas DEF Saving
<1>2. r.pc = pc /\ r.alias = s.alias
  BY <1>1 DEF SaveTask
<1>3. OnlyOf(s.conn) /\ SameKind(s, r)
  BY <1>2 DEF OnlyOf, SameKind
<1>4. TaskOK(t, r)'
  BY DEF TaskOK, Store!KeysAreWhole, Store!WalletIsWhole, WalletThere, Found
<1>5. /\ row' \in [Store!Ids -> Store!Row \cup {None}]
      /\ secret' \in [Store!Ids -> [user : 0 .. MaxTasks, wallet : 0 .. MaxTasks]]
      /\ dir' \in [Store!Ids -> Store!Dir \cup {None}]
  BY DEF ConnInv, ConnTypeOK
<1> QED
  BY <1>3, <1>4, <1>5, GoesKeeps

(* The step Assembled keeps the invariant.                                 *)
LEMMA AssembledKeeps ==
  ASSUME ConnInv, NEW t \in DOMAIN task, Store!Assembled(t)
  PROVE  ConnInv'
<1>1. PICK s : s = task[t]
  OBVIOUS
<1>2. s.pc = "begin" /\ UNCHANGED <<row, secret, dir, torn>>
  BY <1>1 DEF Store!Assembled, Store!At
<1>3. s \in SaveTask /\ TaskOK(t, s) /\ s.pc \in Saving
  BY <1>1, <1>2, TaskHas DEF Saving
<1>4. CASE Store!Ends(t, FALSE)
  <2>1. Untouched(s) /\ s.pc \in Early
    BY <1>2 DEF Untouched, Early
  <2> QED
    BY <1>1, <1>2, <1>3, <1>4, <2>1, EndsEarly
<1>5. ASSUME ~Store!Ends(t, FALSE)
      PROVE  ConnInv'
  <2>1. /\ s.new \/ (row[s.conn] # None /\ Store!EnvMayBecome(row[s.conn].env, s.env))
        /\ Store!Goes(t, IF s.alias = None THEN "persist" ELSE "files") /\ UNCHANGED form
    BY <1>1, <1>5 DEF Store!Assembled
  <2>2. PICK pc : pc = IF s.alias = None THEN "persist" ELSE "files"
    OBVIOUS
  <2>3. pc \in Saving
    BY <2>2 DEF Saving
  <2>4. PICK r : r = [s EXCEPT !.pc = pc]
    OBVIOUS
  <2>5. /\ r.pc = pc /\ r.new = s.new /\ r.conn = s.conn /\ r.alias = s.alias
        /\ r.zip = s.zip /\ r.alone = s.alone /\ r.env = s.env
    BY <1>3, <2>4 DEF SaveTask
  <2>6. TaskOK(t, r)
    <3>1. /\ s.conn \notin torn["keys"] => s.alone /\ Store!KeysAreWhole(s.conn)
          /\ s.conn \notin torn["wallet"] => s.alone /\ Store!WalletIsWhole(s.conn)
          /\ s.zip => s.alias # None
      BY <1>2, <1>3 DEF TaskOK, Untouched, Early, Saving
    <3>2. s.new => s.conn = t /\ row[t] = None
      BY <1>2, <1>3 DEF TaskOK, Early
    <3>3. WalletThere(r) /\ Found(t, r)
      BY <2>1, <2>2, <2>5 DEF Found, WalletThere
    <3> QED
      BY <2>2, <2>5, <3>1, <3>2, <3>3 DEF TaskOK
  <2> QED
    BY <1>1, <1>2, <1>3, <2>1, <2>2, <2>3, <2>4, <2>6, WaitsKeeps
<1> QED
  BY <1>4, <1>5

(* The step WalletChecked keeps the invariant.                             *)
LEMMA WalletCheckedKeeps ==
  ASSUME ConnInv, NEW t \in DOMAIN task, Store!WalletChecked(t)
  PROVE  ConnInv'
<1>1. PICK s : s = task[t]
  OBVIOUS
<1>2. s.pc = "files" /\ ~s.zip /\ UNCHANGED <<row, secret, dir, torn>>
  BY <1>1 DEF Store!WalletChecked, Store!At
<1>3. s \in SaveTask /\ TaskOK(t, s) /\ s.pc \in Saving /\ s.conn \in Store!Ids
  BY <1>1, <1>2, TaskHas DEF Saving
<1>4. CASE Store!Ends(t, FALSE)
  <2>1. Untouched(s) /\ s.pc \in Early
    BY <1>2 DEF Untouched, Early
  <2> QED
    BY <1>1, <1>2, <1>3, <1>4, <2>1, EndsEarly
<1>5. ASSUME ~Store!Ends(t, FALSE)
      PROVE  ConnInv'
  <2>1. /\ dir[s.conn] # None /\ dir[s.conn].alias = s.alias
        /\ Store!Goes(t, "persist") /\ UNCHANGED form
    BY <1>1, <1>5 DEF Store!WalletChecked
  <2>2. PICK r : r = [s EXCEPT !.pc = "persist"]
    OBVIOUS
  <2>3. /\ r.pc = "persist" /\ r.new = s.new /\ r.conn = s.conn /\ r.alias = s.alias
        /\ r.zip = s.zip /\ r.alone = s.alone /\ r.env = s.env
    BY <1>3, <2>2 DEF SaveTask
  <2>w. s.conn \notin torn["wallet"] => Store!WalletIsWhole(s.conn) /\ WalletThere(r)
    <3> SUFFICES ASSUME s.conn \notin torn["wallet"]
                 PROVE  Store!WalletIsWhole(s.conn) /\ WalletThere(r)
      OBVIOUS
    <3>1. Store!WalletIsWhole(s.conn) /\ s.alone /\ row[s.conn] # None
      <4>1. Store!WalletIsWhole(s.conn) /\ s.alone
        BY <1>2, <1>3 DEF TaskOK, Untouched
      <4>2. s.new => row[s.conn] = None
        BY <1>2, <1>3 DEF TaskOK, Early
      <4>3. row[s.conn] # None
        BY <1>2, <1>3, <2>1, <4>1, <4>2 DEF TaskOK, Found, Store!WalletIsWhole
      <4> QED
        BY <4>1, <4>3
    <3>2. PICK basic \in SUBSET Store!Ids : KindIs(basic)
      BY DEF ConnInv
    <3>3. s.alias # None => row[s.conn].alias # None
      <4>1. row[s.conn].alias = None <=> s.conn \in basic
        BY <1>3, <3>1, <3>2 DEF KindIs
      <4>2. s.alias = None <=> s.conn \in basic
        BY <1>1, <1>3, <3>2 DEF KindIs
      <4> QED
        BY <4>1, <4>2
    <3>4. s.alias # None => dir[s.conn] = Store!WholeWallet(row[s.conn].alias)
      BY <3>1, <3>3 DEF Store!WalletIsWhole
    <3>5. s.alias # None => row[s.conn].alias = s.alias
      BY <2>1, <3>4 DEF Store!WholeWallet
    <3> QED
      BY <2>3, <3>1, <3>4, <3>5 DEF WalletThere
  <2>4. TaskOK(t, r)
    BY <1>2, <1>3, <2>1, <2>3, <2>w DEF TaskOK, Found, Untouched, Early, Saving, WalletThere
  <2>5. "persist" \in Saving
    BY DEF Saving
  <2> QED
    BY <1>1, <1>2, <1>3, <2>1, <2>2, <2>4, <2>5, WaitsKeeps
<1> QED
  BY <1>4, <1>5

(* The step WalletRefused keeps the invariant.                             *)
LEMMA WalletRefusedKeeps ==
  ASSUME ConnInv, NEW t \in DOMAIN task, Store!WalletRefused(t)
  PROVE  ConnInv'
<1>1. task[t].pc = "files" /\ Store!Ends(t, FALSE) /\ UNCHANGED <<row, secret, dir, torn>>
  BY DEF Store!WalletRefused, Store!At
<1>2. task[t].pc \in Saving \cap Early /\ Untouched(task[t])
  BY <1>1 DEF Saving, Early, Untouched
<1> QED
  BY <1>1, <1>2, EndsEarly

(* The step WalletEmptied keeps the invariant.                             *)
LEMMA WalletEmptiedKeeps ==
  ASSUME ConnInv, NEW t \in DOMAIN task, Store!WalletEmptied(t)
  PROVE  ConnInv'
<1>1. PICK s : s = task[t]
  OBVIOUS
<1>2. /\ s.pc = "files" /\ s.zip /\ Store!Goes(t, "extract") /\ UNCHANGED <<row, secret, form,
           torn>>
      /\ dir' = [dir EXCEPT ![s.conn] = Store!PartWallet(None)]
  BY <1>1 DEF Store!WalletEmptied, Store!At
<1>3. s \in SaveTask /\ TaskOK(t, s) /\ s.pc \in Saving /\ s.conn \in Store!Ids
  BY <1>1, <1>2, TaskHas DEF Saving
<1>4. PICK r : r = [s EXCEPT !.pc = "extract"]
  OBVIOUS
<1>5. /\ r.pc = "extract" /\ r.new = s.new /\ r.conn = s.conn /\ r.alias = s.alias
      /\ r.zip = s.zip /\ r.alone = s.alone /\ r.env = s.env
  BY <1>3, <1>4 DEF SaveTask
<1>6. TaskOK(t, r)'
  BY <1>2, <1>3, <1>5 DEF TaskOK, Found, Untouched, Early, Saving, WalletThere, Store!KeysAreWhole
<1>7. /\ row' \in [Store!Ids -> Store!Row \cup {None}]
      /\ secret' \in [Store!Ids -> [user : 0 .. MaxTasks, wallet : 0 .. MaxTasks]]
      /\ dir \in [Store!Ids -> Store!Dir \cup {None}]
  BY <1>2 DEF ConnInv, ConnTypeOK
<1>8. dir' \in [Store!Ids -> Store!Dir \cup {None}]
  <2>1. Store!PartWallet(None) \in Store!Dir
    BY DEF Store!PartWallet, Store!Dir
  <2> QED
    BY <1>2, <1>7, <2>1
<1>9. OnlyOf(s.conn) /\ SameKind(s, r)
  <2>1. s.alias # None
    BY <1>2, <1>3 DEF TaskOK
  <2> QED
    BY <1>2, <1>3, <1>5, <1>7, <2>1 DEF OnlyOf, SameKind
<1>10. "extract" \in Saving
  BY DEF Saving
<1> QED
  BY <1>1, <1>2, <1>3, <1>4, <1>6, <1>7, <1>8, <1>9, <1>10, GoesKeeps

(* The step NamesExtracted keeps the invariant.                            *)
LEMMA NamesExtractedKeeps ==
  ASSUME ConnInv, NEW t \in DOMAIN task, Store!NamesExtracted(t)
  PROVE  ConnInv'
<1>1. PICK s : s = task[t]
  OBVIOUS
<1>2. /\ s.pc = "extract" /\ UNCHANGED <<row, secret, task, form, torn>>
      /\ dir' = [dir EXCEPT ![s.conn] = Store!PartWallet(s.alias)]
  BY <1>1 DEF Store!NamesExtracted, Store!At
<1>3. s \in SaveTask /\ TaskOK(t, s) /\ s.pc \in Saving /\ s.conn \in Store!Ids
  BY <1>1, <1>2, TaskHas DEF Saving
<1>4. ConnTypeOK
  BY DEF ConnInv
<1>5. dir' \in [Store!Ids -> Store!Dir \cup {None}]
  <2>1. Store!PartWallet(s.alias) \in Store!Dir
    BY <1>3 DEF SaveTask, Store!PartWallet, Store!Dir
  <2> QED
    BY <1>2, <1>4, <2>1 DEF ConnTypeOK
<1>6. Typed
  BY <1>2, <1>4, <1>5 DEF ConnTypeOK, Typed
<1>7. s.alias # None /\ s.zip
  BY <1>2, <1>3 DEF TaskOK
<1>8. OnlyOf(s.conn) /\ SameKind(s, s)
  BY <1>2, <1>3, <1>4, <1>7 DEF OnlyOf, SameKind, ConnTypeOK
<1>9. TaskOK(t, s)'
  BY <1>2, <1>3, <1>7 DEF TaskOK, Found, Untouched, Early, Saving, WalletThere, Store!KeysAreWhole
<1>10. s \in Task /\ s.pc # "done" /\ task' = [task EXCEPT ![t] = s]
  <2>1. task = [task EXCEPT ![t] = s]
    BY <1>1, <1>4 DEF ConnTypeOK
  <2> QED
    BY <1>2, <1>3, <2>1 DEF Task
<1>11. Moves(t, s, s)
  BY <1>1, <1>2, <1>6, <1>8, <1>9, <1>10 DEF Moves
<1> QED
  BY <1>11, MovesKeeps

(* The step WalletExtracted keeps the invariant.                           *)
LEMMA WalletExtractedKeeps ==
  ASSUME ConnInv, NEW t \in DOMAIN task, NEW ok \in BOOLEAN, Store!WalletExtracted(t, ok)
  PROVE  ConnInv'
<1>1. PICK s : s = task[t]
  OBVIOUS
<1>2. s.pc = "extract" /\ UNCHANGED <<row, secret>>
  BY <1>1 DEF Store!WalletExtracted, Store!At
<1>3. s \in SaveTask /\ TaskOK(t, s) /\ s.pc \in Saving /\ s.conn \in Store!Ids
  BY <1>1, <1>2, TaskHas DEF Saving
<1>4. CASE Store!Ends(t, FALSE) /\ torn' = Store!TornWith(s.conn, {"wallet"}) /\ UNCHANGED dir
  <2>1. {"wallet"} \in SUBSET Store!Parts /\ s.pc \in Early
    BY <1>2 DEF Store!Parts, Early
  <2> QED
    BY <1>1, <1>2, <1>3, <1>4, <2>1, EndsKeeps
<1>5. ASSUME NEW d \in Store!Extracted(t), dir[s.conn] # None,
             dir' = [dir EXCEPT ![s.conn] = d], Store!Goes(t, "persist"),
             UNCHANGED <<form, torn>>
      PROVE  ConnInv'
  <2>1. PICK r : r = [s EXCEPT !.pc = "persist"]
    OBVIOUS
  <2>2. /\ r.pc = "persist" /\ r.new = s.new /\ r.conn = s.conn /\ r.alias = s.alias
        /\ r.zip = s.zip /\ r.alone = s.alone /\ r.env = s.env
        /\ s.alias \in Wallets \cup {None}
    BY <1>3, <2>1 DEF SaveTask
  <2>3. /\ row' \in [Store!Ids -> Store!Row \cup {None}]
        /\ secret' \in [Store!Ids -> [user : 0 .. MaxTasks, wallet : 0 .. MaxTasks]]
        /\ dir \in [Store!Ids -> Store!Dir \cup {None}]
    BY <1>2 DEF ConnInv, ConnTypeOK
  <2>d. /\ d \in Store!Dir
        /\ s.alone => d = Store!WholeWallet(s.alias)
    <3>1. dir[s.conn].alias \in Wallets \cup {None}
      BY <1>3, <1>5, <2>3 DEF Store!Dir
    <3>2. d = Store!WholeWallet(s.alias) \/ (~s.alone /\ d = Store!PartWallet(dir[s.conn].alias))
      <4>1. CASE s.alone
        BY <1>1, <1>5, <4>1 DEF Store!Extracted
      <4>2. CASE ~s.alone
        BY <1>1, <1>5, <4>2 DEF Store!Extracted
      <4> QED
        BY <4>1, <4>2
    <3>3. Store!WholeWallet(s.alias) \in Store!Dir /\ Store!PartWallet(dir[s.conn].alias) \in Store!Dir
      BY <2>2, <3>1 DEF Store!WholeWallet, Store!PartWallet, Store!Dir
    <3> QED
      BY <3>2, <3>3
  <2>4. dir' \in [Store!Ids -> Store!Dir \cup {None}] /\ dir'[s.conn] = d
    BY <1>3, <1>5, <2>3, <2>d
  <2>5. s.zip /\ s.alias # None
    BY <1>2, <1>3 DEF TaskOK
  <2>6. TaskOK(t, r)'
    BY <1>2, <1>3, <1>5, <2>2, <2>4, <2>5, <2>d
       DEF TaskOK, Found, Untouched, Early, Saving, WalletThere, Store!KeysAreWhole
  <2>7. OnlyOf(s.conn) /\ SameKind(s, r)
    BY <1>2, <1>3, <1>5, <2>2, <2>3, <2>5 DEF OnlyOf, SameKind
  <2>8. "persist" \in Saving
    BY DEF Saving
  <2> QED
    BY <1>1, <1>2, <1>3, <1>5, <2>1, <2>3, <2>4, <2>6, <2>7, <2>8, GoesKeeps
<1> QED
  BY <1>1, <1>4, <1>5 DEF Store!WalletExtracted

(* The step Persisted keeps the invariant.                                 *)
LEMMA PersistedKeeps ==
  ASSUME ConnInv, NEW t \in DOMAIN task, Store!Persisted(t)
  PROVE  ConnInv'
<1>1. PICK s : s = task[t]
  OBVIOUS
<1>2. s.pc = "persist" /\ UNCHANGED <<secret, dir>>
  BY <1>1 DEF Store!Persisted, Store!At
<1>3. s \in SaveTask /\ TaskOK(t, s) /\ s.pc \in Saving /\ s.conn \in Store!Ids /\ t \in Store!Ids
  BY <1>1, <1>2, TaskHas DEF Saving
<1>4. CASE /\ Store!Ends(t, FALSE) /\ UNCHANGED row
           /\ torn' = Store!TornWith(s.conn, IF s.zip THEN {"wallet"} ELSE {})
  <2>1. PICK P : P = IF s.zip THEN {"wallet"} ELSE {}
    OBVIOUS
  <2>2. P \in SUBSET Store!Parts /\ s.pc \in Early /\ (Untouched(s) \/ "wallet" \in P)
    BY <1>2, <2>1 DEF Untouched, Store!Parts, Early
  <2> QED
    BY <1>1, <1>2, <1>3, <1>4, <2>1, <2>2, EndsKeeps
<1>5. CASE /\ row' = [row EXCEPT ![s.conn] = [name |-> s.name, env |-> s.env,
                        alias |-> s.alias, airgap |-> s.airgap, by |-> t]]
           /\ Store!Goes(t, "user") /\ UNCHANGED <<form, torn>>
  <2>1. PICK r : r = [s EXCEPT !.pc = "user"]
    OBVIOUS
  <2>2. /\ r.pc = "user" /\ r.new = s.new /\ r.conn = s.conn /\ r.alias = s.alias
        /\ r.zip = s.zip /\ r.alone = s.alone /\ r.env = s.env
    BY <1>3, <2>1 DEF SaveTask
  <2>3. PICK w : w = [name |-> s.name, env |-> s.env, alias |-> s.alias,
                      airgap |-> s.airgap, by |-> t]
    OBVIOUS
  <2>4. w \in Store!Row /\ w # None /\ w.alias = s.alias /\ w.by = t
    <3>1. w \in Store!Row
      BY <1>3, <2>3 DEF SaveTask, Store!Row
    <3> QED
      BY <2>3, <3>1, StoreAssumption
  <2>5. /\ row \in [Store!Ids -> Store!Row \cup {None}]
        /\ secret' \in [Store!Ids -> [user : 0 .. MaxTasks, wallet : 0 .. MaxTasks]]
        /\ dir' \in [Store!Ids -> Store!Dir \cup {None}]
    BY <1>2 DEF ConnInv, ConnTypeOK
  <2>6. /\ row' \in [Store!Ids -> Store!Row \cup {None}] /\ row'[s.conn] = w
        /\ \A d \in Store!Ids \ {s.conn} : row'[d] = row[d]
    BY <1>3, <1>5, <2>3, <2>4, <2>5
  <2>7. TaskOK(t, r)'
    BY <1>2, <1>3, <1>5, <2>2, <2>4, <2>6
       DEF TaskOK, Found, Untouched, Early, Saving, WalletThere
  <2>8. OnlyOf(s.conn) /\ SameKind(s, r)
    BY <1>2, <1>3, <1>5, <2>2, <2>4, <2>6 DEF OnlyOf, SameKind
  <2>9. "user" \in Saving
    BY DEF Saving
  <2>10. CASE s.new
    <3>1. s.pc \in Early
      BY <1>2 DEF Early
    <3> QED
      BY <1>1, <1>2, <1>3, <1>5, <2>1, <2>5, <2>6, <2>7, <2>8, <2>9, <2>10, <3>1, GoesKeeps
  <2>11. CASE ~s.new
    <3>1. row[s.conn] # None
      BY <1>1, <1>5, <2>11, <2>3, <2>4, <2>6 DEF Store!Persisted, Store!Refuses
    <3> QED
      BY <1>1, <1>2, <1>3, <1>5, <2>1, <2>5, <2>6, <2>7, <2>8, <2>9, <3>1, GoesKeeps
  <2> QED
    BY <2>10, <2>11
<1> QED
  BY <1>1, <1>4, <1>5 DEF Store!Persisted

(* The step PasswordSet keeps the invariant.                               *)
LEMMA PasswordSetKeeps ==
  ASSUME ConnInv, NEW t \in DOMAIN task, NEW which \in {"user", "wallet"}, NEW ok \in BOOLEAN,
         Store!PasswordSet(t, which, ok)
  PROVE  ConnInv'
<1>1. PICK s : s = task[t]
  OBVIOUS
<1>2. /\ s.pc = which /\ UNCHANGED <<row, dir>>
      /\ secret' = IF ok THEN [secret EXCEPT ![s.conn][which] = t] ELSE secret
  BY <1>1 DEF Store!PasswordSet, Store!At
<1>3. s \in SaveTask /\ TaskOK(t, s) /\ s.pc \in Saving /\ s.conn \in Store!Ids /\ t \in Store!Ids
  BY <1>1, <1>2, TaskHas DEF Saving
<1>4. /\ row \in [Store!Ids -> Store!Row \cup {None}] /\ row' \in [Store!Ids -> Store!Row
           \cup {None}]
      /\ secret \in [Store!Ids -> [user : 0 .. MaxTasks, wallet : 0 .. MaxTasks]]
      /\ dir' \in [Store!Ids -> Store!Dir \cup {None}]
      /\ torn \in [Store!Parts -> SUBSET Store!Ids]
  BY <1>2 DEF ConnInv, ConnTypeOK
<1>5. t \in 0 .. MaxTasks
  BY <1>3, StoreAssumption DEF Store!Ids
<1>6. CASE ~ok
  <2>1. Store!Ends(t, FALSE) /\ torn' = Store!TornWith(s.conn, {"keys"}) /\ secret' = secret
    BY <1>1, <1>2, <1>6 DEF Store!PasswordSet
  <2>2. {"keys"} \in SUBSET Store!Parts
    BY DEF Store!Parts
  <2> QED
    BY <1>1, <1>2, <1>3, <2>1, <2>2, EndsKeeps
<1>o. ok => \A d \in Store!Ids \ {s.conn} : \A p \in Store!Parts : d \in torn'[p] <=> d \in torn[p]
  BY <1>1 DEF Store!PasswordSet
<1>7. ASSUME ok
      PROVE  /\ secret' \in [Store!Ids -> [user : 0 .. MaxTasks, wallet : 0 .. MaxTasks]]
             /\ secret'[s.conn][which] = t
             /\ which = "wallet" => secret'[s.conn].user = secret[s.conn].user
             /\ which = "user" => secret'[s.conn].wallet = secret[s.conn].wallet
             /\ OnlyOf(s.conn)
             /\ \A d \in Store!Ids \ {s.conn} : secret'[d] = secret[d]
  <2>1. secret' = [secret EXCEPT ![s.conn][which] = t]
    BY <1>2, <1>7
  <2>2. secret[s.conn] \in [user : 0 .. MaxTasks, wallet : 0 .. MaxTasks]
    BY <1>3, <1>4
  <2>3. CASE which = "user"
    <3>1. secret' = [secret EXCEPT ![s.conn].user = t]
      BY <2>1, <2>3
    <3>2. secret' \in [Store!Ids -> [user : 0 .. MaxTasks, wallet : 0 .. MaxTasks]]
      BY <1>3, <1>4, <1>5, <3>1
    <3>3. /\ secret'[s.conn].user = t /\ secret'[s.conn].wallet = secret[s.conn].wallet
          /\ \A d \in Store!Ids \ {s.conn} : secret'[d] = secret[d]
      BY <1>3, <1>4, <2>2, <3>1
    <3>4. OnlyOf(s.conn)
      BY <1>2, <1>7, <1>o, <3>3 DEF OnlyOf
    <3> QED
      BY <2>3, <3>2, <3>3, <3>4
  <2>4. CASE which = "wallet"
    <3>1. secret' = [secret EXCEPT ![s.conn].wallet = t]
      BY <2>1, <2>4
    <3>2. secret' \in [Store!Ids -> [user : 0 .. MaxTasks, wallet : 0 .. MaxTasks]]
      BY <1>3, <1>4, <1>5, <3>1
    <3>3. /\ secret'[s.conn].wallet = t /\ secret'[s.conn].user = secret[s.conn].user
          /\ \A d \in Store!Ids \ {s.conn} : secret'[d] = secret[d]
      BY <1>3, <1>4, <2>2, <3>1
    <3>4. OnlyOf(s.conn)
      BY <1>2, <1>7, <1>o, <3>3 DEF OnlyOf
    <3> QED
      BY <2>4, <3>2, <3>3, <3>4
  <2> QED
    BY <2>3, <2>4
<1>8. CASE ok /\ ~(which = "wallet" \/ s.alias = None)
  <2>1. Store!Goes(t, "wallet") /\ UNCHANGED <<form, torn>> /\ which = "user"
    BY <1>1, <1>8 DEF Store!PasswordSet
  <2>2. PICK r : r = [s EXCEPT !.pc = "wallet"]
    OBVIOUS
  <2>3. /\ r.pc = "wallet" /\ r.new = s.new /\ r.conn = s.conn /\ r.alias = s.alias
        /\ r.zip = s.zip /\ r.alone = s.alone /\ r.env = s.env
    BY <1>3, <2>2 DEF SaveTask
  <2>4. TaskOK(t, r)'
    BY <1>2, <1>3, <1>7, <1>8, <2>1, <2>3
       DEF TaskOK, Found, Untouched, Early, Saving, WalletThere
  <2>5. OnlyOf(s.conn) /\ SameKind(s, r)
    BY <1>2, <1>3, <1>7, <1>8, <2>1, <2>3 DEF OnlyOf, SameKind
  <2>6. "wallet" \in Saving
    BY DEF Saving
  <2>7. row'[s.conn] = row[s.conn]
    BY <1>2
  <2> QED
    BY <1>1, <1>3, <1>4, <1>7, <1>8, <2>1, <2>2, <2>4, <2>5, <2>6, <2>7, GoesKeeps
<1>9. CASE ok /\ (which = "wallet" \/ s.alias = None)
  <2>1. /\ Store!Ends(t, TRUE) /\ (~s.alone => torn' = torn)
        /\ s.alone => torn' = [p \in Store!Parts |-> IF p = "keys" \/ s.zip
                                                     THEN torn[p] \ {s.conn} ELSE torn[p]]
    BY <1>1, <1>9 DEF Store!PasswordSet
  <2>t. torn' \in [Store!Parts -> SUBSET Store!Ids]
    BY <1>3, <1>4, <2>1 DEF SaveTask
  <2>2. PICK r : r = [conn |-> s.conn, toggled |-> s.toggled, pc |-> "done"]
    OBVIOUS
  <2>3. r \in Task /\ r.conn = s.conn /\ r.pc = "done"
    BY <1>3, <2>2 DEF Task, OverTask, SaveTask
  <2>4. task' = [task EXCEPT ![t] = r] /\ form' = Store!List
    BY <1>1, <2>1, <2>2 DEF Store!Ends, Store!Over, Store!FormAfter
  <2>5. Typed
    BY <1>4, <1>7, <1>9, <2>4, <2>t DEF Typed
  <2>6. OnlyOf(s.conn)
    BY <1>7, <1>9
  <2>7. SameKind(s, r)
    BY <1>2, <1>3, <1>7, <1>9, <2>3 DEF SameKind, Saving, TaskOK
  <2>8. Sound(s.conn)'
    <3>1. s.conn \notin torn'["keys"] \/ s.conn \notin torn'["wallet"] => s.alone
      <4>1. ~s.alone => s.conn \in torn["keys"] /\ s.conn \in torn["wallet"]
        BY <1>3 DEF TaskOK
      <4> QED
        BY <2>1, <4>1
    <3>2. s.alone =>
            /\ row'[s.conn] # None /\ row'[s.conn].by = t /\ row'[s.conn].alias = s.alias
            /\ secret'[s.conn].user = t
            /\ s.alias # None => secret'[s.conn].wallet = t
            /\ s.zip => WalletThere(s)
      <4> SUFFICES ASSUME s.alone
                   PROVE  /\ row'[s.conn] # None /\ row'[s.conn].by = t
                          /\ row'[s.conn].alias = s.alias
                          /\ secret'[s.conn].user = t
                          /\ s.alias # None => secret'[s.conn].wallet = t
                          /\ s.zip => WalletThere(s)
        OBVIOUS
      <4>1. /\ row'[s.conn] # None /\ row'[s.conn].by = t /\ row'[s.conn].alias = s.alias
            /\ s.zip => WalletThere(s)
            /\ s.pc = "wallet" => secret[s.conn].user = t
        BY <1>2, <1>3 DEF TaskOK, Found
      <4>2. CASE which = "wallet"
        BY <1>2, <1>7, <1>9, <4>1, <4>2
      <4>3. CASE which = "user"
        BY <1>7, <1>9, <4>1, <4>3
      <4> QED
        BY <4>2, <4>3
    <3>3. s.conn \notin torn'["keys"] => Store!KeysAreWhole(s.conn)'
      BY <3>1, <3>2 DEF Store!KeysAreWhole
    <3>4. s.conn \notin torn'["wallet"] => WalletThere(s)
      <4>1. s.conn \notin torn'["wallet"] => s.zip \/ s.conn \notin torn["wallet"]
        BY <2>1, <3>1 DEF Store!Parts
      <4>2. s.conn \notin torn["wallet"] => WalletThere(s)
        BY <1>3 DEF TaskOK
      <4> QED
        BY <3>1, <3>2, <4>1, <4>2
    <3>5. s.conn \notin torn'["wallet"] => Store!WalletIsWhole(s.conn)'
      BY <1>2, <3>1, <3>2, <3>4 DEF WalletThere, Store!WalletIsWhole
    <3> QED
      BY <3>3, <3>5 DEF Sound
  <2>9. \A p \in Store!Parts : s.conn \in torn[p] /\ s.conn \notin torn'[p] => s.alone
    BY <2>1
  <2>10. s.pc # "done" /\ row'[s.conn] = row[s.conn]
    BY <1>2
  <2>11. Moves(t, s, r)
    BY <1>1, <2>3, <2>4, <2>5, <2>6, <2>7, <2>8, <2>9, <2>10 DEF Moves
  <2> QED
    BY <2>11, MovesKeeps
<1> QED
  BY <1>6, <1>8, <1>9

(* The step RowDeleted keeps the invariant.                                *)
LEMMA RowDeletedKeeps ==
  ASSUME ConnInv, NEW t \in DOMAIN task, Store!RowDeleted(t)
  PROVE  ConnInv'
<1>1. PICK s : s = task[t]
  OBVIOUS
<1>2. /\ s.pc = "row" /\ UNCHANGED <<secret, dir, form, torn>>
      /\ row' = [row EXCEPT ![s.conn] = None]
  BY <1>1 DEF Store!RowDeleted, Store!At
<1>3. s \in DeleteTask /\ TaskOK(t, s) /\ s.conn \in Store!Ids /\ s.pc # "done"
  BY <1>1, <1>2, TaskHas
<1>4. /\ row \in [Store!Ids -> Store!Row \cup {None}]
      /\ secret' \in [Store!Ids -> [user : 0 .. MaxTasks, wallet : 0 .. MaxTasks]]
      /\ dir' \in [Store!Ids -> Store!Dir \cup {None}]
      /\ torn' \in [Store!Parts -> SUBSET Store!Ids]
      /\ form \in Form
  BY <1>2 DEF ConnInv, ConnTypeOK
<1>5. row' \in [Store!Ids -> Store!Row \cup {None}] /\ row'[s.conn] = None
  BY <1>2, <1>3, <1>4
<1>6. Typed /\ OnlyOf(s.conn)
  BY <1>2, <1>4, <1>5 DEF Typed, OnlyOf
<1>7. CASE row[s.conn] = None
  <2>1. PICK r : r = [conn |-> s.conn, toggled |-> FALSE, pc |-> "done"]
    OBVIOUS
  <2>2. r \in Task /\ r.conn = s.conn /\ r.pc = "done"
    BY <1>3, <2>1 DEF Task, OverTask
  <2>3. task' = [task EXCEPT ![t] = r]
    BY <1>1, <1>7, <2>1 DEF Store!RowDeleted, Store!Over
  <2>4. SameKind(s, r)
    BY <1>2, <1>5, <2>2 DEF SameKind, Saving
  <2>5. Sound(s.conn)'
    BY <1>2, <1>3, <1>5, <1>7
       DEF TaskOK, Untouched, Sound, Store!KeysAreWhole, Store!WalletIsWhole
  <2>6. Moves(t, s, r)
    BY <1>1, <1>2, <1>3, <1>5, <1>6, <2>2, <2>3, <2>4, <2>5 DEF Moves
  <2> QED
    BY <2>6, MovesKeeps
<1>8. CASE row[s.conn] # None
  <2>0. row[s.conn] \in Store!Row
    BY <1>3, <1>4, <1>8
  <2>1. PICK r : r = [s EXCEPT !.pc = "keys", !.alias = row[s.conn].alias]
    OBVIOUS
  <2>2. /\ r \in DeleteTask /\ r.conn = s.conn /\ r.pc = "keys" /\ r.alone = s.alone
        /\ r.alias = row[s.conn].alias
    BY <1>3, <2>0, <2>1 DEF DeleteTask, Store!Row
  <2>3. task' = [task EXCEPT ![t] = r]
    <3>1. task' = [task EXCEPT ![t].pc = "keys", ![t].alias = row[task[t].conn].alias]
      BY <1>1, <1>8 DEF Store!RowDeleted
    <3>2. task' = [task EXCEPT ![t] = [task[t] EXCEPT !.pc = "keys",
                                                      !.alias = row[task[t].conn].alias]]
      BY <3>1
    <3> QED
      BY <1>1, <2>1, <3>2
  <2>4. SameKind(s, r)
    BY <1>2, <1>5, <1>8, <2>2 DEF SameKind, Saving
  <2>5. TaskOK(t, r)'
    BY <1>2, <1>3, <1>5, <2>2 DEF TaskOK, Found, Untouched, Early, Saving, DeleteTask, WalletThere
  <2>6. Moves(t, s, r)
    BY <1>1, <1>2, <1>3, <1>5, <1>6, <2>2, <2>3, <2>4, <2>5 DEF Moves, Task
  <2> QED
    BY <2>6, MovesKeeps
<1> QED
  BY <1>7, <1>8

(* The step SecretsDeleted keeps the invariant.                            *)
LEMMA SecretsDeletedKeeps ==
  ASSUME ConnInv, NEW t \in DOMAIN task,
         NEW user \in BOOLEAN, NEW wallet \in BOOLEAN, NEW dirs \in BOOLEAN,
         Store!SecretsDeleted(t, user, wallet, dirs)
  PROVE  ConnInv'
<1>1. PICK s : s = task[t]
  OBVIOUS
<1>2. /\ s.pc = "keys" /\ UNCHANGED <<row, form>>
      /\ secret' = [secret EXCEPT ![s.conn].user = IF user THEN 0 ELSE @,
                                  ![s.conn].wallet = IF s.alias # None /\ wallet THEN 0 ELSE @]
      /\ dir' = IF s.alias # None /\ dirs THEN [dir EXCEPT ![s.conn] = None] ELSE dir
      /\ torn' = Store!TornWith(s.conn,
                    (IF user /\ (s.alias # None => wallet) THEN {} ELSE {"keys"})
                       \cup (IF s.alias # None /\ ~dirs THEN {"wallet"} ELSE {}))
      /\ task' = [task EXCEPT ![t] = [conn |-> s.conn, toggled |-> FALSE, pc |-> "done"]]
  BY <1>1 DEF Store!SecretsDeleted, Store!At, Store!DirAfterDelete, Store!Over
<1>3. s \in DeleteTask /\ TaskOK(t, s) /\ s.conn \in Store!Ids /\ s.pc # "done"
  BY <1>1, <1>2, TaskHas
<1>4. /\ row' \in [Store!Ids -> Store!Row \cup {None}]
      /\ secret \in [Store!Ids -> [user : 0 .. MaxTasks, wallet : 0 .. MaxTasks]]
      /\ dir \in [Store!Ids -> Store!Dir \cup {None}]
      /\ torn \in [Store!Parts -> SUBSET Store!Ids]
      /\ form \in Form
  BY <1>2 DEF ConnInv, ConnTypeOK
<1>5. PICK x \in [user : 0 .. MaxTasks, wallet : 0 .. MaxTasks] :
        /\ x.user = IF user THEN 0 ELSE secret[s.conn].user
        /\ x.wallet = IF s.alias # None /\ wallet THEN 0 ELSE secret[s.conn].wallet
        /\ secret' = [secret EXCEPT ![s.conn] = x]
  <2>1. secret[s.conn] \in [user : 0 .. MaxTasks, wallet : 0 .. MaxTasks]
    BY <1>3, <1>4
  <2>2. 0 \in 0 .. MaxTasks
    BY StoreAssumption
  <2>3. PICK x : x = [secret[s.conn] EXCEPT
                        !.user = IF user THEN 0 ELSE secret[s.conn].user,
                        !.wallet = IF s.alias # None /\ wallet THEN 0
                                   ELSE secret[s.conn].wallet]
    OBVIOUS
  <2>4. /\ x \in [user : 0 .. MaxTasks, wallet : 0 .. MaxTasks]
        /\ x.user = IF user THEN 0 ELSE secret[s.conn].user
        /\ x.wallet = IF s.alias # None /\ wallet THEN 0 ELSE secret[s.conn].wallet
    BY <2>1, <2>2, <2>3
  <2>5. secret' = [secret EXCEPT ![s.conn] = x]
    BY <1>2, <1>3, <1>4, <2>3
  <2> QED
    BY <2>4, <2>5
<1>6. /\ secret' \in [Store!Ids -> [user : 0 .. MaxTasks, wallet : 0 .. MaxTasks]]
      /\ secret'[s.conn] = x /\ \A d \in Store!Ids \ {s.conn} : secret'[d] = secret[d]
  BY <1>3, <1>4, <1>5
<1>7. /\ dir' \in [Store!Ids -> Store!Dir \cup {None}]
      /\ \A d \in Store!Ids \ {s.conn} : dir'[d] = dir[d]
      /\ dir'[s.conn] \in {None, dir[s.conn]}
      /\ s.alias # None /\ dirs => dir'[s.conn] = None
  BY <1>2, <1>3, <1>4
<1>8. /\ torn' \in [Store!Parts -> SUBSET Store!Ids]
      /\ \A d \in Store!Ids \ {s.conn} : \A p \in Store!Parts : d \in torn'[p] <=> d \in torn[p]
      /\ \A p \in Store!Parts : s.conn \in torn[p] => s.conn \in torn'[p]
      /\ s.conn \notin torn'["keys"] =>
           user /\ (s.alias # None => wallet) /\ s.conn \notin torn["keys"]
      /\ s.conn \notin torn'["wallet"] =>
           (s.alias # None => dirs) /\ s.conn \notin torn["wallet"]
  BY <1>2, <1>3, <1>4 DEF Store!TornWith, Store!Parts
<1>9. PICK r : r = [conn |-> s.conn, toggled |-> FALSE, pc |-> "done"]
  OBVIOUS
<1>10. r \in Task /\ r.conn = s.conn /\ r.pc = "done"
  BY <1>3, <1>9 DEF Task, OverTask
<1>11. Typed /\ OnlyOf(s.conn) /\ SameKind(s, r)
  BY <1>2, <1>4, <1>5, <1>6, <1>7, <1>8, <1>10 DEF Typed, OnlyOf, SameKind, Saving
<1>12. Sound(s.conn)'
  <2>1. s.conn \notin torn'["keys"] \/ s.conn \notin torn'["wallet"] => row'[s.conn] = None
    BY <1>2, <1>3, <1>8 DEF TaskOK, Found
  <2>2. s.alias = None => dir[s.conn] = None /\ secret[s.conn].wallet = 0
    <3>1. PICK basic \in SUBSET Store!Ids : KindIs(basic)
      BY DEF ConnInv
    <3> QED
      BY <1>1, <1>2, <3>1 DEF KindIs
  <2>3. s.conn \notin torn'["keys"] => x = [user |-> 0, wallet |-> 0]
    <3>1. s.conn \notin torn'["keys"] => x.user = 0 /\ x.wallet = 0
      BY <1>5, <1>8, <2>2
    <3> QED
      BY <1>5, <3>1
  <2>4. s.conn \notin torn'["wallet"] => dir'[s.conn] = None
    BY <1>7, <1>8, <2>2
  <2> QED
    BY <1>6, <2>1, <2>3, <2>4 DEF Sound, Store!KeysAreWhole, Store!WalletIsWhole
<1>13. Moves(t, s, r)
  BY <1>1, <1>2, <1>3, <1>8, <1>9, <1>10, <1>11, <1>12 DEF Moves
<1> QED
  BY <1>13, MovesKeeps

(* The step Killed keeps the invariant.                                    *)
LEMMA KilledKeeps ==
  ASSUME ConnInv, Store!Killed
  PROVE  ConnInv'
<1>1. /\ task' = [t \in DOMAIN task |-> [task[t] EXCEPT !.pc = "done"]]
      /\ torn' = [p \in Store!Parts |->
                    torn[p] \cup {task[t].conn : t \in {u \in DOMAIN task : Store!Midway(u, p)}}]
      /\ form' = Store!List /\ UNCHANGED <<row, secret, dir>>
  BY DEF Store!Killed
<1>i. /\ ConnTypeOK /\ Numbered /\ TasksOK /\ NoneAlone
      /\ \A d \in Store!Ids : Store!Running(d) = {} => Sound(d)
  BY DEF ConnInv
<1>2. /\ task \in Seq(Task) /\ Len(task) \in Nat /\ DOMAIN task = 1 .. Len(task)
      /\ \A t \in DOMAIN task : task[t] \in Task /\ task[t].conn \in Store!Ids
  <2>1. task \in Seq(Task) /\ \A t \in DOMAIN task : task[t] \in Task
    BY <1>i DEF ConnTypeOK
  <2> QED
    BY <2>1, TaskIs
<1>3. \A s \in Task : LET r == [s EXCEPT !.pc = "done"]
                      IN r \in Task /\ r.pc = "done" /\ r.conn = s.conn
  <2> SUFFICES ASSUME NEW s \in Task
               PROVE  LET r == [s EXCEPT !.pc = "done"]
                      IN r \in Task /\ r.pc = "done" /\ r.conn = s.conn
    OBVIOUS
  <2>1. CASE s \in SaveTask
    BY <2>1 DEF SaveTask, Task
  <2>2. CASE s \in DeleteTask
    BY <2>2 DEF DeleteTask, Task
  <2>3. CASE s \in OverTask
    BY <2>3 DEF OverTask, Task
  <2> QED
    BY <2>1, <2>2, <2>3 DEF Task
<1>4. /\ DOMAIN task' = DOMAIN task
      /\ \A t \in DOMAIN task : /\ task'[t] \in Task /\ task'[t].pc = "done"
                                /\ task'[t].conn = task[t].conn
  BY <1>1, <1>2, <1>3
<1>5. task' \in Seq(Task) /\ Len(task') = Len(task)
  <2>1. task' = [t \in 1 .. Len(task) |-> task'[t]]
    BY <1>1, <1>2, <1>4
  <2> QED
    BY <1>2, <1>4, <2>1
<1>6. ConnTypeOK'
  <2>1. 0 \in 0 .. MaxTasks
    BY StoreAssumption
  <2>2. torn' \in [Store!Parts -> SUBSET Store!Ids]
    BY <1>1, <1>2, <1>i DEF ConnTypeOK
  <2> QED
    BY <1>1, <1>5, <1>i, <2>1, <2>2 DEF ConnTypeOK, Store!List, Form
<1>7. Numbered' /\ TasksOK' /\ NoneAlone'
  BY <1>1, <1>4, <1>5, <1>i DEF Numbered, TasksOK, NoneAlone, Store!List
<1>8. ASSUME NEW d \in Store!Ids
      PROVE  Sound(d)'
  <2>1. ASSUME NEW t \in DOMAIN task, task[t].conn = d, task[t].pc # "done"
        PROVE  /\ d \notin torn'["keys"] => Store!KeysAreWhole(d)
               /\ d \notin torn'["wallet"] => Store!WalletIsWhole(d)
    <3>1. PICK s : s = task[t]
      OBVIOUS
    <3>2. TaskOK(t, s) /\ s.pc \in Saving \cup {"row", "keys"}
      BY <1>2, <1>i, <2>1, <3>1, TaskIs DEF TasksOK
    <3>3. ASSUME d \notin torn'["keys"] PROVE Store!KeysAreWhole(d)
      <4>1. d \notin torn["keys"] /\ ~Store!Midway(t, "keys")
        BY <1>1, <2>1, <3>3 DEF Store!Parts
      <4>2. s.pc \in Early \cup {"row"}
        BY <3>1, <3>2, <4>1 DEF Store!Midway, Saving, Early
      <4> QED
        BY <2>1, <3>1, <3>2, <4>1, <4>2 DEF TaskOK
    <3>4. ASSUME d \notin torn'["wallet"] PROVE Store!WalletIsWhole(d)
      <4>1. d \notin torn["wallet"] /\ ~Store!Midway(t, "wallet")
        BY <1>1, <2>1, <3>4 DEF Store!Parts
      <4>2. Untouched(s) \/ s.pc \in {"user", "wallet"}
        BY <3>1, <3>2, <4>1 DEF Store!Midway, Saving, Untouched
      <4>3. CASE Untouched(s)
        BY <2>1, <3>1, <3>2, <4>1, <4>3 DEF TaskOK
      <4>4. CASE s.pc \in {"user", "wallet"}
        BY <2>1, <3>1, <3>2, <4>1, <4>4 DEF TaskOK, Found, WalletThere, Saving, Store!WalletIsWhole
      <4> QED
        BY <4>2, <4>3, <4>4
    <3> QED
      BY <3>3, <3>4
  <2>2. CASE Store!Running(d) = {}
    <3>1. Sound(d)
      BY <1>i, <2>2
    <3>2. \A p \in {"keys", "wallet"} : d \notin torn'[p] => d \notin torn[p]
      BY <1>1 DEF Store!Parts
    <3> QED
      BY <1>1, <3>1, <3>2 DEF Sound, Store!KeysAreWhole, Store!WalletIsWhole
  <2>3. CASE Store!Running(d) # {}
    <3>1. PICK t \in DOMAIN task : task[t].conn = d /\ task[t].pc # "done"
      BY <2>3 DEF Store!Running
    <3>2. /\ d \notin torn'["keys"] => Store!KeysAreWhole(d)
          /\ d \notin torn'["wallet"] => Store!WalletIsWhole(d)
      BY <2>1, <3>1
    <3> QED
      BY <1>1, <3>2 DEF Sound, Store!KeysAreWhole, Store!WalletIsWhole
  <2> QED
    BY <2>2, <2>3
<1>9. \E basic \in SUBSET Store!Ids : KindIs(basic)'
  <2>1. PICK basic \in SUBSET Store!Ids : KindIs(basic)
    BY DEF ConnInv
  <2>2. KindIs(basic)'
    BY <1>1, <1>4, <2>1 DEF KindIs, Store!List, Saving
  <2> QED
    BY <2>2
<1> QED
  BY <1>6, <1>7, <1>8, <1>9 DEF ConnInv

(* An operation e on connection c that starts.                             *)
Started(c, e) ==
  /\ e \in Task /\ e.conn = c /\ e.alone = (Store!Running(c) = {}) /\ e.pc \in {"begin", "row"}
  /\ c \in 1 .. Len(task) + 1
  /\ e.pc = "begin" /\ e.new => c = Len(task) + 1
  /\ e.pc \in Saving /\ e.zip => e.alias # None
  /\ Store!Starts(c, e) /\ UNCHANGED <<row, secret, dir>>
  /\ form' \in Form
  /\ form'.page = form.page /\ form'.conn = form.conn /\ form'.alias = form.alias
  /\ \E basic \in SUBSET Store!Ids : KindIs(basic) /\ (e.pc = "begin"
       => (e.alias = None <=> c \in basic))

(* The step Started keeps the invariant.                                   *)
LEMMA StartedKeeps ==
  ASSUME ConnInv, NEW c \in Store!Ids, NEW e, Started(c, e)
  PROVE  ConnInv'
<1>0. PICK n : n = Len(task) + 1
  OBVIOUS
<1> DEFINE m == [t \in DOMAIN task |-> IF t \in Store!Running(c)
                                         THEN [task[t] EXCEPT !.alone = FALSE] ELSE task[t]]
<1>i. /\ ConnTypeOK /\ Numbered /\ TasksOK /\ NoneAlone
      /\ \A d \in Store!Ids : Store!Running(d) = {} => Sound(d)
  BY DEF ConnInv
<1>1. /\ e \in Task /\ e.conn = c /\ e.alone = (Store!Running(c) = {}) /\ e.pc \in {"begin", "row"}
      /\ c \in 1 .. n /\ (e.pc = "begin" /\ e.new => c = n)
      /\ UNCHANGED <<row, secret, dir>>
      /\ form' \in Form
      /\ form'.page = form.page /\ form'.conn = form.conn /\ form'.alias = form.alias
      /\ Len(task) < MaxTasks /\ task' = Append(m, e)
      /\ torn' = Store!TornWith(c, IF Store!Running(c) = {} THEN {} ELSE Store!Parts)
  BY <1>0 DEF Started, Store!Starts
<1>t. /\ torn \in [Store!Parts -> SUBSET Store!Ids]
      /\ torn' \in [Store!Parts -> SUBSET Store!Ids]
      /\ Store!Running(c) = {} => torn' = torn
      /\ \A p \in Store!Parts : Store!Running(c) # {} => c \in torn'[p]
      /\ \A d \in Store!Ids, p \in Store!Parts : d \in torn[p] => d \in torn'[p]
  BY <1>1, <1>i DEF ConnTypeOK, Store!TornWith
<1>p. "keys" \in Store!Parts /\ "wallet" \in Store!Parts
  BY DEF Store!Parts
<1>2. /\ task \in Seq(Task) /\ Len(task) \in Nat /\ DOMAIN task = 1 .. Len(task)
      /\ \A t \in DOMAIN task : task[t] \in Task
  BY <1>i DEF ConnTypeOK
<1>3. \A s \in Task : s.pc # "done" =>
        LET r == [s EXCEPT !.alone = FALSE]
        IN /\ r \in Task /\ r.pc = s.pc /\ r.conn = s.conn /\ r.alias = s.alias /\ r.alone = FALSE
           /\ s.pc \in Saving => r.new = s.new /\ r.zip = s.zip
  <2> SUFFICES ASSUME NEW s \in Task, s.pc # "done"
               PROVE  LET r == [s EXCEPT !.alone = FALSE]
                      IN /\ r \in Task /\ r.pc = s.pc /\ r.conn = s.conn
                         /\ r.alias = s.alias /\ r.alone = FALSE
                         /\ s.pc \in Saving => r.new = s.new /\ r.zip = s.zip
    OBVIOUS
  <2>1. CASE s \in SaveTask
    BY <2>1 DEF SaveTask, Task
  <2>2. CASE s \in DeleteTask
    BY <2>2 DEF DeleteTask, Task, Saving
  <2>3. CASE s \in OverTask
    BY <2>3 DEF OverTask
  <2> QED
    BY <2>1, <2>2, <2>3 DEF Task
<1>4. \A t \in DOMAIN task :
        /\ m[t] \in Task /\ m[t].pc = task[t].pc /\ m[t].conn = task[t].conn
        /\ m[t].alias = task[t].alias
        /\ task[t].pc \in Saving => m[t].new = task[t].new /\ m[t].zip = task[t].zip
        /\ t \in Store!Running(c) => m[t].alone = FALSE
        /\ t \notin Store!Running(c) => m[t] = task[t]
  <2> SUFFICES ASSUME NEW t \in DOMAIN task
               PROVE  /\ m[t] \in Task /\ m[t].pc = task[t].pc /\ m[t].conn = task[t].conn
                      /\ m[t].alias = task[t].alias
                      /\ task[t].pc \in Saving =>
                           m[t].new = task[t].new /\ m[t].zip = task[t].zip
                      /\ t \in Store!Running(c) => m[t].alone = FALSE
                      /\ t \notin Store!Running(c) => m[t] = task[t]
    OBVIOUS
  <2>1. CASE t \in Store!Running(c)
    <3>1. task[t].pc # "done"
      BY <2>1 DEF Store!Running
    <3>2. m[t] = [task[t] EXCEPT !.alone = FALSE]
      BY <2>1
    <3> HIDE DEF m
    <3> QED
      BY <1>2, <1>3, <2>1, <3>1, <3>2
  <2>2. CASE t \notin Store!Running(c)
    <3>1. m[t] = task[t]
      BY <2>2
    <3> HIDE DEF m
    <3> QED
      BY <1>2, <2>2, <3>1
  <2> QED
    BY <2>1, <2>2
<1>5. m \in Seq(Task) /\ Len(m) = Len(task) /\ DOMAIN m = DOMAIN task
  <2>1. DOMAIN m = 1 .. Len(task)
    BY <1>2
  <2>2. m = [t \in 1 .. Len(task) |-> m[t]]
    BY <1>2
  <2> HIDE DEF m
  <2> QED
    BY <1>2, <1>4, <2>1, <2>2
<1> HIDE DEF m
<1>6. /\ task' \in Seq(Task) /\ Len(task') = n /\ DOMAIN task' = DOMAIN task \cup {n}
      /\ task'[n] = e /\ \A t \in DOMAIN task : t # n /\ task'[t] = m[t]
      /\ n \notin DOMAIN task /\ n \in Nat /\ n \in Store!Ids
  <2>1. task' \in Seq(Task) /\ Len(task') = n /\ task'[n] = e
    BY <1>0, <1>1, <1>2, <1>5, AppendProperties
  <2>2. \A t \in 1 .. Len(m) : task'[t] = m[t]
    BY <1>1, <1>5, AppendProperties
  <2>3. DOMAIN task' = 1 .. n
    BY <2>1
  <2>4. n \in Store!Ids
    BY <1>0, <1>1, <1>2, StoreAssumption DEF Store!Ids
  <2> QED
    BY <1>0, <1>2, <1>5, <2>1, <2>2, <2>3, <2>4
<1>7. ConnTypeOK'
  <2>1. Len(task') <= MaxTasks
    BY <1>1, <1>2, <1>6, StoreAssumption
  <2> QED
    BY <1>1, <1>6, <1>i, <1>t, <2>1 DEF ConnTypeOK
<1>8. Numbered'
  <2>1. \A t \in DOMAIN task' : task'[t].conn \in 1 .. Len(task')
    <3>1. task'[n].conn \in 1 .. n
      BY <1>1, <1>6
    <3>2. ASSUME NEW t \in DOMAIN task
          PROVE  task'[t].conn \in 1 .. n
      <4>1. task'[t].conn = task[t].conn /\ task[t].conn \in 1 .. Len(task)
        BY <1>4, <1>6, <1>i DEF Numbered
      <4> QED
        BY <1>0, <1>2, <4>1
    <3> QED
      BY <1>6, <3>1, <3>2
  <2>2. form'.page = "edit" => form'.conn \in 1 .. Len(task')
    BY <1>1, <1>2, <1>6, <1>i DEF Numbered
  <2>3. \A d \in Store!Ids : d > Len(task') => d > Len(task)
    BY <1>2, <1>6 DEF Store!Ids
  <2> QED
    BY <1>1, <1>i, <2>1, <2>2, <2>3 DEF Numbered
<1>9. ASSUME NEW t \in DOMAIN task, task[t].pc # "done"
      PROVE  TaskOK(t, task[t])'
  <2>1. TaskOK(t, task[t]) /\ task[t].conn \in Store!Ids
    BY <1>2, <1>9, <1>i, TaskIs DEF TasksOK
  <2>2. PICK q : q = m[t]
    OBVIOUS
  <2>3. CASE t \in Store!Running(c)
    <3>1. task[t].conn = c /\ c \in torn'["keys"] /\ c \in torn'["wallet"]
      BY <1>p, <1>t, <2>3 DEF Store!Running
    <3>2. TaskOK(t, q)'
      BY <1>1, <1>4, <2>1, <2>2, <2>3, <3>1 DEF TaskOK, Saving, Early
    <3> QED
      BY <1>6, <2>2, <3>2
  <2>4. CASE t \notin Store!Running(c)
    <3>1. q = task[t] /\ q.conn # c
      BY <1>4, <1>9, <2>2, <2>4 DEF Store!Running
    <3>2. \A p \in {"keys", "wallet"} : q.conn \notin torn'[p] => q.conn \notin torn[p]
      BY <1>p, <1>t, <2>1, <3>1
    <3>3. TaskOK(t, q)'
      BY <1>1, <2>1, <3>1, <3>2
         DEF TaskOK, Store!KeysAreWhole, Store!WalletIsWhole, Found, WalletThere, Untouched
    <3> QED
      BY <1>6, <2>2, <3>3
  <2> QED
    BY <2>3, <2>4
<1>10. TaskOK(n, e)'
  <2>1. e.pc \in Early /\ e.new => e.conn = n /\ row[n] = None
    BY <1>1, <1>2, <1>6, <1>i DEF Numbered, Early
  <2>2. c \notin torn'["keys"] => e.alone /\ Store!KeysAreWhole(c)'
    BY <1>1, <1>i, <1>p, <1>t DEF Sound, Store!KeysAreWhole
  <2>3. c \notin torn'["wallet"] => e.alone /\ Store!WalletIsWhole(c)'
    BY <1>1, <1>i, <1>p, <1>t DEF Sound, Store!WalletIsWhole
  <2>4. e.pc \in Saving /\ e.zip => e.alias # None
    BY DEF Started
  <2> QED
    BY <1>1, <2>1, <2>2, <2>3, <2>4 DEF TaskOK, Found, WalletThere, Untouched
<1>11. TasksOK'
  <2>1. ASSUME NEW t \in DOMAIN task', task'[t].pc # "done"
        PROVE  TaskOK(t, task[t])'
    <3>1. CASE t \in DOMAIN task
      BY <1>4, <1>6, <1>9, <2>1, <3>1
    <3>2. CASE t = n
      BY <1>6, <1>10, <3>2
    <3> QED
      BY <1>6, <3>1, <3>2
  <2> QED
    BY <2>1 DEF TasksOK
<1>12. NoneAlone'
  <2> SUFFICES ASSUME NEW t \in DOMAIN task', NEW u \in DOMAIN task', t # u,
                      task'[t].pc # "done", task'[u].pc # "done",
                      task'[t].conn = task'[u].conn
               PROVE  ~task'[t].alone
    BY DEF NoneAlone
  <2>1. CASE t = n
    <3>1. u \in Store!Running(c)
      BY <1>1, <1>4, <1>6, <2>1 DEF Store!Running
    <3> QED
      BY <1>1, <1>6, <2>1, <3>1
  <2>2. CASE t \in DOMAIN task /\ u = n
    <3>1. t \in Store!Running(c)
      BY <1>1, <1>4, <1>6, <2>2 DEF Store!Running
    <3> QED
      BY <1>4, <1>6, <2>2, <3>1
  <2>3. CASE t \in DOMAIN task /\ u \in DOMAIN task
    <3>1. ~task[t].alone
      BY <1>4, <1>6, <1>i, <2>3 DEF NoneAlone
    <3> QED
      BY <1>4, <1>6, <2>3, <3>1
  <2> QED
    BY <1>6, <2>1, <2>2, <2>3
<1>13. ASSUME NEW d \in Store!Ids, Store!Running(d)' = {}
       PROVE  Sound(d)'
  <2>1. d # c
    <3>1. e.pc # "done"
      BY <1>1
    <3> QED
      BY <1>1, <1>6, <1>13, <3>1 DEF Store!Running
  <2>2. Sound(d)
    <3>1. Store!Running(d) = {}
      BY <1>1, <1>4, <1>6, <1>13 DEF Store!Running
    <3> QED
      BY <1>i, <3>1
  <2> QED
    BY <1>1, <1>p, <1>t, <2>2 DEF Sound, Store!KeysAreWhole, Store!WalletIsWhole
<1>14. \E basic \in SUBSET Store!Ids : KindIs(basic)'
  <2>1. PICK basic \in SUBSET Store!Ids :
          KindIs(basic) /\ (e.pc = "begin" => (e.alias = None <=> c \in basic))
    BY DEF Started
  <2>2. \A t \in DOMAIN task' : task'[t].pc \in Saving \cup {"keys"} =>
          (task'[t].alias = None <=> task'[t].conn \in basic)
    BY <1>1, <1>4, <1>6, <2>1 DEF KindIs, Saving
  <2> QED
    BY <1>1, <2>1, <2>2 DEF KindIs
<1> QED
  BY <1>7, <1>8, <1>11, <1>12, <1>13, <1>14 DEF ConnInv

(* The step Submitted keeps the invariant.                                 *)
LEMMA SubmittedKeeps ==
  ASSUME ConnInv, NEW name \in Names, NEW env \in Store!Envs, NEW alias \in Wallets \cup {None},
         NEW zip \in BOOLEAN, NEW toggled \in BOOLEAN,
         Store!Submitted(name, env, alias, zip, toggled)
  PROVE  ConnInv'
<1>i. ConnTypeOK /\ Numbered
  BY DEF ConnInv
<1>0. /\ task \in Seq(Task) /\ Len(task) \in Nat
      /\ row \in [Store!Ids -> Store!Row \cup {None}]
      /\ secret \in [Store!Ids -> [user : 0 .. MaxTasks, wallet : 0 .. MaxTasks]]
      /\ form \in Form
  BY <1>i DEF ConnTypeOK
<1>1. PICK n : n = Len(task) + 1
  OBVIOUS
<1>2. PICK c : c = IF form.page = "new" THEN n ELSE form.conn
  OBVIOUS
<1>3. PICK e : e = [kind |-> "save", pc |-> "begin", new |-> form.page = "new",
                    name |-> name, env |-> env, alias |-> alias, zip |-> zip,
                    airgap |-> env = "prod" \/ form.airgap # toggled,
                    toggled |-> toggled, conn |-> c, alone |-> Store!Running(c) = {}]
  OBVIOUS
<1>4. /\ form.page \in {"new", "edit"} /\ Store!Starts(c, e) /\ form' = [form EXCEPT !.saving = n]
      /\ UNCHANGED <<row, secret, dir>>
      /\ form.page = "edit" => (alias = None <=> form.alias = None)
      /\ zip => alias # None
  BY <1>0, <1>1, <1>2, <1>3 DEF Store!Submitted, Form
<1>5. n \in Store!Ids /\ n \in 0 .. MaxTasks
  BY <1>0, <1>1, <1>4, StoreAssumption DEF Store!Starts, Store!Ids
<1>6. c \in 1 .. n /\ c \in Store!Ids
  <2>1. form.page = "edit" => form.conn \in 1 .. Len(task)
    BY <1>i DEF Numbered
  <2> QED
    BY <1>0, <1>1, <1>2, <1>4, <1>5, <2>1 DEF Store!Ids, Form
<1>7. /\ e \in Task /\ e.conn = c /\ e.alone = (Store!Running(c) = {}) /\ e.pc = "begin"
      /\ e.new = (form.page = "new") /\ e.alias = alias /\ e.zip = zip
  <2>1. e \in SaveTask
    BY <1>3, <1>6 DEF SaveTask
  <2> QED
    BY <1>3, <2>1 DEF Task
<1>8. /\ form' \in Form
      /\ form'.page = form.page /\ form'.conn = form.conn /\ form'.alias = form.alias
  BY <1>0, <1>4, <1>5 DEF Form
<1>9. \E basic \in SUBSET Store!Ids : KindIs(basic) /\ (alias = None <=> c \in basic)
  <2>1. PICK basic \in SUBSET Store!Ids : KindIs(basic)
    BY DEF ConnInv
  <2>2. CASE form.page = "edit"
    BY <1>2, <1>4, <2>1, <2>2 DEF KindIs
  <2>3. CASE form.page = "new"
    <3>1. PICK b \in SUBSET Store!Ids : b = {d \in Store!Ids : (d # n /\ d \in basic)
            \/ (d = n /\ alias = None)}
      OBVIOUS
    <3>2. row[n] = None /\ secret[n] = [user |-> 0, wallet |-> 0] /\ dir[n] = None
      BY <1>0, <1>1, <1>5, <1>i DEF Numbered
    <3>3. \A t \in DOMAIN task : task[t].conn # n
      BY <1>0, <1>1, <1>i DEF Numbered
    <3>4. \A t \in DOMAIN task : task[t].conn \in Store!Ids
      BY <1>0, TaskIs
    <3>5. KindIs(b)
      BY <2>1, <2>3, <3>1, <3>2, <3>3, <3>4 DEF KindIs
    <3> QED
      BY <1>2, <1>5, <2>3, <3>1, <3>5
  <2> QED
    BY <1>4, <2>2, <2>3
<1>10. Started(c, e)
  BY <1>1, <1>2, <1>4, <1>6, <1>7, <1>8, <1>9 DEF Started
<1> QED
  BY <1>6, <1>10, StartedKeeps

(* The step DeleteConfirmed keeps the invariant.                           *)
LEMMA DeleteConfirmedKeeps ==
  ASSUME ConnInv, NEW c \in Store!Ids, Store!DeleteConfirmed(c)
  PROVE  ConnInv'
<1>i. ConnTypeOK /\ Numbered
  BY DEF ConnInv
<1>0. /\ task \in Seq(Task) /\ Len(task) \in Nat
      /\ form \in Form
  BY <1>i DEF ConnTypeOK
<1>1. PICK e : e = [kind |-> "delete", pc |-> "row", toggled |-> FALSE, alias |-> None,
                    conn |-> c, alone |-> Store!Running(c) = {}]
  OBVIOUS
<1>2. Store!Starts(c, e) /\ row[c] # None /\ UNCHANGED <<row, secret, dir, form>>
  BY <1>1 DEF Store!DeleteConfirmed
<1>3. e \in DeleteTask /\ e.conn = c /\ e.alone = (Store!Running(c) = {}) /\ e.pc = "row"
  BY <1>1 DEF DeleteTask
<1>4. c \in 1 .. Len(task) + 1
  <2>1. ~(c > Len(task))
    BY <1>2, <1>i DEF Numbered
  <2> QED
    BY <1>0, <2>1 DEF Store!Ids
<1>5. \E basic \in SUBSET Store!Ids : KindIs(basic)
  BY DEF ConnInv
<1>6. Started(c, e)
  BY <1>0, <1>2, <1>3, <1>4, <1>5 DEF Started, Task, Saving
<1> QED
  BY <1>6, StartedKeeps

(* A step of the form alone, or none.                                      *)
LEMMA FormKeeps ==
  ASSUME ConnInv, UNCHANGED <<row, secret, dir, task, torn>>,
         \/ Store!NewOpened \/ Store!Cancelled \/ UNCHANGED form
         \/ \E c \in Store!Ids : Store!EditOpened(c)
  PROVE  ConnInv'
<1>i. ConnTypeOK /\ Numbered
  BY DEF ConnInv
<1>1. /\ row \in [Store!Ids -> Store!Row \cup {None}] /\ task \in Seq(Task) /\ Len(task) \in Nat
      /\ form \in Form
  BY <1>i DEF ConnTypeOK
<1>2. PICK basic \in SUBSET Store!Ids : KindIs(basic)
  BY DEF ConnInv
<1>3. /\ form' \in Form
      /\ form'.page = "edit" => /\ form'.alias = None <=> form'.conn \in basic
                                /\ form'.conn \in 1 .. Len(task)
  <2>0. 0 \in 0 .. MaxTasks
    BY StoreAssumption
  <2>1. CASE Store!NewOpened \/ Store!Cancelled
    <3>1. \/ form' = [page |-> "new", conn |-> 0, env |-> None, alias |-> None,
                      airgap |-> FALSE, saving |-> 0]
          \/ form' = [page |-> "list", conn |-> 0, env |-> None, alias |-> None,
                      airgap |-> FALSE, saving |-> 0]
      BY <2>1 DEF Store!NewOpened, Store!Cancelled, Store!List
    <3>2. form'.page # "edit"
      BY <3>1
    <3>3. form' \in Form
      <4>1. CASE form' = [page |-> "new", conn |-> 0, env |-> None, alias |-> None,
                          airgap |-> FALSE, saving |-> 0]
        BY <2>0, <4>1 DEF Form
      <4>2. CASE form' = [page |-> "list", conn |-> 0, env |-> None, alias |-> None,
                          airgap |-> FALSE, saving |-> 0]
        BY <2>0, <4>2 DEF Form
      <4> QED
        BY <3>1, <4>1, <4>2
    <3> QED
      BY <3>2, <3>3
  <2>2. CASE UNCHANGED form
    BY <1>1, <1>2, <1>i, <2>2 DEF KindIs, Numbered
  <2>3. ASSUME NEW c \in Store!Ids, Store!EditOpened(c)
        PROVE  /\ form' \in Form
               /\ form'.page = "edit" => /\ form'.alias = None <=> form'.conn \in basic
                                         /\ form'.conn \in 1 .. Len(task)
    <3>1. /\ row[c] # None
          /\ form' = [page |-> "edit", conn |-> c, env |-> row[c].env,
                      alias |-> row[c].alias, airgap |-> FALSE, saving |-> 0]
      BY <2>3 DEF Store!EditOpened
    <3>2. row[c].env \in Store!Envs /\ row[c].alias \in Wallets \cup {None}
      BY <1>1, <3>1 DEF Store!Row
    <3>3. c \in 0 .. MaxTasks
      BY StoreAssumption DEF Store!Ids
    <3>4. c \in 1 .. Len(task)
      <4>1. ~(c > Len(task))
        BY <1>i, <3>1 DEF Numbered
      <4> QED
        BY <1>1, <4>1 DEF Store!Ids
    <3>5. row[c].alias = None <=> c \in basic
      BY <1>2, <3>1 DEF KindIs
    <3> QED
      BY <2>0, <3>1, <3>2, <3>3, <3>4, <3>5 DEF Form
  <2> QED
    BY <2>1, <2>2, <2>3 DEF Store!NewOpened, Store!Cancelled, Store!EditOpened
<1>4. ConnTypeOK' /\ Numbered'
  BY <1>3, <1>i DEF ConnTypeOK, Numbered
<1>5. TasksOK' /\ NoneAlone' /\ \A d \in Store!Ids : Store!Running(d)' = {} => Sound(d)'
  BY DEF ConnInv, TasksOK, TaskOK, NoneAlone, Store!Running, Sound, Store!KeysAreWhole,
         Store!WalletIsWhole, Found, WalletThere
<1>6. KindIs(basic)'
  BY <1>2, <1>3 DEF KindIs
<1> QED
  BY <1>4, <1>5, <1>6 DEF ConnInv

(* Every step of the saved connections keeps the invariant.                *)
LEMMA ConnKeeps ==
  ASSUME ConnInv, [Store!ConnNext]_Store!connVars
  PROVE  ConnInv'
<1>1. CASE Store!NewOpened \/ Store!Cancelled \/ (\E c \in Store!Ids : Store!EditOpened(c))
        \/ UNCHANGED Store!connVars
  <2>1. UNCHANGED <<row, secret, dir, task, torn>>
    BY <1>1 DEF Store!NewOpened, Store!Cancelled, Store!EditOpened, Store!connVars
  <2> QED
    BY <1>1, <2>1, FormKeeps DEF Store!connVars
<1>2. CASE Store!Killed
  BY <1>2, KilledKeeps
<1>3. ASSUME NEW c \in Store!Ids, Store!DeleteConfirmed(c)
      PROVE  ConnInv'
  BY <1>3, DeleteConfirmedKeeps
<1>4. ASSUME NEW name \in Names, NEW env \in Store!Envs, NEW alias \in Wallets \cup {None},
             NEW zip \in BOOLEAN, NEW toggled \in BOOLEAN,
             Store!Submitted(name, env, alias, zip, toggled)
      PROVE  ConnInv'
  BY <1>4, SubmittedKeeps
<1>5. ASSUME NEW t \in DOMAIN task,
             \/ Store!Assembled(t) \/ Store!WalletChecked(t) \/ Store!WalletRefused(t)
                  \/ Store!WalletEmptied(t) \/ Store!NamesExtracted(t)
             \/ Store!Persisted(t) \/ Store!RowDeleted(t)
      PROVE  ConnInv'
  BY <1>5, AssembledKeeps, WalletCheckedKeeps, WalletRefusedKeeps, WalletEmptiedKeeps,
     NamesExtractedKeeps, PersistedKeeps, RowDeletedKeeps
<1>6. ASSUME NEW t \in DOMAIN task, NEW ok \in BOOLEAN, Store!WalletExtracted(t, ok)
      PROVE  ConnInv'
  BY <1>6, WalletExtractedKeeps
<1>7. ASSUME NEW t \in DOMAIN task, NEW ok \in BOOLEAN, NEW which \in {"user", "wallet"},
             Store!PasswordSet(t, which, ok)
      PROVE  ConnInv'
  BY <1>7, PasswordSetKeeps
<1>8. ASSUME NEW t \in DOMAIN task, NEW user \in BOOLEAN, NEW wallet \in BOOLEAN,
             NEW dirs \in BOOLEAN, Store!SecretsDeleted(t, user, wallet, dirs)
      PROVE  ConnInv'
  BY <1>8, SecretsDeletedKeeps
<1> QED
  BY <1>1, <1>2, <1>3, <1>4, <1>5, <1>6, <1>7, <1>8 DEF Store!ConnNext

(* The first state.                                                        *)
LEMMA ConnStarts == Store!ConnInit => ConnInv
<1> SUFFICES ASSUME Store!ConnInit PROVE ConnInv
  OBVIOUS
<1>1. /\ row = [c \in Store!Ids |-> None] /\ secret = [c \in Store!Ids |-> [user |-> 0,
           wallet |-> 0]]
      /\ dir = [c \in Store!Ids |-> None] /\ task = <<>> /\ form = Store!List
      /\ torn = [p \in Store!Parts |-> {}]
  BY DEF Store!ConnInit
<1>2. 0 \in 0 .. MaxTasks /\ task \in Seq(Task) /\ Len(task) = 0 /\ DOMAIN task = {}
  BY <1>1, StoreAssumption
<1>3. ConnTypeOK
  BY <1>1, <1>2, StoreAssumption DEF ConnTypeOK, Form, Store!List
<1>4. Numbered /\ TasksOK /\ NoneAlone
  BY <1>1, <1>2 DEF Numbered, TasksOK, NoneAlone, Store!List
<1>5. \A c \in Store!Ids : Store!Running(c) = {} => Sound(c)
  BY <1>1 DEF Sound, Store!KeysAreWhole, Store!WalletIsWhole
<1>6. KindIs({})
  BY <1>1, <1>2 DEF KindIs, Store!List
<1> QED
  BY <1>3, <1>4, <1>5, <1>6 DEF ConnInv

(* The invariant is what was to be shown of the connections.               *)
LEMMA ConnWhole == ConnInv => Store!ConnectionsAreWhole
  BY DEF ConnInv, Store!ConnectionsAreWhole, Sound

(* The only step that writes a row over another is that of a save.         *)
LEMMA ConnProd ==
  ASSUME ConnInv, [Store!ConnNext]_Store!connVars, NEW c \in Store!Ids, row[c] # None,
           row'[c] # None,
         row[c].env = "prod", row'[c].env # "prod"
  PROVE  ~task[row'[c].by].alone
<1>0. row \in [Store!Ids -> Store!Row \cup {None}]
  BY DEF ConnInv, ConnTypeOK
<1>1. row' # row
  OBVIOUS
<1>2. \A t \in DOMAIN task : ~Store!RowDeleted(t)
  BY <1>0 DEF Store!RowDeleted
<1>3. PICK t \in DOMAIN task : Store!Persisted(t)
  <2>1. Store!NewOpened \/ Store!Cancelled \/ Store!Killed => row' = row
    BY DEF Store!NewOpened, Store!Cancelled, Store!Killed
  <2>2. \A b \in Store!Ids : Store!EditOpened(b) \/ Store!DeleteConfirmed(b) => row' = row
    BY DEF Store!EditOpened, Store!DeleteConfirmed
  <2>3. \A name, env, alias, zip, toggled : Store!Submitted(name, env, alias, zip, toggled)
          => row' = row
    BY DEF Store!Submitted
  <2>4. \A t : Store!Assembled(t) \/ Store!WalletChecked(t) \/ Store!WalletRefused(t)
          \/ Store!WalletEmptied(t) \/ Store!NamesExtracted(t) => row' = row
    BY DEF Store!Assembled, Store!WalletChecked, Store!WalletRefused, Store!WalletEmptied,
           Store!NamesExtracted
  <2>5. \A t, ok, which : Store!WalletExtracted(t, ok) \/ Store!PasswordSet(t, which, ok)
          => row' = row
    BY DEF Store!WalletExtracted, Store!PasswordSet
  <2>6. \A t, user, wallet, dirs : Store!SecretsDeleted(t, user, wallet, dirs) => row' = row
    BY DEF Store!SecretsDeleted
  <2> QED
    BY <1>1, <1>2, <2>1, <2>2, <2>3, <2>4, <2>5, <2>6 DEF Store!ConnNext, Store!connVars
<1>4. PICK s : s = task[t]
  OBVIOUS
<1>5. s.pc = "persist"
  BY <1>3, <1>4 DEF Store!Persisted, Store!At
<1>6. s \in SaveTask /\ TaskOK(t, s) /\ s.conn \in Store!Ids
  BY <1>4, <1>5, TaskHas DEF Saving
<1>7. row' = [row EXCEPT ![s.conn] = [name |-> s.name, env |-> s.env,
                            alias |-> s.alias, airgap |-> s.airgap, by |-> t]]
  BY <1>1, <1>3, <1>4 DEF Store!Persisted
<1>8. c = s.conn /\ row'[c].by = t /\ row'[c].env = s.env
  BY <1>0, <1>6, <1>7
<1>9. ~s.alone
  <2> SUFFICES ASSUME s.alone PROVE FALSE
    BY <1>6 DEF SaveTask
  <2>1. ~s.new
    BY <1>5, <1>6, <1>8 DEF TaskOK, Early
  <2>2. Store!EnvMayBecome(row[c].env, s.env)
    BY <1>5, <1>6, <1>8, <2>1 DEF TaskOK, Found
  <2> QED
    BY <1>8, <2>2 DEF Store!EnvMayBecome
<1> QED
  BY <1>4, <1>8, <1>9

-----------------------------------------------------------------------------
(***************************************************************************)
(* The file of the local store and its keys.                               *)
(***************************************************************************)

(* The types of the file, of the keychain and of what was seen of them.    *)
FileTypeOK ==
  /\ db \in StoreFile!File \cup {None}
  /\ copies \in [migrated : StoreFile!File \cup {None}, legacy : StoreFile!File \cup {None}]
  /\ entry \in [db : 0 .. MaxKeys, hist : 0 .. MaxKeys]
  /\ start \in [pc : {"down", "key", "probe", "export", "aside", "place", "open", "migrate",
                      "histKey", "envelopes", "up"},
                db : 0 .. MaxKeys, hist : 0 .. MaxKeys]
  /\ past \in [rows : Nat, made : 0 .. MaxKeys, rekeyed : SUBSET {"db", "hist"},
               cut : BOOLEAN, typed : Nat]

(* The process has the keys of the keychain.                               *)
HasKeys ==
  /\ start.pc \notin {"down", "key"} => start.db = entry.db /\ start.db # 0
  /\ start.pc \notin {"envelopes", "up"} => start.hist = 0
  /\ start.hist \in {0, entry.hist}

(* The keychain opens f; f has what there should be.                       *)
OpensWith(f) ==
  /\ "db" \notin past.rekeyed => f.enc \in {0, entry.db}
  /\ "hist" \notin past.rekeyed => \A i \in DOMAIN f.typed : f.typed[i] \in {0, entry.hist}

HasAll(f) ==
  /\ f.rows = past.rows
  /\ "hist" \notin past.rekeyed => Len(f.typed) = past.typed

(* Between the two renames the legacy copy is the store.                   *)
Between ==
  LET f == copies.legacy
  IN /\ db = None /\ ~past.cut /\ f # None /\ f.enc = 0 /\ OpensWith(f) /\ HasAll(f)
     /\ copies.migrated = [f EXCEPT !.enc = start.db]

FileInv ==
  /\ FileTypeOK /\ HasKeys
  /\ db # None => OpensWith(db)
  /\ past.cut => db = None \/ db.enc # 0
  /\ ~past.cut /\ start.pc # "place" =>
       IF db = None THEN past.rows = 0 /\ past.typed = 0 ELSE HasAll(db)
  /\ start.pc \in {"export", "aside"} => db # None /\ db.enc = 0
  /\ start.pc = "aside" => copies.migrated = [db EXCEPT !.enc = start.db]
  /\ start.pc = "place" => Between
  /\ start.pc \in {"migrate", "histKey", "envelopes", "up"} => db # None
  /\ start.pc \in {"histKey", "envelopes", "up"} => db.shape = "current"

(* A file without one of its commands is a file.                           *)
LEMMA RemovedIsFile ==
  ASSUME NEW S, NEW s \in Seq(S), NEW i \in DOMAIN s
  PROVE  StoreFile!RemoveAt(s, i) \in Seq(S)
<1>1. i \in 1 .. Len(s) /\ Len(s) \in Nat
  OBVIOUS
<1>2. SubSeq(s, 1, i - 1) \in Seq(S)
  BY <1>1, SubSeqProperties
<1>3. SubSeq(s, i + 1, Len(s)) \in Seq(S)
  BY <1>1, SubSeqProperties
<1> QED
  BY <1>2, <1>3 DEF StoreFile!RemoveAt

(* The first state.                                                        *)
LEMMA FileStarts == StoreFile!FileInit => FileInv
<1> SUFFICES ASSUME StoreFile!FileInit PROVE FileInv
  OBVIOUS
<1>0. 0 \in 0 .. MaxKeys /\ 0 \in Nat /\ 1 \in Nat
  BY StoreAssumption
<1>1. /\ copies = [migrated |-> None, legacy |-> None] /\ entry = [db |-> 0, hist |-> 0]
      /\ start = [pc |-> "down", db |-> 0, hist |-> 0]
  BY DEF StoreFile!FileInit, StoreFile!Off
<1>2. CASE db = None
  <2>1. past = [rows |-> 0, made |-> 0, rekeyed |-> {}, cut |-> FALSE, typed |-> 0]
    BY <1>2 DEF StoreFile!FileInit
  <2>2. FileTypeOK
    BY <1>0, <1>1, <1>2, <2>1 DEF FileTypeOK
  <2> QED
    BY <1>1, <1>2, <2>1, <2>2 DEF FileInv, HasKeys
<1>3. CASE db # None
  <2>1. db \in [enc : {0}, shape : StoreFile!Shapes \ {"empty", "current"}, rows : {1},
          typed : {<<>>}]
             \cup [enc : {0}, shape : {"current"}, rows : {1}, typed : {<<0, 0>>}]
    BY <1>3 DEF StoreFile!FileInit
  <2>2. /\ db.enc = 0 /\ db.rows = 1 /\ db.shape \in StoreFile!Shapes
        /\ db.typed = <<>> \/ db.typed = <<0, 0>>
        /\ db = [enc |-> 0, shape |-> db.shape, rows |-> 1, typed |-> db.typed]
    BY <2>1 DEF StoreFile!Shapes
  <2>3. past = [rows |-> 1, made |-> 0, rekeyed |-> {}, cut |-> FALSE, typed |-> Len(db.typed)]
    BY <1>3 DEF StoreFile!FileInit
  <2>4. /\ db.typed \in Seq(0 .. MaxKeys) /\ Len(db.typed) \in Nat
        /\ \A i \in DOMAIN db.typed : db.typed[i] = 0
    <3>1. <<>> \in Seq(0 .. MaxKeys) /\ Len(<<>>) = 0
      OBVIOUS
    <3>2. <<0, 0>> \in Seq(0 .. MaxKeys) /\ Len(<<0, 0>>) = 2
      BY <1>0
    <3>3. \A i \in DOMAIN <<0, 0>> : <<0, 0>>[i] = 0
      OBVIOUS
    <3>4. CASE db.typed = <<>>
      BY <3>1, <3>4
    <3>5. CASE db.typed = <<0, 0>>
      <4>1. Len(db.typed) \in Nat /\ db.typed \in Seq(0 .. MaxKeys)
        BY <3>2, <3>5
      <4>2. \A i \in DOMAIN db.typed : db.typed[i] = 0
        BY <3>3, <3>5
      <4> QED
        BY <4>1, <4>2
    <3> QED
      BY <2>2, <3>4, <3>5
  <2>5. db \in StoreFile!File
    BY <1>0, <2>2, <2>4 DEF StoreFile!File
  <2>6. FileTypeOK
    BY <1>0, <1>1, <2>3, <2>4, <2>5 DEF FileTypeOK
  <2> QED
    BY <1>1, <1>3, <2>2, <2>3, <2>4, <2>6 DEF FileInv, HasKeys, OpensWith, HasAll
<1> QED
  BY <1>2, <1>3

(* What the types are worth, component by component.                       *)
LEMMA FileTyped ==
  ASSUME FileTypeOK
  PROVE  /\ start = [pc |-> start.pc, db |-> start.db, hist |-> start.hist]
         /\ start.db \in 0 .. MaxKeys /\ start.hist \in 0 .. MaxKeys
         /\ entry.db \in 0 .. MaxKeys /\ entry.hist \in 0 .. MaxKeys
         /\ 0 \in 0 .. MaxKeys
         /\ db # None => /\ db \in StoreFile!File /\ db.enc \in 0 .. MaxKeys
              /\ db.shape \in StoreFile!Shapes
                         /\ db.rows \in Nat /\ db.typed \in Seq(0 .. MaxKeys)
                         /\ Len(db.typed) \in Nat
BY StoreAssumption DEF FileTypeOK, StoreFile!File

(* A step of the process that leaves what is kept alone, or ends it.       *)
LEMMA FileGoes ==
  ASSUME FileInv, UNCHANGED <<db, copies, entry, past>>,
         \/ start' = StoreFile!Off
         \/ \E pc \in {"key", "probe", "export", "open", "histKey", "envelopes", "migrate"} :
              /\ start' = [start EXCEPT !.pc = pc]
              /\ start.hist = 0
              /\ pc # "key" => start.pc \notin {"down", "key"}
              /\ pc = "export" => db # None /\ db.enc = 0
              /\ pc \in {"migrate", "histKey", "envelopes"} => db # None
              /\ pc \in {"histKey", "envelopes"} => db.shape = "current",
         start.pc # "place"
  PROVE  FileInv'
<1>1. FileTypeOK /\ HasKeys
  BY DEF FileInv
<1>2. /\ start'.pc \in {"down", "key", "probe", "export", "open", "histKey", "envelopes",
                        "migrate"}
      /\ start'.hist = 0 /\ FileTypeOK'
  BY <1>1, FileTyped DEF FileTypeOK, StoreFile!Off
<1>3. start'.pc # "down" => start'.db = start.db
  BY <1>1, FileTyped DEF StoreFile!Off
<1>4. HasKeys'
  BY <1>1, <1>2, <1>3, FileTyped DEF HasKeys, StoreFile!Off
<1> QED
  BY <1>1, <1>2, <1>4, FileTyped DEF FileInv, StoreFile!Off, OpensWith, HasAll

(* The step KeyRead keeps the invariant.                                   *)
LEMMA KeyReadKeeps ==
  ASSUME FileInv, NEW e \in {"db", "hist"}, StoreFile!KeyRead(e)
  PROVE  FileInv'
<1>1. FileTypeOK /\ HasKeys
  BY DEF FileInv
<1>2. UNCHANGED <<db, copies, entry, past>> /\ entry[e] # 0
  BY DEF StoreFile!KeyRead
<1>3. CASE e = "db"
  <2>1. start.pc = "key" /\ start' = [start EXCEPT !.pc = "probe", !.db = entry.db]
    BY <1>3 DEF StoreFile!KeyRead, StoreFile!KeyOf, StoreFile!AfterKey
  <2>2. start' = [pc |-> "probe", db |-> entry.db, hist |-> start.hist]
    BY <1>1, <2>1, FileTyped
  <2>3. FileTypeOK' /\ HasKeys'
    BY <1>1, <1>2, <1>3, <2>1, <2>2, FileTyped DEF FileTypeOK, HasKeys
  <2> QED
    BY <1>2, <2>1, <2>2, <2>3 DEF FileInv, OpensWith, HasAll
<1>4. CASE e = "hist"
  <2>1. start.pc = "histKey" /\ start' = [start EXCEPT !.pc = "envelopes", !.hist = entry.hist]
    BY <1>4 DEF StoreFile!KeyRead, StoreFile!KeyOf, StoreFile!AfterKey
  <2>2. start' = [pc |-> "envelopes", db |-> start.db, hist |-> entry.hist]
    BY <1>1, <2>1, FileTyped
  <2>3. FileTypeOK' /\ HasKeys'
    BY <1>1, <1>2, <1>4, <2>1, <2>2, FileTyped DEF FileTypeOK, HasKeys
  <2> QED
    BY <1>2, <2>1, <2>2, <2>3 DEF FileInv, OpensWith, HasAll
<1> QED
  BY <1>3, <1>4

(* The step KeyMade keeps the invariant.                                   *)
LEMMA KeyMadeKeeps ==
  ASSUME FileInv, NEW e \in {"db", "hist"}, StoreFile!KeyMade(e)
  PROVE  FileInv'
<1>1. FileTypeOK /\ HasKeys
  BY DEF FileInv
<1>2. past \in [rows : Nat, made : 0 .. MaxKeys, rekeyed : SUBSET {"db", "hist"},
                cut : BOOLEAN, typed : Nat]
  BY <1>1 DEF FileTypeOK
<1>3. PICK fresh : fresh = past.made + 1
  OBVIOUS
<1>4. fresh \in 0 .. MaxKeys /\ fresh # 0
  BY <1>2, <1>3, StoreAssumption DEF StoreFile!KeyMade
<1>5. /\ UNCHANGED <<db, copies>> /\ entry' = [entry EXCEPT ![e] = fresh]
      /\ past' = [past EXCEPT !.made = fresh,
                              !.rekeyed = IF entry[e] = 0 THEN past.rekeyed
                                          ELSE past.rekeyed \cup {e}]
  BY <1>3 DEF StoreFile!KeyMade, StoreFile!EntryWith
<1>6. /\ past'.rows = past.rows /\ past'.typed = past.typed /\ past'.cut = past.cut
      /\ past.rekeyed \subseteq past'.rekeyed /\ (e \notin past'.rekeyed => entry[e] = 0)
      /\ past' \in [rows : Nat, made : 0 .. MaxKeys, rekeyed : SUBSET {"db", "hist"},
                    cut : BOOLEAN, typed : Nat]
  BY <1>2, <1>4, <1>5
<1>7. CASE e = "db"
  <2>1. start.pc = "key" /\ start' = [start EXCEPT !.pc = "probe", !.db = fresh]
    BY <1>3, <1>7 DEF StoreFile!KeyMade, StoreFile!KeyOf, StoreFile!AfterKey
  <2>2. start' = [pc |-> "probe", db |-> fresh, hist |-> start.hist]
    BY <1>1, <2>1, FileTyped
  <2>3. /\ entry' \in [db : 0 .. MaxKeys, hist : 0 .. MaxKeys]
        /\ entry'.db = fresh /\ entry'.hist = entry.hist
    BY <1>1, <1>4, <1>5, <1>7 DEF FileTypeOK
  <2>4. FileTypeOK' /\ HasKeys'
    BY <1>1, <1>4, <1>5, <1>6, <2>1, <2>2, <2>3, FileTyped DEF FileTypeOK, HasKeys
  <2>5. db # None => OpensWith(db)'
    BY <1>5, <1>6, <1>7, <2>3 DEF FileInv, OpensWith
  <2> QED
    BY <1>5, <1>6, <2>1, <2>2, <2>4, <2>5 DEF FileInv, HasAll
<1>8. CASE e = "hist"
  <2>1. start.pc = "histKey" /\ start' = [start EXCEPT !.pc = "envelopes", !.hist = fresh]
    BY <1>3, <1>8 DEF StoreFile!KeyMade, StoreFile!KeyOf, StoreFile!AfterKey
  <2>2. start' = [pc |-> "envelopes", db |-> start.db, hist |-> fresh]
    BY <1>1, <2>1, FileTyped
  <2>3. /\ entry' \in [db : 0 .. MaxKeys, hist : 0 .. MaxKeys]
        /\ entry'.hist = fresh /\ entry'.db = entry.db
    BY <1>1, <1>4, <1>5, <1>8 DEF FileTypeOK
  <2>4. FileTypeOK' /\ HasKeys'
    BY <1>1, <1>4, <1>5, <1>6, <2>1, <2>2, <2>3, FileTyped DEF FileTypeOK, HasKeys
  <2>5. db # None => OpensWith(db)'
    BY <1>5, <1>6, <1>8, <2>3 DEF FileInv, OpensWith
  <2> QED
    BY <1>5, <1>6, <2>1, <2>2, <2>4, <2>5 DEF FileInv, HasAll
<1> QED
  BY <1>7, <1>8

(* The step Exported keeps the invariant.                                  *)
LEMMA ExportedKeeps ==
  ASSUME FileInv, NEW ok \in BOOLEAN, StoreFile!Exported(ok)
  PROVE  FileInv'
<1>1. FileTypeOK /\ HasKeys /\ start.pc = "export" /\ db # None /\ db.enc = 0
  BY DEF FileInv, StoreFile!Exported
<1>2. PICK m : m = IF ok THEN [db EXCEPT !.enc = start.db] ELSE None
  OBVIOUS
<1>3. m \in StoreFile!File \cup {None}
  BY <1>1, <1>2, FileTyped DEF StoreFile!File
<1>4. copies' = [copies EXCEPT !.migrated = m] /\ UNCHANGED <<db, entry, past>>
  BY <1>2 DEF StoreFile!Exported
<1>5. /\ copies' \in [migrated : StoreFile!File \cup {None}, legacy : StoreFile!File \cup {None}]
      /\ copies'.migrated = m
  BY <1>1, <1>3, <1>4 DEF FileTypeOK
<1>6. \/ ok /\ start' = [pc |-> "aside", db |-> start.db, hist |-> start.hist]
      \/ ~ok /\ start' = [pc |-> "down", db |-> 0, hist |-> 0]
  BY <1>1, FileTyped DEF StoreFile!Exported, StoreFile!Goes, StoreFile!Fails, StoreFile!Off
<1>7. FileTypeOK' /\ HasKeys'
  BY <1>1, <1>4, <1>5, <1>6, FileTyped DEF FileTypeOK, HasKeys
<1> QED
  BY <1>1, <1>2, <1>4, <1>5, <1>6, <1>7 DEF FileInv, OpensWith, HasAll

(* The step MovedAside keeps the invariant.                                *)
LEMMA MovedAsideKeeps ==
  ASSUME FileInv, NEW ok \in BOOLEAN, StoreFile!MovedAside(ok)
  PROVE  FileInv'
<1>1. /\ FileTypeOK /\ HasKeys /\ start.pc = "aside" /\ db # None /\ db.enc = 0 /\ ~past.cut
      /\ copies.migrated = [db EXCEPT !.enc = start.db] /\ OpensWith(db) /\ HasAll(db)
  BY DEF FileInv, StoreFile!MovedAside, FileTypeOK
<1>2. copies \in [migrated : StoreFile!File \cup {None}, legacy : StoreFile!File \cup {None}]
        /\ db \in StoreFile!File \cup {None}
  BY <1>1 DEF FileTypeOK
<1>3. UNCHANGED <<entry, past>>
  BY DEF StoreFile!MovedAside
<1>4. CASE ok
  <2>1. copies' = [copies EXCEPT !.legacy = db] /\ db' = None
    BY <1>4 DEF StoreFile!MovedAside
  <2>2. /\ copies' \in [migrated : StoreFile!File \cup {None}, legacy : StoreFile!File \cup {None}]
        /\ copies'.legacy = db /\ copies'.migrated = copies.migrated
    BY <1>2, <2>1
  <2>3. start' = [pc |-> "place", db |-> start.db, hist |-> start.hist]
    BY <1>1, <1>4, FileTyped DEF StoreFile!MovedAside, StoreFile!Goes
  <2>4. FileTypeOK' /\ HasKeys'
    BY <1>1, <1>3, <2>1, <2>2, <2>3, FileTyped DEF FileTypeOK, HasKeys
  <2>5. Between'
    BY <1>1, <1>3, <2>1, <2>2, <2>3 DEF Between, OpensWith, HasAll
  <2> QED
    BY <1>1, <1>3, <2>1, <2>3, <2>4, <2>5 DEF FileInv
<1>5. CASE ~ok
  <2>1. copies' = [copies EXCEPT !.migrated = None] /\ db' = db
    BY <1>5 DEF StoreFile!MovedAside
  <2>2. copies' \in [migrated : StoreFile!File \cup {None}, legacy : StoreFile!File \cup {None}]
    BY <1>2, <2>1
  <2>3. start' = [pc |-> "down", db |-> 0, hist |-> 0]
    BY <1>5 DEF StoreFile!MovedAside, StoreFile!Fails, StoreFile!Off
  <2>4. FileTypeOK' /\ HasKeys'
    BY <1>1, <1>3, <2>1, <2>2, <2>3, FileTyped DEF FileTypeOK, HasKeys
  <2> QED
    BY <1>1, <1>3, <2>1, <2>3, <2>4 DEF FileInv, OpensWith, HasAll
<1> QED
  BY <1>4, <1>5

(* The step MovedIntoPlace keeps the invariant.                            *)
LEMMA MovedIntoPlaceKeeps ==
  ASSUME FileInv, NEW ok \in BOOLEAN, NEW restored \in BOOLEAN, StoreFile!MovedIntoPlace(ok,
           restored)
  PROVE  FileInv'
<1>1. FileTypeOK /\ HasKeys /\ start.pc = "place" /\ Between
  BY DEF FileInv, StoreFile!MovedIntoPlace
<1>2. /\ copies \in [migrated : StoreFile!File \cup {None}, legacy : StoreFile!File \cup {None}]
      /\ past \in [rows : Nat, made : 0 .. MaxKeys, rekeyed : SUBSET {"db", "hist"},
                   cut : BOOLEAN, typed : Nat]
  BY <1>1 DEF FileTypeOK
<1>3. PICK f : f = copies.legacy
  OBVIOUS
<1>4. /\ db = None /\ ~past.cut /\ f \in StoreFile!File /\ f # None /\ f.enc = 0
           /\ OpensWith(f) /\ HasAll(f)
      /\ copies.migrated = [f EXCEPT !.enc = start.db]
  BY <1>1, <1>2, <1>3 DEF Between
<1>5. UNCHANGED entry
  BY DEF StoreFile!MovedIntoPlace
<1>6. CASE ok
  <2>1. PICK g : g = copies.migrated
    OBVIOUS
  <2>2. /\ g \in StoreFile!File /\ g # None /\ g.enc = start.db /\ g.rows = f.rows
             /\ g.typed = f.typed
    <3>1. g \in StoreFile!File
      BY <1>1, <1>4, <2>1, FileTyped DEF StoreFile!File
    <3>2. g.enc = start.db /\ g.rows = f.rows /\ g.typed = f.typed
      BY <1>4, <2>1 DEF StoreFile!File
    <3> QED
      BY <3>1, <3>2, StoreAssumption
  <2>3. db' = g /\ copies' = [copies EXCEPT !.migrated = None] /\ past' = past
    BY <1>6, <2>1 DEF StoreFile!MovedIntoPlace
  <2>4. copies' \in [migrated : StoreFile!File \cup {None}, legacy : StoreFile!File \cup {None}]
    BY <1>2, <2>3
  <2>5. start' = [pc |-> "open", db |-> start.db, hist |-> start.hist]
    BY <1>1, <1>6, FileTyped DEF StoreFile!MovedIntoPlace, StoreFile!Goes
  <2>6. FileTypeOK' /\ HasKeys'
    BY <1>1, <1>5, <2>2, <2>3, <2>4, <2>5, FileTyped DEF FileTypeOK, HasKeys
  <2>7. OpensWith(g)' /\ HasAll(g)'
    BY <1>1, <1>4, <1>5, <2>2, <2>3 DEF OpensWith, HasAll, HasKeys
  <2> QED
    BY <1>4, <2>2, <2>3, <2>5, <2>6, <2>7 DEF FileInv
<1>7. CASE ~ok /\ restored
  <2>1. db' = f /\ copies' = [copies EXCEPT !.legacy = None] /\ past' = [past EXCEPT !.cut = FALSE]
    BY <1>3, <1>7 DEF StoreFile!MovedIntoPlace, StoreFile!AfterFailedMove
  <2>2. past' = past /\ copies' \in [migrated : StoreFile!File \cup {None},
          legacy : StoreFile!File \cup {None}]
    BY <1>2, <1>4, <2>1
  <2>3. start' = [pc |-> "down", db |-> 0, hist |-> 0]
    BY <1>7 DEF StoreFile!MovedIntoPlace, StoreFile!Fails, StoreFile!Off
  <2>4. FileTypeOK' /\ HasKeys'
    BY <1>1, <1>4, <1>5, <2>1, <2>2, <2>3, FileTyped DEF FileTypeOK, HasKeys
  <2>5. OpensWith(f)' /\ HasAll(f)'
    BY <1>4, <1>5, <2>2 DEF OpensWith, HasAll
  <2> QED
    BY <1>4, <2>1, <2>2, <2>3, <2>4, <2>5 DEF FileInv
<1>8. CASE ~ok /\ ~restored
  <2>1. db' = db /\ copies' = copies /\ past' = [past EXCEPT !.cut = TRUE]
    BY <1>2, <1>8 DEF StoreFile!MovedIntoPlace, StoreFile!AfterFailedMove
  <2>2. /\ past' \in [rows : Nat, made : 0 .. MaxKeys, rekeyed : SUBSET {"db", "hist"},
                      cut : BOOLEAN, typed : Nat]
        /\ past'.cut
    BY <1>2, <2>1
  <2>3. start' = [pc |-> "down", db |-> 0, hist |-> 0]
    BY <1>8 DEF StoreFile!MovedIntoPlace, StoreFile!Fails, StoreFile!Off
  <2>4. FileTypeOK' /\ HasKeys'
    BY <1>1, <1>5, <2>1, <2>2, <2>3, FileTyped DEF FileTypeOK, HasKeys
  <2> QED
    BY <1>4, <2>1, <2>2, <2>3, <2>4 DEF FileInv
<1> QED
  BY <1>6, <1>7, <1>8

(* The file changes as f, and what there should be of it as p; the process *)
(* goes on, with the keys it has.                                          *)
LEMMA FileBecomes ==
  ASSUME FileInv, NEW f \in StoreFile!File, NEW pc \in {"open", "migrate", "envelopes", "up"},
         db' = f, start.pc = pc, UNCHANGED <<copies, entry>>,
         start' = start \/ (pc = "open" /\ start' = [start EXCEPT !.pc = "migrate"]),
         past' \in [rows : Nat, made : 0 .. MaxKeys, rekeyed : SUBSET {"db", "hist"},
                    cut : BOOLEAN, typed : Nat],
         past'.rekeyed = past.rekeyed, past'.cut = past.cut,
         pc \in {"envelopes", "up"} => f.shape = "current",
         past.cut => f.enc # 0,
         OpensWith(f)', ~past.cut => HasAll(f)'
  PROVE  FileInv'
<1>1. FileTypeOK /\ HasKeys /\ f # None
  BY StoreAssumption DEF FileInv
<1>2. /\ start' \in [pc : {"open", "migrate", "envelopes", "up"}, db : 0 .. MaxKeys,
                     hist : 0 .. MaxKeys]
      /\ start'.db = start.db /\ start'.hist = start.hist
      /\ start'.pc \in {"envelopes", "up"} <=> pc \in {"envelopes", "up"}
  BY <1>1, FileTyped
<1>3. FileTypeOK' /\ HasKeys'
  BY <1>1, <1>2, FileTyped DEF FileTypeOK, HasKeys
<1> QED
  BY <1>1, <1>2, <1>3 DEF FileInv

(* The step Opened keeps the invariant.                                    *)
LEMMA OpenedKeeps ==
  ASSUME FileInv, StoreFile!Opened
  PROVE  FileInv'
<1>1. FileTypeOK /\ HasKeys /\ start.pc = "open" /\ UNCHANGED <<copies, entry, past>>
  BY DEF FileInv, StoreFile!Opened
<1>2. CASE db # None /\ db.enc # start.db
  <2>1. start' = StoreFile!Off /\ UNCHANGED db
    BY <1>2 DEF StoreFile!Opened, StoreFile!Fails
  <2> QED
    BY <1>1, <2>1, FileGoes
<1>3. CASE db # None /\ db.enc = start.db
  <2>1. start' = [start EXCEPT !.pc = "migrate"] /\ UNCHANGED db
    BY <1>3 DEF StoreFile!Opened, StoreFile!Goes
  <2>2. start.hist = 0
    BY <1>1 DEF HasKeys
  <2> QED
    BY <1>1, <1>3, <2>1, <2>2, FileGoes
<1>4. CASE db = None
  <2>1. PICK f : f = [enc |-> start.db, shape |-> "empty", rows |-> 0, typed |-> <<>>]
    OBVIOUS
  <2>2. db' = f /\ start' = [start EXCEPT !.pc = "migrate"]
    BY <1>4, <2>1 DEF StoreFile!Opened, StoreFile!Goes
  <2>3. f \in StoreFile!File /\ f.enc = start.db /\ f.rows = 0 /\ f.typed = <<>>
    BY <1>1, <2>1, FileTyped DEF StoreFile!File, StoreFile!Shapes
  <2>4. f.enc # 0 /\ f.enc = entry.db
    BY <1>1, <2>3 DEF HasKeys
  <2>5. OpensWith(f)'
    BY <1>1, <2>3, <2>4 DEF OpensWith
  <2>6. ~past.cut => HasAll(f)'
    BY <1>1, <1>4, <2>3 DEF FileInv, HasAll
  <2>7. past \in [rows : Nat, made : 0 .. MaxKeys, rekeyed : SUBSET {"db", "hist"},
                  cut : BOOLEAN, typed : Nat]
    BY <1>1 DEF FileTypeOK
  <2> QED
    BY <1>1, <2>2, <2>3, <2>4, <2>5, <2>6, <2>7, FileBecomes
<1> QED
  BY <1>2, <1>3, <1>4

(* The step Migrated keeps the invariant.                                  *)
LEMMA MigratedKeeps ==
  ASSUME FileInv, NEW ok \in BOOLEAN, StoreFile!Migrated(ok)
  PROVE  FileInv'
<1>1. /\ FileTypeOK /\ HasKeys /\ start.pc = "migrate" /\ UNCHANGED <<copies, entry, past>>
      /\ db # None /\ OpensWith(db) /\ start.hist = 0
  BY DEF FileInv, StoreFile!Migrated, HasKeys
<1>2. CASE ~ok
  BY <1>1, <1>2, FileGoes DEF StoreFile!Migrated, StoreFile!Fails
<1>3. CASE ok /\ db.shape = "current"
  BY <1>1, <1>3, FileGoes DEF StoreFile!Migrated, StoreFile!Goes
<1>4. CASE ok /\ db.shape # "current"
  <2>1. PICK f : f = [db EXCEPT !.shape = "current"]
    OBVIOUS
  <2>2. f \in StoreFile!File /\ f.enc = db.enc /\ f.rows = db.rows /\ f.typed = db.typed
    BY <1>1, <2>1, FileTyped DEF StoreFile!File, StoreFile!Shapes
  <2>3. db' = f /\ start' = start
    BY <1>4, <2>1 DEF StoreFile!Migrated
  <2>4. OpensWith(f)' /\ (~past.cut => HasAll(f)') /\ (past.cut => f.enc # 0)
    BY <1>1, <2>2 DEF FileInv, OpensWith, HasAll
  <2>5. past \in [rows : Nat, made : 0 .. MaxKeys, rekeyed : SUBSET {"db", "hist"},
                  cut : BOOLEAN, typed : Nat]
    BY <1>1 DEF FileTypeOK
  <2> QED
    BY <1>1, <2>2, <2>3, <2>4, <2>5, FileBecomes
<1> QED
  BY <1>2, <1>3, <1>4

(* The step Enveloped keeps the invariant.                                 *)
LEMMA EnvelopedKeeps ==
  ASSUME FileInv, StoreFile!Enveloped
  PROVE  FileInv'
<1>1. /\ FileTypeOK /\ HasKeys /\ start.pc = "envelopes" /\ UNCHANGED <<copies, entry>>
      /\ db # None /\ OpensWith(db) /\ db.shape = "current"
  BY DEF FileInv, StoreFile!Enveloped
<1>2. past \in [rows : Nat, made : 0 .. MaxKeys, rekeyed : SUBSET {"db", "hist"},
                cut : BOOLEAN, typed : Nat]
  BY <1>1 DEF FileTypeOK
<1>3. CASE StoreFile!Plain # {} /\ start.hist # 0
  <2>1. PICK i \in StoreFile!Plain : db' = [db EXCEPT !.typed[i] = start.hist]
    BY <1>3 DEF StoreFile!Enveloped
  <2>2. start' = start /\ past' = past /\ i \in DOMAIN db.typed
    BY <1>3, <2>1 DEF StoreFile!Enveloped, StoreFile!Plain
  <2>3. PICK f : f = [db EXCEPT !.typed[i] = start.hist]
    OBVIOUS
  <2>4. PICK q : q = [db.typed EXCEPT ![i] = start.hist]
    OBVIOUS
  <2>5. /\ q \in Seq(0 .. MaxKeys) /\ Len(q) = Len(db.typed) /\ DOMAIN q = DOMAIN db.typed
        /\ \A j \in DOMAIN q : q[j] = start.hist \/ q[j] = db.typed[j]
    BY <1>1, <2>2, <2>4, FileTyped
  <2>6. /\ f \in StoreFile!File /\ f.enc = db.enc /\ f.rows = db.rows /\ f.typed = q
        /\ f.shape = "current"
    BY <1>1, <2>3, <2>4, <2>5, FileTyped DEF StoreFile!File
  <2>7. OpensWith(f)'
    BY <1>1, <2>2, <2>5, <2>6 DEF OpensWith, HasKeys
  <2>8. (~past.cut => HasAll(f)') /\ (past.cut => f.enc # 0)
    BY <1>1, <2>2, <2>5, <2>6 DEF FileInv, HasAll
  <2> QED
    BY <1>1, <1>2, <2>1, <2>2, <2>3, <2>6, <2>7, <2>8, FileBecomes
<1>4. CASE ~(StoreFile!Plain # {} /\ start.hist # 0)
  <2>1. /\ UNCHANGED db /\ start' = [start EXCEPT !.pc = "up"]
        /\ past' = IF past.cut THEN [past EXCEPT !.rows = db.rows, !.typed = Len(db.typed),
                                                 !.cut = FALSE]
                   ELSE past
    BY <1>4 DEF StoreFile!Enveloped, StoreFile!Goes
  <2>2. /\ past' \in [rows : Nat, made : 0 .. MaxKeys, rekeyed : SUBSET {"db", "hist"},
                      cut : BOOLEAN, typed : Nat]
        /\ past'.rekeyed = past.rekeyed /\ past'.cut = FALSE
    BY <1>1, <1>2, <2>1, FileTyped
  <2>3. HasAll(db)'
    BY <1>1, <1>2, <2>1 DEF FileInv, HasAll
  <2>4. start' = [pc |-> "up", db |-> start.db, hist |-> start.hist]
    BY <1>1, <2>1, FileTyped
  <2>5. FileTypeOK' /\ HasKeys'
    BY <1>1, <2>1, <2>2, <2>4, FileTyped DEF FileTypeOK, HasKeys
  <2> QED
    BY <1>1, <2>1, <2>2, <2>3, <2>4, <2>5 DEF FileInv, OpensWith
<1> QED
  BY <1>3, <1>4

(* The step ConnectionSaved keeps the invariant.                           *)
LEMMA ConnectionSavedKeeps ==
  ASSUME FileInv, StoreFile!ConnectionSaved
  PROVE  FileInv'
<1>1. /\ FileTypeOK /\ HasKeys /\ start.pc = "up" /\ UNCHANGED <<copies, entry, start>>
      /\ db # None /\ OpensWith(db) /\ db.shape = "current"
      /\ db' = [db EXCEPT !.rows = @ + 1] /\ past' = [past EXCEPT !.rows = @ + 1]
  BY DEF FileInv, StoreFile!ConnectionSaved
<1>2. PICK f : f = [db EXCEPT !.rows = @ + 1]
  OBVIOUS
<1>3. /\ f \in StoreFile!File /\ f.enc = db.enc /\ f.rows = db.rows + 1 /\ f.typed = db.typed
      /\ f.shape = "current"
  BY <1>1, <1>2, FileTyped DEF StoreFile!File
<1>4. /\ past' \in [rows : Nat, made : 0 .. MaxKeys, rekeyed : SUBSET {"db", "hist"},
                    cut : BOOLEAN, typed : Nat]
      /\ past'.rekeyed = past.rekeyed /\ past'.cut = past.cut
      /\ past'.rows = past.rows + 1 /\ past'.typed = past.typed
  BY <1>1 DEF FileTypeOK
<1>5. OpensWith(f)' /\ (~past.cut => HasAll(f)') /\ (past.cut => f.enc # 0)
  BY <1>1, <1>3, <1>4 DEF FileInv, OpensWith, HasAll
<1> QED
  BY <1>1, <1>2, <1>3, <1>4, <1>5, FileBecomes

(* The step CommandAppended keeps the invariant.                           *)
LEMMA CommandAppendedKeeps ==
  ASSUME FileInv, StoreFile!CommandAppended
  PROVE  FileInv'
<1>1. /\ FileTypeOK /\ HasKeys /\ start.pc = "up" /\ UNCHANGED <<copies, entry, start>>
      /\ db # None /\ OpensWith(db) /\ db.shape = "current"
      /\ db' = [db EXCEPT !.typed = Append(@, start.hist)]
      /\ past' = [past EXCEPT !.typed = @ + 1]
  BY DEF FileInv, StoreFile!CommandAppended
<1>2. PICK f : f = [db EXCEPT !.typed = Append(@, start.hist)]
  OBVIOUS
<1>3. PICK q : q = Append(db.typed, start.hist)
  OBVIOUS
<1>4. /\ q \in Seq(0 .. MaxKeys) /\ Len(q) = Len(db.typed) + 1
      /\ \A j \in DOMAIN q : q[j] = start.hist \/ (j \in DOMAIN db.typed /\ q[j] = db.typed[j])
  BY <1>1, <1>3, FileTyped, AppendProperties
<1>5. /\ f \in StoreFile!File /\ f.enc = db.enc /\ f.rows = db.rows /\ f.typed = q
      /\ f.shape = "current"
  BY <1>1, <1>2, <1>3, <1>4, FileTyped DEF StoreFile!File
<1>6. /\ past' \in [rows : Nat, made : 0 .. MaxKeys, rekeyed : SUBSET {"db", "hist"},
                    cut : BOOLEAN, typed : Nat]
      /\ past'.rekeyed = past.rekeyed /\ past'.cut = past.cut
      /\ past'.rows = past.rows /\ past'.typed = past.typed + 1
  BY <1>1 DEF FileTypeOK
<1>7. OpensWith(f)'
  BY <1>1, <1>4, <1>5, <1>6 DEF OpensWith, HasKeys
<1>8. (~past.cut => HasAll(f)') /\ (past.cut => f.enc # 0)
  BY <1>1, <1>4, <1>5, <1>6 DEF FileInv, HasAll
<1> QED
  BY <1>1, <1>2, <1>5, <1>6, <1>7, <1>8, FileBecomes

(* While its key is the first one, every command opens.                    *)
LEMMA InaccessibleClearedKeeps ==
  ASSUME FileInv, StoreFile!InaccessibleCleared
  PROVE  FileInv'
<1>1. PICK i \in DOMAIN db.typed :
        ~StoreFile!Accessible(db.typed[i]) /\ db' = [db EXCEPT !.typed = StoreFile!RemoveAt(@, i)]
  BY DEF StoreFile!InaccessibleCleared
<1>2. /\ FileTypeOK /\ HasKeys /\ start.pc = "up" /\ UNCHANGED <<copies, entry, start, past>>
      /\ db # None /\ OpensWith(db) /\ db.shape = "current" /\ start.hist # 0
  BY DEF FileInv, StoreFile!InaccessibleCleared
<1>3. "hist" \in past.rekeyed
  BY <1>1, <1>2 DEF OpensWith, HasKeys, StoreFile!Accessible
<1>4. PICK f : f = [db EXCEPT !.typed = StoreFile!RemoveAt(@, i)]
  OBVIOUS
<1>5. StoreFile!RemoveAt(db.typed, i) \in Seq(0 .. MaxKeys)
  BY <1>2, FileTyped, RemovedIsFile
<1>6. f \in StoreFile!File /\ f.enc = db.enc /\ f.rows = db.rows /\ f.shape = "current"
  BY <1>2, <1>4, <1>5, FileTyped DEF StoreFile!File
<1>7. OpensWith(f)' /\ (~past.cut => HasAll(f)') /\ (past.cut => f.enc # 0)
  BY <1>2, <1>3, <1>6 DEF FileInv, OpensWith, HasAll
<1>8. past \in [rows : Nat, made : 0 .. MaxKeys, rekeyed : SUBSET {"db", "hist"},
                cut : BOOLEAN, typed : Nat]
  BY <1>2 DEF FileTypeOK
<1> QED
  BY <1>1, <1>2, <1>4, <1>6, <1>7, <1>8, FileBecomes

(* The step StartKilled keeps the invariant.                               *)
LEMMA StartKilledKeeps ==
  ASSUME FileInv, StoreFile!Killed
  PROVE  FileInv'
<1>1. FileTypeOK /\ HasKeys /\ UNCHANGED <<db, copies, entry>>
  BY DEF FileInv, StoreFile!Killed
<1>2. past \in [rows : Nat, made : 0 .. MaxKeys, rekeyed : SUBSET {"db", "hist"},
                cut : BOOLEAN, typed : Nat]
  BY <1>1 DEF FileTypeOK
<1>3. /\ past' \in [rows : Nat, made : 0 .. MaxKeys, rekeyed : SUBSET {"db", "hist"},
                    cut : BOOLEAN, typed : Nat]
      /\ past'.rekeyed = past.rekeyed /\ past'.rows = past.rows /\ past'.typed = past.typed
      /\ past'.cut <=> past.cut \/ start.pc = "place"
  BY <1>2 DEF StoreFile!Killed
<1>4. start' = [pc |-> "down", db |-> 0, hist |-> 0]
  BY DEF StoreFile!Killed, StoreFile!Fails, StoreFile!Off
<1>5. FileTypeOK' /\ HasKeys'
  BY <1>1, <1>3, <1>4, FileTyped DEF FileTypeOK, HasKeys
<1> QED
  BY <1>1, <1>3, <1>4, <1>5 DEF FileInv, OpensWith, HasAll, Between

(* Every step of the store's file keeps the invariant.                     *)
LEMMA FileKeeps ==
  ASSUME FileInv, [StoreFile!FileNext]_StoreFile!fileVars
  PROVE  FileInv'
<1>1. FileTypeOK /\ HasKeys
  BY DEF FileInv
<1>2. CASE StoreFile!StartAsked \/ StoreFile!Probed
  BY <1>1, <1>2, FileGoes DEF StoreFile!StartAsked, StoreFile!Probed, StoreFile!Goes, HasKeys
<1>3. ASSUME NEW e \in {"db", "hist"}, StoreFile!KeyRefused(e)
      PROVE  FileInv'
  <2>1. CASE e = "db"
    BY <1>1, <1>3, <2>1, FileGoes DEF StoreFile!KeyRefused, StoreFile!KeyOf, StoreFile!Fails
  <2>2. CASE e = "hist"
    <3>1. start.pc = "histKey" /\ db # None /\ db.shape = "current"
      BY <1>3, <2>2 DEF FileInv, StoreFile!KeyRefused, StoreFile!KeyOf
    <3>2. /\ start' = [start EXCEPT !.pc = "envelopes"] /\ UNCHANGED <<db, copies, entry, past>>
          /\ start.hist = 0
      BY <1>1, <1>3, <2>2, <3>1 DEF StoreFile!KeyRefused, StoreFile!Goes, HasKeys
    <3> QED
      BY <1>1, <3>1, <3>2, FileGoes
  <2> QED
    BY <2>1, <2>2
<1>4. CASE UNCHANGED StoreFile!fileVars
  BY <1>4 DEF StoreFile!fileVars, FileInv, FileTypeOK, HasKeys, OpensWith, HasAll, Between
<1> QED
  BY <1>2, <1>3, <1>4, KeyReadKeeps, KeyMadeKeeps, ExportedKeeps, MovedAsideKeeps,
     MovedIntoPlaceKeeps, OpenedKeeps, MigratedKeeps, EnvelopedKeeps, ConnectionSavedKeeps,
     CommandAppendedKeeps, InaccessibleClearedKeeps, StartKilledKeeps DEF StoreFile!FileNext

(* The invariant is what was to be shown of the file.                      *)
LEMMA FileWhole == FileInv => StoreFile!StoreIsKept /\ StoreFile!KeychainOpensStore
  BY DEF FileInv, StoreFile!StoreIsKept, StoreFile!KeychainOpensStore, OpensWith, HasAll

-----------------------------------------------------------------------------
(***************************************************************************)
(* The publishing of a sandbox.                                            *)
(***************************************************************************)

(* The publisher's machine is an owner's, and the member has one.          *)
LEMMA PublishKnown ==
  Publisher \in Devices /\ Members \subseteq Publish!Accounts /\ None \notin Nat
<1>1. Publisher \in Devices
  BY StoreAssumption DEF Publisher, Devices
<1>2. "member" \in Publish!Accounts
  <2>1. PICK d \in Shared : d \notin Owned
    BY StoreAssumption
  <2>2. d \in Devices /\ Account[d] = "member"
    BY <2>1 DEF Devices, Account
  <2> QED
    BY <2>2 DEF Publish!Accounts
<1> QED
  BY <1>1, <1>2, StoreAssumption DEF Members

(* The shapes of the variables.                                            *)
Key == Nat \cup {None}
IsSetup(s) ==
  s \in [n : {s.n}, device : Devices, at : {"read", "make", "put"}, key : Key]
IsRun(r) ==
  r \in [n : Nat, file : Key, visit : Nat, live : BOOLEAN,
         at : {"build", "create", "seal", "upload", "finalize", "unlink", "grant"},
         box : {r.box}, sealed : {r.sealed}, mode : {r.mode}]
IsFile(f) == f \in [n : Nat, key : {f.key}]
IsBox(x) ==
  x \in [status : {x.status}, blob : {x.blob}, visit : Nat, mode : {x.mode},
         envelopes : {x.envelopes}]
IsWizard(x) ==
  x \in [shown : BOOLEAN, mode : {x.mode}, phase : {x.phase}, build : Key, refused : {x.refused}]
IsMade(x) ==
  x \in [keys : Nat, setups : {x.setups}, runs : Nat, visits : Nat, done : SUBSET Devices,
         crossed : {x.crossed}, spoilt : {x.spoilt}]

PublishTypeOK ==
  /\ keychain \in [Devices -> Key] /\ registered \in [Publish!Accounts -> Key]
  /\ \A s \in setups : IsSetup(s)
  /\ \A r \in publishes : IsRun(r)
  /\ \A f \in files : IsFile(f)
  /\ \E S : boxes \in Seq(S)
  /\ \A b \in DOMAIN boxes : IsBox(boxes[b])
  /\ IsWizard(wizard) /\ IsMade(made)

(* An account whose keys were made one at a time has one key: one of its   *)
(* devices has it, what is registered of the account is that key, and so   *)
(* is what a setup is about to register.                                   *)
OneKey(u) ==
  /\ \A d, e \in Devices : Account[d] = u /\ Account[e] = u
                           /\ keychain[d] # None /\ keychain[e] # None => d = e
  /\ \A s \in setups : Account[s.device] = u /\ s.at = "put" =>
                         s.key # None /\ s.key = keychain[s.device]
  /\ registered[u] # None =>
       \E d \in Devices : Account[d] = u /\ keychain[d] = registered[u]
  /\ \A d \in made.done : Account[d] = u => keychain[d] # None /\ keychain[d] = registered[u]
KeysOK == \A u \in Publish!Accounts \ made.crossed : OneKey(u)

(* What is sealed, and uploaded, for a box is for the keys there are.      *)
Holds(u, k) == k # None /\ \E d \in Devices : Account[d] = u /\ keychain[d] = k
SealedTo(e, b, u) ==
  /\ u \in DOMAIN e
  /\ \E k \in Nat : Holds(u, k) /\ e[u] = Publish!Envelope(keychain[Publisher], k,
       Publish!AadOf(b, keychain[Publisher]))
SealedOK(e, b) ==
  /\ keychain[Publisher] # None
  /\ \A u \in (Members \cup {Publish!Owner}) \ made.crossed : SealedTo(e, b, u)
BoxesOK ==
  Publish!Owner \notin made.crossed =>
    /\ \A f \in files : f.key # None /\ f.key = keychain[Publisher]
    /\ \A r \in publishes :
         /\ r.at \in {"upload", "finalize"} => SealedOK(r.sealed, r.box)
         /\ r.at = "finalize" => boxes[r.box].blob = Publish!AadOf(r.box, keychain[Publisher])
    /\ \A b \in DOMAIN boxes : boxes[b].status = "ready" =>
         /\ boxes[b].blob = Publish!AadOf(b, keychain[Publisher])
         /\ SealedOK(boxes[b].envelopes, b)

(* Each file is of one run at a time, each visit has one run at a time,    *)
(* and the run that is shown is of the visit the wizard is in.             *)
RunOK(r) ==
  /\ r.n <= made.runs /\ r.visit <= made.visits
  /\ r.live => r.visit = made.visits /\ wizard.shown
  /\ r.live /\ r.at = "build" => wizard.build = None
  /\ r.live /\ r.at \in {"create", "seal", "upload", "finalize", "unlink"}
       => wizard.phase = "upload"
  /\ wizard.phase = "error" => r.visit # made.visits
  /\ r.at = "build" <=> r.file = None
  /\ r.at = "build" => wizard.build # r.n /\ \A f \in files : f.n # r.n
  /\ r.file # None => r.file <= made.runs /\ (r.file = wizard.build => r.live)
  /\ r.at \notin {"build", "create"} => r.box \in DOMAIN boxes /\ boxes[r.box].visit = r.visit
  /\ r.at \in {"seal", "upload"} => \E f \in files : f.n = r.file
  /\ r.at \in {"unlink", "grant"} => boxes[r.box].status = "ready"
Apart(r, t) ==
  /\ r.n # t.n /\ r.visit # t.visit
  /\ r.file # None => r.file # t.file
  /\ t.at = "build" => r.file # t.n
RunsOK ==
  /\ \A r \in publishes : RunOK(r)
  /\ \A r, t \in publishes : r # t => Apart(r, t)
  /\ \A f \in files : f.n <= made.runs
  /\ wizard.build # None => wizard.build <= made.runs
  /\ wizard.shown \/ wizard.phase = "idle"

(* A visit makes one sandbox ready.                                        *)
ReadyOK(b) ==
  boxes[b].status = "ready" /\ boxes[b].visit \notin made.spoilt =>
    /\ \A c \in DOMAIN boxes :
         boxes[c].status = "ready" /\ boxes[c].visit = boxes[b].visit => c = b
    /\ \A r \in publishes : r.visit = boxes[b].visit => r.at \in {"unlink", "grant"}
    /\ wizard.phase = "error" => boxes[b].visit # made.visits
VisitsOK ==
  /\ \A b \in DOMAIN boxes : boxes[b].visit <= made.visits /\ ReadyOK(b)
  /\ wizard.phase = "done" =>
       \E b \in DOMAIN boxes : boxes[b].visit = made.visits /\ boxes[b].status = "ready"
  /\ wizard.phase \in {"upload", "error"} /\ wizard.build # None =>
       (\E f \in files : f.n = wizard.build) \/ made.visits \in made.spoilt

PublishInv == PublishTypeOK /\ KeysOK /\ BoxesOK /\ RunsOK /\ VisitsOK

(* The counts of made, one or two of which go up, and who was told.        *)
LEMMA MadeFields ==
  ASSUME IsMade(made)
  PROVE  /\ LET x == [made EXCEPT !.setups = @ + 1]
            IN /\ IsMade(x) /\ x.runs = made.runs /\ x.visits = made.visits
               /\ x.done = made.done /\ x.crossed = made.crossed /\ x.spoilt = made.spoilt
         /\ \A d \in Devices :
              LET x == [made EXCEPT !.done = @ \cup {d}]
              IN /\ IsMade(x) /\ x.runs = made.runs /\ x.visits = made.visits
                 /\ x.done = made.done \cup {d} /\ x.crossed = made.crossed
                 /\ x.spoilt = made.spoilt
         /\ LET x == [made EXCEPT !.runs = @ + 1, !.visits = @ + 1]
            IN /\ IsMade(x) /\ x.runs = made.runs + 1 /\ x.visits = made.visits + 1
               /\ x.done = made.done /\ x.crossed = made.crossed /\ x.spoilt = made.spoilt
         /\ LET x == [made EXCEPT !.runs = @ + 1]
            IN /\ IsMade(x) /\ x.runs = made.runs + 1 /\ x.visits = made.visits
               /\ x.done = made.done /\ x.crossed = made.crossed /\ x.spoilt = made.spoilt
<1>1. made.runs + 1 \in Nat /\ made.visits + 1 \in Nat
  BY DEF IsMade
<1>2. LET x == [made EXCEPT !.setups = made.setups + 1]
      IN /\ IsMade(x) /\ x.runs = made.runs /\ x.visits = made.visits
         /\ x.done = made.done /\ x.crossed = made.crossed /\ x.spoilt = made.spoilt
  BY DEF IsMade
<1>3. ASSUME NEW d \in Devices
      PROVE  LET x == [made EXCEPT !.done = made.done \cup {d}]
             IN /\ IsMade(x) /\ x.runs = made.runs /\ x.visits = made.visits
                /\ x.done = made.done \cup {d} /\ x.crossed = made.crossed
                /\ x.spoilt = made.spoilt
  <2>1. made.done \cup {d} \in SUBSET Devices
    BY DEF IsMade
  <2> QED
    BY <2>1 DEF IsMade
<1>4. LET x == [made EXCEPT !.runs = made.runs + 1, !.visits = made.visits + 1]
      IN /\ IsMade(x) /\ x.runs = made.runs + 1 /\ x.visits = made.visits + 1
         /\ x.done = made.done /\ x.crossed = made.crossed /\ x.spoilt = made.spoilt
  BY <1>1 DEF IsMade
<1>5. LET x == [made EXCEPT !.runs = made.runs + 1]
      IN /\ IsMade(x) /\ x.runs = made.runs + 1 /\ x.visits = made.visits
         /\ x.done = made.done /\ x.crossed = made.crossed /\ x.spoilt = made.spoilt
  BY <1>1 DEF IsMade
<1> QED
  BY <1>2, <1>3, <1>4, <1>5

(* Appending a box, or changing one.                                       *)
LEMMA BoxAppended ==
  ASSUME NEW s, \E S : s \in Seq(S), NEW x
  PROVE  /\ \E S : Append(s, x) \in Seq(S)
         /\ Len(s) \in Nat /\ Len(Append(s, x)) = Len(s) + 1 /\ Len(s) + 1 \in Nat
         /\ DOMAIN s = 1 .. Len(s) /\ DOMAIN Append(s, x) = 1 .. Len(s) + 1
         /\ \A b \in DOMAIN s : b \in DOMAIN Append(s, x) /\ Append(s, x)[b] = s[b]
         /\ Append(s, x)[Len(s) + 1] = x /\ Len(s) + 1 \notin DOMAIN s
         /\ Len(s) + 1 \in DOMAIN Append(s, x)
<1>1. PICK S : s \in Seq(S)
  OBVIOUS
<1>2. s \in Seq(S \cup {x})
  BY <1>1, SeqMonotonic
<1>3. Append(s, x) \in Seq(S \cup {x}) /\ Len(Append(s, x)) = Len(s) + 1 /\ Len(s) \in Nat
      /\ DOMAIN s = 1 .. Len(s) /\ DOMAIN Append(s, x) = 1 .. Len(s) + 1
      /\ \A b \in 1 .. Len(s) : Append(s, x)[b] = s[b]
      /\ Append(s, x)[Len(s) + 1] = x
  BY <1>2
<1> QED
  BY <1>3

(* Changing a box leaves the others.                                       *)
LEMMA BoxChanged ==
  ASSUME NEW s, \E S : s \in Seq(S), NEW x, NEW c \in DOMAIN s
  PROVE  /\ \E S : [s EXCEPT ![c] = x] \in Seq(S)
         /\ DOMAIN [s EXCEPT ![c] = x] = DOMAIN s
         /\ [s EXCEPT ![c] = x][c] = x
         /\ \A b \in DOMAIN s : b # c => [s EXCEPT ![c] = x][b] = s[b]
<1>1. PICK S : s \in Seq(S)
  OBVIOUS
<1>2. s \in Seq(S \cup {x})
  BY <1>1, SeqMonotonic
<1>3. [s EXCEPT ![c] = x] \in Seq(S \cup {x})
  BY <1>2
<1> QED
  BY <1>3


(* What is sealed stays so while the keys that are there stay.             *)
Stable ==
  /\ made.crossed \subseteq made'.crossed
  /\ \A u, k : u \notin made'.crossed /\ Holds(u, k) => Holds(u, k)'
  /\ Publish!Owner \notin made'.crossed /\ keychain[Publisher] # None =>
       keychain'[Publisher] = keychain[Publisher]

(* Keys that are not touched are stable.                                   *)
LEMMA StableWhenKept ==
  ASSUME UNCHANGED keychain, made'.crossed = made.crossed
  PROVE  Stable
BY DEF Stable, Holds

(* While they are, an envelope stays sealed to the right key,              *)
LEMMA SealedKept ==
  ASSUME Stable, NEW e, NEW b, SealedOK(e, b), Publish!Owner \notin made'.crossed
  PROVE  SealedOK(e, b)'
<1>1. /\ keychain[Publisher] # None /\ keychain'[Publisher] = keychain[Publisher]
      /\ made.crossed \subseteq made'.crossed
  BY DEF Stable, SealedOK
<1>2. ASSUME NEW u \in (Members \cup {Publish!Owner}) \ made'.crossed
      PROVE  SealedTo(e, b, u)'
  <2>1. SealedTo(e, b, u)
    BY <1>1 DEF SealedOK
  <2>2. PICK k \in Nat : /\ Holds(u, k)
                         /\ e[u] = Publish!Envelope(keychain[Publisher], k, Publish!AadOf(b,
                              keychain[Publisher]))
    BY <2>1 DEF SealedTo
  <2>3. Holds(u, k)'
    BY <2>2 DEF Stable
  <2> QED
    BY <1>1, <2>1, <2>2, <2>3 DEF SealedTo
<1> QED
  BY <1>1, <1>2 DEF SealedOK

(* and so do those of all the boxes.                                       *)
LEMMA BoxesKept ==
  ASSUME BoxesOK, Stable,
         \A f \in files' : f \in files \/ (f.key # None /\ f.key = keychain'[Publisher])
                           \/ Publish!Owner \in made'.crossed,
         \A r \in publishes' : r.at \in {"upload", "finalize"} =>
           \/ \E t \in publishes : t.at = r.at /\ t.sealed = r.sealed /\ t.box = r.box
           \/ Publish!Owner \in made'.crossed
           \/ /\ SealedOK(r.sealed, r.box)'
              /\ r.at = "finalize" => boxes'[r.box].blob = Publish!AadOf(r.box,
                   keychain'[Publisher]),
         \A r \in publishes : r.at = "finalize" =>
           boxes'[r.box].blob = boxes[r.box].blob
             \/ boxes'[r.box].blob = Publish!AadOf(r.box, keychain'[Publisher])
             \/ Publish!Owner \in made'.crossed,
         \A b \in DOMAIN boxes' : boxes'[b].status = "ready" =>
           \/ /\ b \in DOMAIN boxes /\ boxes[b].status = "ready"
              /\ boxes'[b].envelopes = boxes[b].envelopes
              /\ \/ boxes'[b].blob = boxes[b].blob
                 \/ boxes'[b].blob = Publish!AadOf(b, keychain'[Publisher])
           \/ Publish!Owner \in made'.crossed
           \/ /\ boxes'[b].blob = Publish!AadOf(b, keychain'[Publisher])
              /\ \E e : e = boxes'[b].envelopes /\ SealedOK(e, b)'
  PROVE  BoxesOK'
<1>1. SUFFICES ASSUME Publish!Owner \notin made'.crossed
               PROVE  /\ \A f \in files' : f.key # None /\ f.key = keychain'[Publisher]
                      /\ \A r \in publishes' :
                           /\ r.at \in {"upload", "finalize"} => SealedOK(r.sealed, r.box)'
                           /\ r.at = "finalize" =>
                                boxes'[r.box].blob = Publish!AadOf(r.box, keychain'[Publisher])
                      /\ \A b \in DOMAIN boxes' : boxes'[b].status = "ready" =>
                           /\ boxes'[b].blob = Publish!AadOf(b, keychain'[Publisher])
                           /\ \E e : e = boxes'[b].envelopes /\ SealedOK(e, b)'
  <2>1. ASSUME NEW b, NEW e, e = boxes'[b].envelopes, SealedOK(e, b)'
        PROVE  SealedOK(boxes[b].envelopes, b)'
    BY <2>1 DEF SealedOK, SealedTo, Holds
  <2> QED
    BY <2>1 DEF BoxesOK
<1>2. Publish!Owner \notin made.crossed
  BY <1>1 DEF Stable
<1>3. keychain[Publisher] # None => keychain'[Publisher] = keychain[Publisher]
  BY <1>1 DEF Stable
<1>4. ASSUME NEW f \in files' PROVE f.key # None /\ f.key = keychain'[Publisher]
  BY <1>1, <1>2, <1>3 DEF BoxesOK
<1>5. ASSUME NEW e, NEW b, SealedOK(e, b)
      PROVE  SealedOK(e, b)' /\ keychain'[Publisher] = keychain[Publisher]
  <2>1. keychain[Publisher] # None
    BY <1>5 DEF SealedOK
  <2> QED
    BY <1>1, <1>3, <1>5, <2>1, SealedKept
<1>6. ASSUME NEW r \in publishes'
      PROVE  /\ r.at \in {"upload", "finalize"} => SealedOK(r.sealed, r.box)'
             /\ r.at = "finalize" => boxes'[r.box].blob = Publish!AadOf(r.box,
                  keychain'[Publisher])
  <2>1. ASSUME NEW t \in publishes, t.at = r.at, t.sealed = r.sealed, t.box = r.box,
               r.at \in {"upload", "finalize"}
        PROVE  /\ SealedOK(r.sealed, r.box)'
               /\ r.at = "finalize" => boxes'[r.box].blob = Publish!AadOf(r.box,
                    keychain'[Publisher])
    <3>1. PICK e, b : e = t.sealed /\ b = t.box
      OBVIOUS
    <3>2. SealedOK(e, b) /\ (t.at = "finalize" => boxes[b].blob = Publish!AadOf(b,
            keychain[Publisher]))
      BY <1>2, <2>1, <3>1 DEF BoxesOK
    <3>3. SealedOK(e, b)' /\ keychain'[Publisher] = keychain[Publisher]
      BY <1>5, <3>2
    <3>4. t.at = "finalize" => \/ boxes'[b].blob = boxes[b].blob
                               \/ boxes'[b].blob = Publish!AadOf(b, keychain'[Publisher])
      BY <1>1, <3>1
    <3> QED
      BY <2>1, <3>1, <3>2, <3>3, <3>4
  <2> QED
    BY <1>1, <2>1
<1>7. ASSUME NEW b \in DOMAIN boxes', boxes'[b].status = "ready"
      PROVE  /\ boxes'[b].blob = Publish!AadOf(b, keychain'[Publisher])
             /\ \E e : e = boxes'[b].envelopes /\ SealedOK(e, b)'
  <2>1. CASE /\ b \in DOMAIN boxes /\ boxes[b].status = "ready"
             /\ boxes'[b].envelopes = boxes[b].envelopes
             /\ \/ boxes'[b].blob = boxes[b].blob
                \/ boxes'[b].blob = Publish!AadOf(b, keychain'[Publisher])
    <3>1. PICK e : e = boxes[b].envelopes
      OBVIOUS
    <3>2. SealedOK(e, b) /\ boxes[b].blob = Publish!AadOf(b, keychain[Publisher])
      BY <1>2, <2>1, <3>1 DEF BoxesOK
    <3>3. SealedOK(e, b)' /\ keychain'[Publisher] = keychain[Publisher]
      BY <1>5, <3>2
    <3>4. e = boxes'[b].envelopes
      BY <2>1, <3>1
    <3> QED
      BY <2>1, <3>2, <3>3, <3>4
  <2> QED
    BY <1>1, <1>7, <2>1
<1> QED
  BY <1>4, <1>6, <1>7

(* No key is made, registered or told of.                                  *)
LEMMA KeysFrame ==
  ASSUME KeysOK, UNCHANGED Publish!keyVars, made'.crossed = made.crossed, made'.done = made.done
  PROVE  KeysOK'
BY DEF KeysOK, OneKey, Publish!keyVars

(* A key is made for a device.                                             *)
LEMMA KeyMakes ==
  ASSUME PublishTypeOK, KeysOK, NEW d \in Devices, NEW k \in Nat,
         keychain' = [keychain EXCEPT ![d] = k], UNCHANGED registered,
         made'.crossed = Publish!Crossed(d), made'.done = made.done,
         \A s \in setups' : s \in setups \/ (s.device = d /\ s.at = "put" /\ s.key = k)
  PROVE  KeysOK' /\ Stable
<1>1. /\ keychain'[d] = k /\ k # None
      /\ \A e \in Devices : e # d => keychain'[e] = keychain[e]
  BY PublishKnown DEF PublishTypeOK
<1>2. /\ made.crossed \subseteq made'.crossed
      /\ Account[d] \notin made'.crossed => ~Publish!Others(d)
  BY DEF Publish!Crossed
<1>3. \A s \in setups : s.device \in Devices
  BY DEF PublishTypeOK, IsSetup
<1>4. ASSUME NEW u \in Publish!Accounts \ made'.crossed PROVE OneKey(u)'
  <2>1. OneKey(u)
    BY <1>2 DEF KeysOK
  <2>2. CASE u # Account[d]
    <3>1. \A e \in Devices : Account[e] = u => keychain'[e] = keychain[e]
      BY <1>1, <2>2
    <3>2. \A s \in setups' : Account[s.device] = u => s \in setups
      BY <2>2
    <3>3. \A e, g \in Devices : Account[e] = u /\ Account[g] = u
                           /\ keychain'[e] # None /\ keychain'[g] # None => e = g
      BY <2>1, <3>1 DEF OneKey
    <3>4. \A s \in setups' : Account[s.device] = u /\ s.at = "put" =>
                         s.key # None /\ s.key = keychain'[s.device]
      BY <1>3, <2>1, <3>1, <3>2 DEF OneKey
    <3>5. registered[u] # None =>
            \E e \in Devices : Account[e] = u /\ keychain'[e] = registered[u]
      BY <2>1, <3>1 DEF OneKey
    <3>6. \A e \in made.done : Account[e] = u => keychain'[e] # None
            /\ keychain'[e] = registered[u]
      <4>1. made.done \subseteq Devices
        BY DEF PublishTypeOK, IsMade
      <4> QED
        BY <2>1, <3>1, <4>1 DEF OneKey
    <3> QED
      BY <3>3, <3>4, <3>5, <3>6 DEF OneKey
  <2>3. CASE u = Account[d]
    <3>1. /\ \A e \in Devices : Account[e] = u => keychain[e] = None
          /\ \A s \in setups : Account[s.device] = u => s.device = d
      BY <1>2, <2>3 DEF Publish!Others
    <3>2. \A e \in Devices : Account[e] = u /\ e # d => keychain'[e] = None
      BY <1>1, <3>1
    <3>3. \A s \in setups : ~(Account[s.device] = u /\ s.at = "put")
      BY <1>3, <2>1, <3>1 DEF OneKey
    <3>4. registered[u] = None
      BY <2>1, <3>1 DEF OneKey
    <3>5. \A e \in made.done : Account[e] # u
      <4>1. made.done \subseteq Devices
        BY DEF PublishTypeOK, IsMade
      <4> QED
        BY <2>1, <3>1, <4>1 DEF OneKey
    <3> QED
      BY <1>1, <3>2, <3>3, <3>4, <3>5 DEF OneKey
  <2> QED
    BY <2>2, <2>3
<1>5. ASSUME NEW u, NEW x, u \notin made'.crossed, Holds(u, x) PROVE Holds(u, x)'
  <2>1. PICK e \in Devices : Account[e] = u /\ keychain[e] = x /\ x # None
    BY <1>5 DEF Holds
  <2>2. e # d
    BY <1>2, <1>5, <2>1 DEF Publish!Others
  <2> QED
    BY <1>1, <2>1, <2>2 DEF Holds
<1>6. Publish!Owner \notin made'.crossed /\ keychain[Publisher] # None =>
        keychain'[Publisher] = keychain[Publisher]
  BY <1>1, <1>2, PublishKnown DEF Publish!Others, Publish!Owner
<1> QED
  BY <1>2, <1>4, <1>5, <1>6 DEF KeysOK, Stable

(* A run another run's step passes by.                                     *)
LEMMA OtherRun ==
  ASSUME NEW t, IsRun(t), RunOK(t), IsMade(made), IsMade(made'), made.runs <= made'.runs,
         made'.visits = made.visits,
         \/ /\ wizard'.shown = wizard.shown /\ wizard'.phase = wizard.phase
            /\ wizard'.build = wizard.build
         \/ /\ ~t.live
            /\ wizard'.phase = "error" => t.visit # made.visits
            /\ t.file # None => t.file # wizard'.build
            /\ t.at = "build" => wizard'.build # t.n,
         t.at = "build" => \A f \in files' : f \in files \/ f.n # t.n,
         \A f \in files : f \in files' \/ f.n # t.file,
         \A c \in DOMAIN boxes : /\ c \in DOMAIN boxes' /\ boxes'[c].visit = boxes[c].visit
                                 /\ boxes[c].status = "ready" => boxes'[c].status = "ready"
  PROVE  RunOK(t)'
<1>1. /\ t.n \in Nat /\ t.file \in Key /\ made.runs \in Nat /\ made'.runs \in Nat
      /\ made.visits \in Nat /\ t.live \in BOOLEAN
  BY DEF IsRun, IsMade
<1>2. /\ t.n <= made'.runs /\ t.visit <= made'.visits
      /\ t.file # None => t.file <= made'.runs
  BY <1>1, PublishKnown DEF RunOK, Key
<1>3. /\ t.live => t.visit = made'.visits /\ wizard'.shown
      /\ t.live /\ t.at = "build" => wizard'.build = None
      /\ t.live /\ t.at \in {"create", "seal", "upload", "finalize", "unlink"} =>
           wizard'.phase = "upload"
      /\ wizard'.phase = "error" => t.visit # made'.visits
      /\ t.file # None => (t.file = wizard'.build => t.live)
      /\ t.at = "build" => wizard'.build # t.n
  BY DEF RunOK
<1>4. /\ t.at = "build" <=> t.file = None
      /\ t.at = "build" => \A f \in files' : f.n # t.n
      /\ t.at \in {"seal", "upload"} => \E f \in files' : f.n = t.file
  BY DEF RunOK
<1>5. /\ t.at \notin {"build", "create"} =>
           t.box \in DOMAIN boxes' /\ boxes'[t.box].visit = t.visit
      /\ t.at \in {"unlink", "grant"} => boxes'[t.box].status = "ready"
  BY DEF RunOK
<1> QED
  BY <1>2, <1>3, <1>4, <1>5 DEF RunOK

(* A run that moves on, or ends, stays apart from the others.              *)
LEMMA ApartMoved ==
  ASSUME RunsOK, NEW r \in publishes, NEW x,
         publishes' \subseteq (publishes \ {r}) \cup {x},
         x \in publishes' => /\ x.n = r.n /\ x.visit = r.visit /\ x.at # "build"
                             /\ x.file = r.file \/ (r.at = "build" /\ x.file = r.n)
  PROVE  \A y, z \in publishes' : y # z => Apart(y, z)
<1>1. ASSUME NEW y \in publishes', NEW z \in publishes', y # z PROVE Apart(y, z)
  <2>1. CASE y \in publishes \ {r} /\ z \in publishes \ {r}
    BY <1>1, <2>1 DEF RunsOK
  <2>2. CASE y = x /\ z \in publishes \ {r}
    <3>1. Apart(r, z) /\ Apart(z, r)
      BY <2>2 DEF RunsOK
    <3> QED
      BY <1>1, <2>2, <3>1 DEF Apart
  <2>3. CASE z = x /\ y \in publishes \ {r}
    <3>1. Apart(r, y) /\ Apart(y, r)
      BY <2>3 DEF RunsOK
    <3> QED
      BY <1>1, <2>3, <3>1 DEF Apart
  <2> QED
    BY <1>1, <2>1, <2>2, <2>3
<1> QED
  BY <1>1

(* Nothing becomes ready, and no run goes back.                            *)
LEMMA ReadyKept ==
  ASSUME VisitsOK, made'.visits = made.visits, made.spoilt \subseteq made'.spoilt,
         \A b \in DOMAIN boxes' :
           /\ boxes'[b].visit <= made.visits
           /\ boxes'[b].status = "ready" => /\ b \in DOMAIN boxes /\ boxes[b].status = "ready"
                                            /\ boxes'[b].visit = boxes[b].visit,
         \A x \in publishes' : \E r \in publishes :
           /\ x.visit = r.visit
           /\ r.at \in {"unlink", "grant"} => x.at \in {"unlink", "grant"},
         wizard'.phase = "error" =>
           \/ wizard.phase = "error"
           \/ \A b \in DOMAIN boxes : boxes[b].status = "ready" /\ boxes[b].visit = made.visits =>
                                        boxes[b].visit \in made'.spoilt
  PROVE  \A b \in DOMAIN boxes' : boxes'[b].visit <= made'.visits /\ ReadyOK(b)'
<1>1. ASSUME NEW b \in DOMAIN boxes', boxes'[b].status = "ready",
             boxes'[b].visit \notin made'.spoilt
      PROVE  /\ \A c \in DOMAIN boxes' :
                  boxes'[c].status = "ready" /\ boxes'[c].visit = boxes'[b].visit => c = b
             /\ \A x \in publishes' : x.visit = boxes'[b].visit => x.at \in {"unlink", "grant"}
             /\ wizard'.phase = "error" => boxes'[b].visit # made'.visits
  <2>1. /\ b \in DOMAIN boxes /\ boxes[b].status = "ready" /\ boxes'[b].visit = boxes[b].visit
        /\ boxes[b].visit \notin made.spoilt /\ ReadyOK(b)
    BY <1>1 DEF VisitsOK
  <2>2. \A c \in DOMAIN boxes' :
          boxes'[c].status = "ready" /\ boxes'[c].visit = boxes'[b].visit => c = b
    BY <2>1 DEF ReadyOK
  <2>3. \A x \in publishes' : x.visit = boxes'[b].visit => x.at \in {"unlink", "grant"}
    BY <2>1 DEF ReadyOK
  <2>4. wizard'.phase = "error" => boxes'[b].visit # made'.visits
    BY <1>1, <2>1 DEF ReadyOK
  <2> QED
    BY <2>2, <2>3, <2>4
<1> QED
  BY <1>1 DEF ReadyOK

(* A step that leaves the wizard, the runs, the files and the boxes alone. *)
LEMMA RunsFrame ==
  ASSUME PublishTypeOK, RunsOK, VisitsOK, UNCHANGED <<wizard, publishes, files, boxes>>,
         made'.runs = made.runs, made'.visits = made.visits, made'.spoilt = made.spoilt
  PROVE  RunsOK' /\ VisitsOK'
<1>1. RunsOK'
  BY DEF RunsOK, RunOK, Apart
<1>2. VisitsOK'
  BY DEF VisitsOK, ReadyOK
<1> QED
  BY <1>1, <1>2

-----------------------------------------------------------------------------
(* The steps of a setup.                                                   *)

(* The step SetupAsked keeps the invariant.                                *)
LEMMA SetupAskedKeeps ==
  ASSUME PublishInv, NEW d \in Devices, Publish!SetupAsked(d) PROVE PublishInv'
<1>0. PublishTypeOK /\ KeysOK /\ BoxesOK /\ RunsOK /\ VisitsOK
  BY DEF PublishInv
<1>1. /\ UNCHANGED <<keychain, registered, wizard, publishes, files, boxes>>
      /\ setups' = setups \cup {[n |-> made.setups + 1, device |-> d, at |-> "read", key |-> None]}
      /\ IsMade(made') /\ made'.runs = made.runs /\ made'.visits = made.visits
      /\ made'.done = made.done /\ made'.crossed = made.crossed /\ made'.spoilt = made.spoilt
  BY <1>0, MadeFields DEF Publish!SetupAsked, PublishTypeOK
<1>2. PublishTypeOK'
  <2>1. \A s \in setups' : IsSetup(s)
    BY <1>0, <1>1 DEF PublishTypeOK, IsSetup, Key
  <2> QED
    BY <1>0, <1>1, <2>1 DEF PublishTypeOK
<1>3. KeysOK'
  BY <1>0, <1>1 DEF KeysOK, OneKey
<1>4. BoxesOK'
  BY <1>0, <1>1 DEF BoxesOK, SealedOK, SealedTo, Holds
<1>5. RunsOK' /\ VisitsOK'
  BY <1>0, <1>1, RunsFrame
<1> QED
  BY <1>2, <1>3, <1>4, <1>5 DEF PublishInv

(* The step SetupRead keeps the invariant.                                 *)
LEMMA SetupReadKeeps ==
  ASSUME PublishInv, NEW s, NEW answered, Publish!SetupRead(s, answered) PROVE PublishInv'
<1>0. PublishTypeOK /\ KeysOK /\ BoxesOK /\ RunsOK /\ VisitsOK
  BY DEF PublishInv
<1>1. /\ UNCHANGED <<keychain, registered, wizard, publishes, files, boxes, made>>
      /\ s \in setups /\ s.at = "read" /\ IsSetup(s)
  BY <1>0 DEF Publish!SetupRead, PublishTypeOK
<1>k. PICK key : key = Publish!Read(s.device, answered)
  OBVIOUS
<1> DEFINE x == [s EXCEPT !.at = IF key = None THEN "make" ELSE "put", !.key = key]
<1>2. setups' = (setups \ {s}) \cup {x}
  BY <1>k DEF Publish!SetupRead
<1>3. s.device \in Devices /\ key \in Key /\ (key # None => key = keychain[s.device])
  <2>1. s.device \in Devices /\ keychain[s.device] \in Key
    BY <1>0, <1>1 DEF PublishTypeOK, IsSetup
  <2> QED
    BY <1>k, <2>1 DEF Publish!Read, Key
<1>4. /\ IsSetup(x) /\ x.device = s.device /\ x.key = key
      /\ x.at = "put" => x.key # None /\ x.key = keychain[s.device]
  BY <1>1, <1>3 DEF IsSetup
<1> HIDE DEF x
<1>5. PublishTypeOK'
  <2>1. \A t \in setups' : IsSetup(t)
    BY <1>0, <1>2, <1>4 DEF PublishTypeOK
  <2> QED
    BY <1>0, <1>1, <2>1 DEF PublishTypeOK
<1>6. KeysOK'
  <2>1. ASSUME NEW u \in Publish!Accounts \ made.crossed PROVE OneKey(u)'
    <3>1. OneKey(u)
      BY <1>0 DEF KeysOK
    <3> QED
      BY <1>1, <1>2, <1>4, <3>1 DEF OneKey
  <2> QED
    BY <1>1, <2>1 DEF KeysOK
<1>7. BoxesOK'
  BY <1>0, <1>1 DEF BoxesOK, SealedOK, SealedTo, Holds
<1>8. RunsOK' /\ VisitsOK'
  BY <1>0, <1>1, RunsFrame
<1> QED
  BY <1>5, <1>6, <1>7, <1>8 DEF PublishInv

(* The step SetupFails keeps the invariant.                                *)
LEMMA SetupFailsKeeps ==
  ASSUME PublishInv, NEW s, Publish!SetupFails(s) PROVE PublishInv'
<1>0. PublishTypeOK /\ KeysOK /\ BoxesOK /\ RunsOK /\ VisitsOK
  BY DEF PublishInv
<1>1. /\ UNCHANGED <<keychain, registered, wizard, publishes, files, boxes, made>>
      /\ setups' = setups \ {s}
  BY DEF Publish!SetupFails
<1>2. PublishTypeOK'
  BY <1>0, <1>1 DEF PublishTypeOK
<1>3. KeysOK'
  BY <1>0, <1>1 DEF KeysOK, OneKey
<1>4. BoxesOK'
  BY <1>0, <1>1 DEF BoxesOK, SealedOK, SealedTo, Holds
<1>5. RunsOK' /\ VisitsOK'
  BY <1>0, <1>1, RunsFrame
<1> QED
  BY <1>2, <1>3, <1>4, <1>5 DEF PublishInv

(* The step SetupMade keeps the invariant.                                 *)
LEMMA SetupMadeKeeps ==
  ASSUME PublishInv, NEW s, Publish!SetupMade(s) PROVE PublishInv'
<1>0. PublishTypeOK /\ KeysOK /\ BoxesOK /\ RunsOK /\ VisitsOK
  BY DEF PublishInv
<1> DEFINE k == made.keys + 1
           d == s.device
           x == [s EXCEPT !.at = "put", !.key = k]
<1>1. /\ UNCHANGED <<registered, wizard, publishes, files, boxes>>
      /\ s \in setups /\ IsSetup(s) /\ IsMade(made)
      /\ keychain' = [keychain EXCEPT ![d] = k]
      /\ setups' = (setups \ {s}) \cup {x}
      /\ made' = [made EXCEPT !.keys = k, !.crossed = Publish!Crossed(d)]
  BY <1>0 DEF Publish!SetupMade, PublishTypeOK, Publish!Stored
<1>2. d \in Devices /\ k \in Nat /\ k \in Key
  BY <1>1 DEF IsSetup, IsMade, Key
<1>3. IsSetup(x) /\ x.device = d /\ x.at = "put" /\ x.key = k
  BY <1>1, <1>2 DEF IsSetup
<1> HIDE DEF x, k, d
<1>4. /\ IsMade(made') /\ made'.runs = made.runs /\ made'.visits = made.visits
      /\ made'.done = made.done /\ made'.crossed = Publish!Crossed(d) /\ made'.spoilt = made.spoilt
  <2>1. PICK c : c = Publish!Crossed(d)
    OBVIOUS
  <2>2. made' = [made EXCEPT !.keys = k, !.crossed = c]
    BY <1>1, <2>1
  <2> QED
    BY <1>1, <1>2, <2>1, <2>2 DEF IsMade
<1>5. KeysOK' /\ Stable
  BY <1>0, <1>1, <1>2, <1>3, <1>4, KeyMakes
<1>6. PublishTypeOK'
  <2>1. \A t \in setups' : IsSetup(t)
    BY <1>0, <1>1, <1>3 DEF PublishTypeOK
  <2>2. keychain' \in [Devices -> Key]
    BY <1>0, <1>1, <1>2 DEF PublishTypeOK
  <2> QED
    BY <1>0, <1>1, <1>4, <2>1, <2>2 DEF PublishTypeOK
<1>7. BoxesOK'
  BY <1>0, <1>1, <1>5, BoxesKept
<1>8. RunsOK' /\ VisitsOK'
  BY <1>0, <1>1, <1>4, RunsFrame
<1> QED
  BY <1>5, <1>6, <1>7, <1>8 DEF PublishInv

(* The step SetupPut keeps the invariant.                                  *)
LEMMA SetupPutKeeps ==
  ASSUME PublishInv, NEW s, NEW taken, NEW answered, Publish!SetupPut(s, taken, answered)
  PROVE  PublishInv'
<1>0. PublishTypeOK /\ KeysOK /\ BoxesOK /\ RunsOK /\ VisitsOK
  BY DEF PublishInv
<1> DEFINE d == s.device
           v == Account[d]
<1>1. /\ UNCHANGED <<keychain, wizard, publishes, files, boxes>>
      /\ s \in setups /\ s.at = "put" /\ IsSetup(s) /\ IsMade(made) /\ (answered => taken)
      /\ setups' = setups \ {s}
      /\ registered' = IF taken THEN [registered EXCEPT ![v] = s.key] ELSE registered
      /\ made' = IF answered THEN [made EXCEPT !.done = @ \cup {d}] ELSE made
  BY <1>0 DEF Publish!SetupPut, PublishTypeOK
<1>2. d \in Devices /\ v \in Publish!Accounts /\ s.key \in Key
  BY <1>1 DEF IsSetup, Publish!Accounts
<1>3. /\ registered' \in [Publish!Accounts -> Key]
      /\ \A u \in Publish!Accounts : registered'[u] = IF taken
           /\ u = v THEN s.key ELSE registered[u]
  BY <1>0, <1>1, <1>2 DEF PublishTypeOK
<1> HIDE DEF d, v
<1>4. /\ IsMade(made') /\ made'.runs = made.runs /\ made'.visits = made.visits
      /\ made'.done \subseteq made.done \cup {d} /\ (~answered => made'.done = made.done)
      /\ made'.crossed = made.crossed /\ made'.spoilt = made.spoilt
  BY <1>1, <1>2, MadeFields
<1>5. KeysOK'
  <2>1. ASSUME NEW u \in Publish!Accounts \ made.crossed PROVE OneKey(u)'
    <3>1. OneKey(u)
      BY <1>0 DEF KeysOK
    <3>2. made.done \subseteq Devices
      BY <1>1 DEF IsMade
    <3>3. \A t \in setups' : Account[t.device] = u /\ t.at = "put" =>
                         t.key # None /\ t.key = keychain'[t.device]
      BY <1>1, <3>1 DEF OneKey
    <3>4. CASE u # v \/ ~taken
      <4>1. registered'[u] = registered[u] /\ (u = v => made'.done = made.done)
        BY <1>1, <1>3, <1>4, <3>4
      <4>2. \A e \in made'.done : Account[e] = u => e \in made.done
        BY <1>4, <4>1 DEF v
      <4> QED
        BY <1>1, <3>1, <3>3, <4>1, <4>2 DEF OneKey
    <3>5. CASE u = v /\ taken
      <4>1. s.key # None /\ s.key = keychain[d] /\ Account[d] = u /\ registered'[u] = s.key
        BY <1>1, <1>3, <3>1, <3>5 DEF OneKey, d, v
      <4>2. \A e \in made'.done : Account[e] = u => keychain[e] # None /\ keychain[e] = s.key
        BY <1>2, <1>4, <3>1, <3>2, <4>1 DEF OneKey
      <4> QED
        BY <1>1, <1>2, <3>1, <3>3, <4>1, <4>2 DEF OneKey
    <3> QED
      BY <3>4, <3>5
  <2> QED
    BY <1>4, <2>1 DEF KeysOK
<1>6. PublishTypeOK'
  BY <1>0, <1>1, <1>3, <1>4 DEF PublishTypeOK
<1>7. BoxesOK'
  BY <1>0, <1>1, <1>4 DEF BoxesOK, SealedOK, SealedTo, Holds
<1>8. RunsOK' /\ VisitsOK'
  BY <1>0, <1>1, <1>4, RunsFrame
<1> QED
  BY <1>5, <1>6, <1>7, <1>8 DEF PublishInv

-----------------------------------------------------------------------------
(* The steps of the wizard and of its runs.                                *)

(* One run at most is shown, the one of the visit the wizard is in.        *)
LEMMA OthersHidden ==
  ASSUME RunsOK, NEW r \in publishes, r.live, NEW t \in publishes, t # r
  PROVE  r.visit = made.visits /\ t.visit # made.visits /\ ~t.live
BY DEF RunsOK, RunOK, Apart

(* The step StepEntered keeps the invariant.                               *)
LEMMA StepEnteredKeeps ==
  ASSUME PublishInv, NEW mode, Publish!StepEntered(mode) PROVE PublishInv'
<1>0. PublishTypeOK /\ KeysOK /\ BoxesOK /\ RunsOK /\ VisitsOK
  BY DEF PublishInv
<1>a. PICK x : x = Publish!Run("build", None)
  OBVIOUS
<1>1. /\ UNCHANGED <<keychain, registered, setups, files, boxes>>
      /\ ~wizard.shown /\ IsMade(made) /\ IsMade(made')
      /\ made'.runs = made.runs + 1 /\ made'.visits = made.visits + 1
      /\ made'.done = made.done /\ made'.crossed = made.crossed /\ made'.spoilt = made.spoilt
      /\ publishes' = publishes \cup {x}
  BY <1>0, <1>a, MadeFields DEF Publish!StepEntered, PublishTypeOK, Publish!keyVars
<1>2. made.runs \in Nat /\ made.visits \in Nat /\ made'.runs \in Nat /\ made'.visits \in Nat
  BY <1>1 DEF IsMade
<1>3. /\ IsRun(x) /\ x.n = made.runs + 1 /\ x.visit = made.visits + 1 /\ x.at = "build"
      /\ x.file = None /\ x.live
  BY <1>1, <1>2, <1>a DEF Publish!Run, IsRun, Key
<1>4. /\ IsWizard(wizard') /\ wizard'.shown /\ wizard'.phase = "build" /\ wizard'.build = None
  BY DEF Publish!StepEntered, Publish!Blank, IsWizard, Key
<1>5. \A t \in publishes : IsRun(t) /\ RunOK(t) /\ ~t.live
  BY <1>0, <1>1 DEF PublishTypeOK, RunsOK, RunOK
<1>6. \A t \in publishes : /\ t.n \in Nat /\ t.n <= made.runs /\ t.visit \in Nat
                           /\ t.visit <= made.visits
                           /\ t.file # None => t.file \in Nat /\ t.file <= made.runs
  BY <1>5 DEF IsRun, RunOK, Key
<1>7. \A f \in files : f.n \in Nat /\ f.n <= made.runs
  BY <1>0 DEF PublishTypeOK, IsFile, RunsOK
<1>8. PublishTypeOK'
  <2>1. \A t \in publishes' : IsRun(t)
    BY <1>1, <1>3, <1>5
  <2> QED
    BY <1>0, <1>1, <1>4, <2>1 DEF PublishTypeOK
<1>9. KeysOK'
  BY <1>0, <1>1, KeysFrame DEF Publish!keyVars
<1>10. BoxesOK'
  BY <1>0, <1>1, <1>3, BoxesKept, StableWhenKept
<1>11. RunsOK'
  <2>1. ASSUME NEW t \in publishes PROVE RunOK(t)'
    BY <1>1, <1>2, <1>4, <1>5, <1>6, PublishKnown DEF RunOK
  <2>2. RunOK(x)'
    BY <1>1, <1>2, <1>3, <1>4, <1>7, PublishKnown DEF RunOK
  <2>3. ASSUME NEW t \in publishes PROVE Apart(x, t) /\ Apart(t, x)
    BY <1>2, <1>3, <1>6, PublishKnown DEF Apart
  <2>4. \A y, z \in publishes' : y # z => Apart(y, z)
    BY <1>0, <1>1, <2>3 DEF RunsOK
  <2>5. \A f \in files' : f.n <= made'.runs
    BY <1>1, <1>2, <1>7
  <2>6. \A t \in publishes' : RunOK(t)'
    BY <1>1, <2>1, <2>2
  <2> QED
    BY <1>4, <2>4, <2>5, <2>6 DEF RunsOK
<1>12. VisitsOK'
  <2>1. ASSUME NEW b \in DOMAIN boxes
        PROVE  /\ boxes[b].visit \in Nat /\ boxes[b].visit <= made.visits
               /\ boxes[b].visit <= made'.visits /\ boxes[b].visit # made'.visits
    <3>1. boxes[b].visit \in Nat /\ boxes[b].visit <= made.visits
      BY <1>0 DEF PublishTypeOK, IsBox, VisitsOK
    <3> QED
      BY <1>1, <1>2, <3>1
  <2>2. ASSUME NEW b \in DOMAIN boxes PROVE ReadyOK(b)'
    <3>1. ReadyOK(b)
      BY <1>0 DEF VisitsOK
    <3>2. x.visit # boxes[b].visit
      BY <1>1, <1>3, <2>1
    <3> QED
      BY <1>1, <1>4, <3>1, <3>2 DEF ReadyOK
  <2>3. \A b \in DOMAIN boxes' : boxes'[b].visit <= made'.visits /\ ReadyOK(b)'
    BY <1>1, <2>1, <2>2
  <2> QED
    BY <1>4, <2>3 DEF VisitsOK
<1> QED
  BY <1>8, <1>9, <1>10, <1>11, <1>12 DEF PublishInv

(* The step StepLeft keeps the invariant.                                  *)
LEMMA StepLeftKeeps ==
  ASSUME PublishInv, Publish!StepLeft PROVE PublishInv'
<1>0. PublishTypeOK /\ KeysOK /\ BoxesOK /\ RunsOK /\ VisitsOK
  BY DEF PublishInv
<1>1. UNCHANGED <<keychain, registered, setups, files, boxes, made>>
  BY DEF Publish!StepLeft, Publish!keyVars
<1>2. \A x \in publishes' : \E r \in publishes :
        /\ IsRun(r) /\ IsRun(x) /\ x = [r EXCEPT !.live = FALSE] /\ RunOK(r)
        /\ x.n = r.n /\ x.at = r.at /\ x.file = r.file /\ x.box = r.box
        /\ x.sealed = r.sealed /\ x.visit = r.visit /\ x.live = FALSE
  <2> TAKE x \in publishes'
  <2>1. \E r \in publishes : x = [r EXCEPT !.live = FALSE]
    BY DEF Publish!StepLeft
  <2>2. PICK r \in publishes : x = [r EXCEPT !.live = FALSE]
    BY <2>1
  <2>3. IsRun(r) /\ RunOK(r)
    BY <1>0 DEF PublishTypeOK, RunsOK
  <2>4. /\ IsRun(x) /\ x.n = r.n /\ x.at = r.at /\ x.file = r.file /\ x.box = r.box
        /\ x.sealed = r.sealed /\ x.visit = r.visit /\ x.live = FALSE
    BY <2>2, <2>3 DEF IsRun
  <2> QED
    BY <2>2, <2>3, <2>4
<1>3. IsWizard(wizard') /\ wizard'.phase = "idle" /\ wizard'.build = None
  BY DEF Publish!StepLeft, Publish!Hidden, IsWizard, Key
<1>4. PublishTypeOK'
  <2>1. \A x \in publishes' : IsRun(x)
    BY <1>2
  <2> QED
    BY <1>0, <1>1, <1>3, <2>1 DEF PublishTypeOK
<1>5. KeysOK'
  BY <1>0, <1>1, KeysFrame DEF Publish!keyVars
<1>6. BoxesOK'
  <2>1. Stable
    BY <1>1, StableWhenKept
  <2>2. \A x \in publishes' : x.at \in {"upload", "finalize"} =>
           \E t \in publishes : t.at = x.at /\ t.sealed = x.sealed /\ t.box = x.box
    BY <1>2
  <2> QED
    BY <1>0, <1>1, <2>1, <2>2, BoxesKept
<1>7. RunsOK'
  <2>1. ASSUME NEW x \in publishes' PROVE RunOK(x)'
    <3>1. PICK r \in publishes :
            /\ IsRun(r) /\ RunOK(r)
            /\ x.n = r.n /\ x.at = r.at /\ x.file = r.file /\ x.box = r.box
            /\ x.sealed = r.sealed /\ x.visit = r.visit /\ x.live = FALSE
      BY <1>2
    <3>2. r.n # None
      BY <3>1, PublishKnown DEF IsRun
    <3> QED
      BY <1>1, <1>3, <3>1, <3>2 DEF RunOK
  <2>2. ASSUME NEW x \in publishes', NEW y \in publishes', x # y PROVE Apart(x, y)
    <3>1. PICK r \in publishes : /\ x = [r EXCEPT !.live = FALSE] /\ x.n = r.n /\ x.at = r.at
                                 /\ x.file = r.file /\ x.visit = r.visit
      BY <1>2
    <3>2. PICK t \in publishes : /\ y = [t EXCEPT !.live = FALSE] /\ y.n = t.n /\ y.at = t.at
                                 /\ y.file = t.file /\ y.visit = t.visit
      BY <1>2
    <3>3. Apart(r, t)
      BY <1>0, <2>2, <3>1, <3>2 DEF RunsOK
    <3> QED
      BY <3>1, <3>2, <3>3 DEF Apart
  <2> QED
    BY <1>0, <1>1, <1>3, <2>1, <2>2 DEF RunsOK
<1>8. VisitsOK'
  <2>1. \A b \in DOMAIN boxes' : boxes'[b].visit <= made'.visits /\ ReadyOK(b)'
    <3>1. \A x \in publishes' : \E r \in publishes :
            /\ x.visit = r.visit
            /\ r.at \in {"unlink", "grant"} => x.at \in {"unlink", "grant"}
      BY <1>2
    <3>2. \A b \in DOMAIN boxes' : boxes'[b].visit <= made.visits
      BY <1>0, <1>1 DEF VisitsOK
    <3> QED
      BY <1>0, <1>1, <1>3, <3>1, <3>2, ReadyKept
  <2> QED
    BY <1>3, <2>1 DEF VisitsOK
<1> QED
  BY <1>4, <1>5, <1>6, <1>7, <1>8 DEF PublishInv

(* The step Retried keeps the invariant.                                   *)
LEMMA RetriedKeeps ==
  ASSUME PublishInv, NEW from \in {"build", "create"}, Publish!Retried(from) PROVE PublishInv'
<1>0. PublishTypeOK /\ KeysOK /\ BoxesOK /\ RunsOK /\ VisitsOK
  BY DEF PublishInv
<1> DEFINE k == IF from = "build" THEN None ELSE wizard.build
<1>a. PICK x : x = Publish!Run(from, k)
  OBVIOUS
<1>1. /\ UNCHANGED <<keychain, registered, setups, files, boxes>>
      /\ wizard.phase = "error" /\ IsWizard(wizard) /\ IsMade(made) /\ IsMade(made')
      /\ made'.runs = made.runs + 1 /\ made'.visits = made.visits
      /\ made'.done = made.done /\ made'.crossed = made.crossed /\ made'.spoilt = made.spoilt
      /\ publishes' = publishes \cup {x}
      /\ from = "create" => wizard.build # None
  BY <1>0, <1>a, MadeFields DEF Publish!Retried, PublishTypeOK, Publish!keyVars
<1>2. /\ made.runs \in Nat /\ made.visits \in Nat /\ made'.runs \in Nat /\ wizard.build \in Key
      /\ k \in Key /\ (k # None => k = wizard.build /\ from = "create")
      /\ (k = None => from = "build")
  BY <1>1 DEF IsMade, IsWizard, Key
<1>3. /\ IsRun(x) /\ x.n = made.runs + 1 /\ x.visit = made.visits /\ x.at = from
      /\ x.file = k /\ x.live
  BY <1>1, <1>2, <1>a DEF Publish!Run, IsRun
<1>4. /\ IsWizard(wizard') /\ wizard'.build = k
      /\ wizard'.phase = IF from = "build" THEN "build" ELSE "upload"
      /\ wizard'.shown = wizard.shown
  <2>1. PICK p, j, e : /\ p = (IF from = "build" THEN "build" ELSE "upload") /\ j = k /\ e = {}
                       /\ wizard' = [wizard EXCEPT !.phase = p, !.build = j, !.refused = e]
    BY DEF Publish!Retried
  <2> HIDE DEF k
  <2>2. j \in Key
    BY <1>2, <2>1
  <2>3. LET z == [wizard EXCEPT !.phase = p, !.build = j, !.refused = e]
        IN IsWizard(z) /\ z.shown = wizard.shown /\ z.phase = p /\ z.build = j
    BY <1>1, <2>2 DEF IsWizard
  <2>4. IsWizard(wizard') /\ wizard'.shown = wizard.shown /\ wizard'.phase = p /\ wizard'.build = j
    BY <2>1, <2>3
  <2> QED
    BY <2>1, <2>4
<1> HIDE DEF k
<1>5. \A t \in publishes : IsRun(t) /\ RunOK(t) /\ t.visit # made.visits /\ ~t.live
  BY <1>0, <1>1 DEF PublishTypeOK, RunsOK, RunOK
<1>6. \A t \in publishes : /\ t.n \in Nat /\ t.n <= made.runs
                           /\ t.file # None => /\ t.file \in Nat /\ t.file <= made.runs
                                               /\ t.file # wizard.build
                           /\ t.at = "build" => wizard.build # t.n
  BY <1>5 DEF IsRun, RunOK, Key
<1>7. \A f \in files : f.n \in Nat /\ f.n <= made.runs
  BY <1>0 DEF PublishTypeOK, IsFile, RunsOK
<1>8. PublishTypeOK'
  <2>1. \A t \in publishes' : IsRun(t)
    BY <1>1, <1>3, <1>5
  <2> QED
    BY <1>0, <1>1, <1>4, <2>1 DEF PublishTypeOK
<1>9. KeysOK'
  BY <1>0, <1>1, KeysFrame DEF Publish!keyVars
<1>10. BoxesOK'
  BY <1>0, <1>1, <1>3, BoxesKept, StableWhenKept
<1>11. RunsOK'
  <2>1. ASSUME NEW t \in publishes PROVE RunOK(t)'
    <3>1. /\ wizard'.phase = "error" => t.visit # made.visits
          /\ t.file # None => t.file # wizard'.build
          /\ t.at = "build" => wizard'.build # t.n
      BY <1>2, <1>4, <1>5, <1>6, PublishKnown
    <3>2. made.runs <= made'.runs
      BY <1>1, <1>2
    <3> QED
      BY <1>1, <1>5, <3>1, <3>2, OtherRun
  <2>2. RunOK(x)'
    <3>1. k # None => k <= made'.runs
      BY <1>0, <1>1, <1>2 DEF RunsOK, Key
    <3>2. wizard'.shown
      BY <1>0, <1>1, <1>4 DEF RunsOK
    <3> QED
      BY <1>1, <1>2, <1>3, <1>4, <1>7, <3>1, <3>2, PublishKnown DEF RunOK
  <2>3. ASSUME NEW t \in publishes PROVE Apart(x, t) /\ Apart(t, x)
    <3>1. x.n # t.n /\ x.visit # t.visit /\ (t.file # None => t.file # made.runs + 1)
      BY <1>2, <1>3, <1>5, <1>6
    <3> QED
      BY <1>2, <1>3, <1>6, <3>1, PublishKnown DEF Apart
  <2>4. \A y, z \in publishes' : y # z => Apart(y, z)
    BY <1>0, <1>1, <2>3 DEF RunsOK
  <2>5. \A f \in files' : f.n <= made'.runs
    BY <1>1, <1>2, <1>7
  <2>6. wizard'.build # None => wizard'.build <= made'.runs
    BY <1>0, <1>1, <1>2, <1>4 DEF RunsOK, Key
  <2>7. \A t \in publishes' : RunOK(t)'
    BY <1>1, <2>1, <2>2
  <2>8. wizard'.shown
    BY <1>0, <1>1, <1>4 DEF RunsOK
  <2> QED
    BY <2>4, <2>5, <2>6, <2>7, <2>8 DEF RunsOK
<1>12. VisitsOK'
  <2>1. ASSUME NEW b \in DOMAIN boxes PROVE ReadyOK(b)'
    <3>1. ReadyOK(b)
      BY <1>0 DEF VisitsOK
    <3> QED
      BY <1>1, <1>3, <1>4, <3>1 DEF ReadyOK
  <2>2. \A b \in DOMAIN boxes' : boxes'[b].visit <= made'.visits /\ ReadyOK(b)'
    BY <1>0, <1>1, <2>1 DEF VisitsOK
  <2>3. wizard'.phase \in {"upload", "error"} /\ wizard'.build # None =>
          (\E f \in files' : f.n = wizard'.build) \/ made'.visits \in made'.spoilt
    BY <1>0, <1>1, <1>2, <1>4 DEF VisitsOK
  <2> QED
    BY <1>4, <2>2, <2>3 DEF VisitsOK
<1> QED
  BY <1>8, <1>9, <1>10, <1>11, <1>12 DEF PublishInv

(* The other runs, when one run takes a step.                              *)
LEMMA OthersKept ==
  ASSUME PublishTypeOK, RunsOK, NEW r \in publishes,
         IsMade(made'), made.runs = made'.runs, made'.visits = made.visits,
         \/ /\ wizard'.shown = wizard.shown /\ wizard'.phase = wizard.phase
            /\ wizard'.build = wizard.build
         \/ /\ r.live
            /\ \/ wizard'.build = wizard.build \/ wizard'.build = None
               \/ r.at = "build" /\ wizard'.build = r.n,
         \A f \in files' : f \in files \/ (r.at = "build" /\ f.n = r.n),
         \A f \in files : f \in files' \/ (r.file # None /\ f.n = r.file),
         \A c \in DOMAIN boxes : /\ c \in DOMAIN boxes' /\ boxes'[c].visit = boxes[c].visit
                                 /\ boxes[c].status = "ready" => boxes'[c].status = "ready"
  PROVE  \A t \in publishes \ {r} : IsRun(t) /\ RunOK(t)'
<1>1. SUFFICES ASSUME NEW t \in publishes, t # r PROVE IsRun(t) /\ RunOK(t)'
  OBVIOUS
<1>2. /\ IsRun(t) /\ RunOK(t) /\ Apart(r, t) /\ Apart(t, r) /\ IsMade(made)
      /\ t.n \in Nat /\ made.runs \in Nat
  <2>1. IsRun(t) /\ RunOK(t) /\ Apart(r, t) /\ Apart(t, r) /\ IsMade(made)
    BY <1>1 DEF PublishTypeOK, RunsOK
  <2> QED
    BY <2>1 DEF IsRun, IsMade
<1>3. \/ /\ wizard'.shown = wizard.shown /\ wizard'.phase = wizard.phase
         /\ wizard'.build = wizard.build
      \/ /\ ~t.live
         /\ wizard'.phase = "error" => t.visit # made.visits
         /\ t.file # None => t.file # wizard'.build
         /\ t.at = "build" => wizard'.build # t.n
  <2>1. CASE r.live /\ (\/ wizard'.build = wizard.build \/ wizard'.build = None
                        \/ r.at = "build" /\ wizard'.build = r.n)
    <3>1. ~t.live /\ t.visit # made.visits
      BY <1>1, <2>1, OthersHidden
    <3>2. t.file # None => t.file # wizard'.build
      BY <1>2, <2>1, <3>1 DEF RunOK, Apart
    <3>3. t.at = "build" => wizard'.build # t.n
      BY <1>2, <2>1, PublishKnown DEF RunOK, Apart
    <3> QED
      BY <3>1, <3>2, <3>3
  <2> QED
    BY <2>1
<1>4. t.at = "build" => \A f \in files' : f \in files \/ f.n # t.n
  BY <1>2 DEF Apart
<1>5. \A f \in files : f \in files' \/ f.n # t.file
  BY <1>2 DEF Apart
<1> QED
  BY <1>2, <1>3, <1>4, <1>5, OtherRun

(* A run that goes on is still apart from the others.                      *)
LEMMA RunMoved ==
  ASSUME RunsOK, NEW r \in publishes, NEW x,
         publishes' \subseteq (publishes \ {r}) \cup {x},
         x \in publishes' => /\ x.n = r.n /\ x.visit = r.visit /\ x.at # "build"
                             /\ x.file = r.file \/ (r.at = "build" /\ x.file = r.n)
                             /\ RunOK(x)',
         \A t \in publishes \ {r} : RunOK(t)',
         \A f \in files' : f.n <= made'.runs,
         wizard'.build # None => wizard'.build <= made'.runs,
         wizard'.shown \/ wizard'.phase = "idle"
  PROVE  RunsOK'
<1>1. \A y, z \in publishes' : y # z => Apart(y, z)
  BY ApartMoved
<1>2. \A t \in publishes' : RunOK(t)'
  OBVIOUS
<1> QED
  BY <1>1, <1>2 DEF RunsOK

(* The owner's key, found or made.                                         *)
LEMMA KeyedKeeps ==
  ASSUME PublishTypeOK, KeysOK, NEW answered, NEW k \in 1 .. MaxKeys, Publish!Keyed(answered, k),
         UNCHANGED <<registered, setups>>
  PROVE  /\ KeysOK' /\ Stable /\ keychain'[Publisher] = k /\ k \in Nat /\ k \in Key /\ k # None
         /\ keychain' \in [Devices -> Key]
         /\ IsMade(made') /\ made'.runs = made.runs /\ made'.visits = made.visits
         /\ made'.done = made.done /\ made'.spoilt = made.spoilt
<1>1. /\ k \in Nat /\ k # None /\ k \in Key /\ IsMade(made) /\ Publisher \in Devices
      /\ keychain \in [Devices -> Key]
  <2>1. k \in Nat
    OBVIOUS
  <2> QED
    BY <2>1, PublishKnown DEF PublishTypeOK, Key
<1>2. CASE k = keychain[Publisher] /\ UNCHANGED <<keychain, made>>
  BY <1>1, <1>2, KeysFrame, StableWhenKept DEF Publish!keyVars
<1>3. CASE /\ k = made.keys + 1 /\ keychain' = [keychain EXCEPT ![Publisher] = k]
           /\ made' = [made EXCEPT !.keys = k, !.crossed = Publish!Crossed(Publisher)]
  <2>1. PICK c : c = Publish!Crossed(Publisher)
    OBVIOUS
  <2>2. made' = [made EXCEPT !.keys = k, !.crossed = c]
    BY <1>3, <2>1
  <2>3. /\ IsMade(made') /\ made'.runs = made.runs /\ made'.visits = made.visits
        /\ made'.done = made.done /\ made'.spoilt = made.spoilt
        /\ made'.crossed = Publish!Crossed(Publisher)
    BY <1>1, <2>1, <2>2 DEF IsMade
  <2>4. KeysOK' /\ Stable
    BY <1>1, <1>3, <2>3, KeyMakes
  <2> QED
    BY <1>1, <1>3, <2>3, <2>4
<1> QED
  BY <1>2, <1>3 DEF Publish!Keyed

(* The step Built keeps the invariant.                                     *)
LEMMA BuiltKeeps ==
  ASSUME PublishInv, NEW r, NEW answered, Publish!Built(r, answered) PROVE PublishInv'
<1>0. PublishTypeOK /\ KeysOK /\ BoxesOK /\ RunsOK /\ VisitsOK
  BY DEF PublishInv
<1>1. /\ r \in publishes /\ r.at = "build" /\ IsRun(r) /\ RunOK(r) /\ IsMade(made)
      /\ IsWizard(wizard) /\ UNCHANGED <<registered, setups, boxes>>
  BY <1>0 DEF Publish!Built, PublishTypeOK, RunsOK
<1>3. PICK k \in 1 .. MaxKeys : /\ Publish!Keyed(answered, k)
                                /\ files' = files \cup {[n |-> r.n, key |-> k]}
  BY DEF Publish!Built
<1>5. /\ KeysOK' /\ Stable /\ keychain'[Publisher] = k /\ k \in Nat /\ k \in Key /\ k # None
      /\ keychain' \in [Devices -> Key]
      /\ IsMade(made') /\ made'.runs = made.runs /\ made'.visits = made.visits
      /\ made'.done = made.done /\ made'.spoilt = made.spoilt
  BY <1>0, <1>1, <1>3, KeyedKeeps
<1>2. r.n \in Nat /\ r.n \in Key /\ k \in Nat /\ k \in Key /\ k # None /\ made.runs \in Nat
  BY <1>1, <1>5, PublishKnown DEF IsRun, IsMade, Key
<1>4. /\ IsMade(made') /\ made'.runs = made.runs /\ made'.visits = made.visits
      /\ made'.done = made.done /\ made'.spoilt = made.spoilt
  BY <1>5
<1>b. PICK x : x = [r EXCEPT !.at = "create", !.file = r.n]
  OBVIOUS
<1>6. /\ IsRun(x) /\ x.n = r.n /\ x.at = "create" /\ x.file = r.n /\ x.visit = r.visit
      /\ x.live = r.live
  BY <1>1, <1>2, <1>b DEF IsRun, Key
<1>7. /\ publishes' \subseteq (publishes \ {r}) \cup {x}
      /\ x \in publishes' => r.live \/ x \in publishes \ {r}
  BY <1>b DEF Publish!Built
<1>8. /\ r.live => /\ IsWizard(wizard') /\ wizard'.shown = wizard.shown
                   /\ wizard'.phase = "upload" /\ wizard'.build = r.n
      /\ ~r.live => wizard' = wizard
  <2>1. ASSUME r.live
        PROVE  /\ IsWizard(wizard') /\ wizard'.shown = wizard.shown
               /\ wizard'.phase = "upload" /\ wizard'.build = r.n
    <3>1. wizard' = [wizard EXCEPT !.phase = "upload", !.build = r.n]
      BY <2>1 DEF Publish!Built
    <3> QED
      BY <1>1, <1>2, <3>1 DEF IsWizard
  <2> QED
    BY <2>1 DEF Publish!Built
<1>9. PublishTypeOK'
  <2>1. \A t \in publishes' : IsRun(t)
    BY <1>0, <1>6, <1>7 DEF PublishTypeOK
  <2>2. \A f \in files' : IsFile(f)
    BY <1>0, <1>2, <1>3 DEF PublishTypeOK, IsFile
  <2>3. keychain' \in [Devices -> Key]
    BY <1>5
  <2> QED
    BY <1>0, <1>1, <1>4, <1>8, <2>1, <2>2, <2>3 DEF PublishTypeOK
<1>10. BoxesOK'
  <2>1. \A f \in files' : f \in files \/ (f.key # None /\ f.key = keychain'[Publisher])
    BY <1>2, <1>3, <1>5
  <2>2. \A t \in publishes' : t.at \in {"upload", "finalize"} =>
          \E y \in publishes : y.at = t.at /\ y.sealed = t.sealed /\ y.box = t.box
    BY <1>6, <1>7
  <2> QED
    BY <1>0, <1>1, <1>5, <2>1, <2>2, BoxesKept
<1>11. RunsOK'
  <2>1. \A t \in publishes \ {r} : RunOK(t)'
    BY <1>0, <1>1, <1>3, <1>4, <1>8, OthersKept
  <2>2. ASSUME x \in publishes' PROVE RunOK(x)'
    <3>1. CASE x \in publishes \ {r}
      BY <2>1, <3>1
    <3>2. CASE r.live
      <4>1. /\ x.n <= made'.runs /\ x.visit <= made'.visits /\ x.visit = made'.visits
            /\ wizard'.shown
        BY <1>1, <1>4, <1>6, <1>8, <3>2 DEF RunOK
      <4> QED
        BY <1>2, <1>6, <1>8, <3>2, <4>1, PublishKnown DEF RunOK
    <3> QED
      BY <1>7, <2>2, <3>1, <3>2
  <2>3. /\ \A f \in files' : f.n <= made'.runs
        /\ wizard'.build # None => wizard'.build <= made'.runs
        /\ wizard'.shown \/ wizard'.phase = "idle"
    BY <1>0, <1>1, <1>3, <1>4, <1>8 DEF RunsOK, RunOK
  <2> QED
    BY <1>0, <1>1, <1>6, <1>7, <2>1, <2>2, <2>3, RunMoved
<1>12. VisitsOK'
  <2>1. \A b \in DOMAIN boxes' : boxes'[b].visit <= made'.visits /\ ReadyOK(b)'
    <3>1. \A t \in publishes' : \E y \in publishes :
            /\ t.visit = y.visit
            /\ y.at \in {"unlink", "grant"} => t.at \in {"unlink", "grant"}
      BY <1>1, <1>6, <1>7
    <3>2. \A b \in DOMAIN boxes' : boxes'[b].visit <= made.visits
      BY <1>0, <1>1 DEF VisitsOK
    <3> QED
      BY <1>0, <1>1, <1>4, <1>8, <3>1, <3>2, ReadyKept
  <2>2. wizard'.phase = "done" =>
          \E b \in DOMAIN boxes' : boxes'[b].visit = made'.visits /\ boxes'[b].status = "ready"
    BY <1>0, <1>1, <1>4, <1>8 DEF VisitsOK
  <2>3. wizard'.phase \in {"upload", "error"} /\ wizard'.build # None =>
          (\E f \in files' : f.n = wizard'.build) \/ made'.visits \in made'.spoilt
    <3>1. CASE r.live
      <4>1. PICK f : f = [n |-> r.n, key |-> k]
        OBVIOUS
      <4>2. f \in files' /\ f.n = r.n
        BY <1>3, <4>1
      <4> QED
        BY <1>8, <3>1, <4>2
    <3>2. CASE ~r.live
      BY <1>0, <1>3, <1>4, <1>8, <3>2 DEF VisitsOK
    <3> QED
      BY <3>1, <3>2
  <2> QED
    BY <2>1, <2>2, <2>3 DEF VisitsOK
<1> QED
  BY <1>5, <1>9, <1>10, <1>11, <1>12 DEF PublishInv

(* A run that fails ends.                                                  *)
LEMMA FailsKeeps ==
  ASSUME PublishInv, NEW r \in publishes, publishes' = publishes \ {r},
         r.at \in {"build", "create", "seal", "upload", "finalize", "unlink"},
         wizard' = Publish!Shows(r, "error"), UNCHANGED <<registered, boxes>>,
         setups' = setups, keychain' \in [Devices -> Key], KeysOK', Stable,
         r.at # "unlink" => UNCHANGED files,
         files' \subseteq files, \A f \in files : f \in files' \/ f.n = r.file,
         IsMade(made'), made'.runs = made.runs, made'.visits = made.visits,
         made.spoilt \subseteq made'.spoilt, r.at = "unlink" => r.visit \in made'.spoilt
  PROVE  PublishInv'
<1>0. PublishTypeOK /\ KeysOK /\ BoxesOK /\ RunsOK /\ VisitsOK
  BY DEF PublishInv
<1>1. /\ IsRun(r) /\ RunOK(r) /\ IsMade(made) /\ IsWizard(wizard)
  BY <1>0 DEF PublishTypeOK, RunsOK
<1>4. /\ r.live => /\ IsWizard(wizard') /\ wizard'.shown = wizard.shown
                   /\ wizard'.phase = "error" /\ wizard'.build = wizard.build
      /\ ~r.live => wizard' = wizard
      /\ IsWizard(wizard') /\ wizard'.build = wizard.build /\ wizard'.shown = wizard.shown
  <2>1. wizard' = IF r.live THEN [wizard EXCEPT !.phase = "error"] ELSE wizard
    BY DEF Publish!Shows
  <2> QED
    BY <1>1, <2>1 DEF IsWizard
<1>5. files' \subseteq files /\ \A f \in files : f \in files' \/ (r.file # None /\ f.n = r.file)
  BY <1>1 DEF RunOK
<1>6. PublishTypeOK'
  BY <1>0, <1>1, <1>4, <1>5 DEF PublishTypeOK
<1>8. BoxesOK'
  BY <1>0, <1>1, <1>5, BoxesKept
<1>9. RunsOK'
  <2>1. \A t \in publishes \ {r} : RunOK(t)'
    BY <1>0, <1>1, <1>4, <1>5, OthersKept
  <2>2. \A y, z \in publishes' : y # z => Apart(y, z)
    BY <1>0, <1>1 DEF RunsOK
  <2>3. /\ \A f \in files' : f.n <= made'.runs
        /\ wizard'.build # None => wizard'.build <= made'.runs
        /\ wizard'.shown \/ wizard'.phase = "idle"
    BY <1>0, <1>1, <1>4, <1>5 DEF RunsOK, RunOK
  <2> QED
    BY <1>1, <2>1, <2>2, <2>3 DEF RunsOK
<1>10. VisitsOK'
  <2>1. \A b \in DOMAIN boxes' : boxes'[b].visit <= made'.visits /\ ReadyOK(b)'
    <3>1. ASSUME r.live, NEW b \in DOMAIN boxes, boxes[b].status = "ready",
                 boxes[b].visit = made.visits
          PROVE  boxes[b].visit \in made'.spoilt
      <4>1. ReadyOK(b) /\ r.visit = made.visits
        BY <1>0, <1>1, <3>1 DEF VisitsOK, RunOK
      <4>2. boxes[b].visit \in made.spoilt \/ r.at = "unlink"
        BY <1>1, <3>1, <4>1 DEF ReadyOK
      <4> QED
        BY <3>1, <4>1, <4>2
    <3>2. \A b \in DOMAIN boxes' : boxes'[b].visit <= made.visits
      BY <1>0, <1>1 DEF VisitsOK
    <3> QED
      BY <1>0, <1>1, <1>4, <3>1, <3>2, ReadyKept
  <2>2. wizard'.phase = "done" =>
          \E b \in DOMAIN boxes' : boxes'[b].visit = made'.visits /\ boxes'[b].status = "ready"
    BY <1>0, <1>1, <1>4 DEF VisitsOK
  <2>3. wizard'.phase \in {"upload", "error"} /\ wizard'.build # None =>
          (\E f \in files' : f.n = wizard'.build) \/ made'.visits \in made'.spoilt
    <3>1. CASE r.live
      <4>1. r.at # "build" => wizard.phase = "upload"
        BY <1>1, <3>1 DEF RunOK
      <4>2. r.at = "build" => wizard.build = None
        BY <1>1, <3>1 DEF RunOK
      <4>3. r.visit = made.visits
        BY <1>1, <3>1 DEF RunOK
      <4> QED
        BY <1>0, <1>1, <1>4, <4>1, <4>2, <4>3 DEF VisitsOK
    <3>2. CASE ~r.live
      <4>1. r.file # None => r.file # wizard.build
        BY <1>1, <3>2 DEF RunOK
      <4> QED
        BY <1>0, <1>4, <1>5, <3>2, <4>1 DEF VisitsOK
    <3> QED
      BY <3>1, <3>2
  <2> QED
    BY <2>1, <2>2, <2>3 DEF VisitsOK
<1> QED
  BY <1>6, <1>8, <1>9, <1>10 DEF PublishInv

(* The step Refused keeps the invariant.                                   *)
LEMMA RefusedKeeps ==
  ASSUME PublishInv, NEW r, Publish!Refused(r) PROVE PublishInv'
<1>0. PublishTypeOK /\ KeysOK /\ BoxesOK /\ RunsOK /\ VisitsOK
  BY DEF PublishInv
<1>1. /\ r \in publishes /\ IsRun(r) /\ RunOK(r) /\ IsMade(made) /\ IsWizard(wizard)
      /\ r.at \in {"build", "create", "seal", "upload", "finalize", "unlink"}
      /\ UNCHANGED <<keychain, registered, setups, boxes>> /\ publishes' = publishes \ {r}
  BY <1>0 DEF Publish!Refused, PublishTypeOK, RunsOK, Publish!keyVars
<1>2. /\ r.at = "unlink" =>
           /\ made' = [made EXCEPT !.spoilt = @ \cup {r.visit}]
           /\ files' \subseteq files /\ \A f \in files : f \in files' \/ f.n = r.file
      /\ r.at # "unlink" => UNCHANGED <<made, files>>
  BY DEF Publish!Refused
<1>3. /\ IsMade(made') /\ made'.runs = made.runs /\ made'.visits = made.visits
      /\ made'.done = made.done /\ made'.crossed = made.crossed
      /\ made.spoilt \subseteq made'.spoilt
      /\ r.at = "unlink" => r.visit \in made'.spoilt
  <2>1. CASE r.at = "unlink"
    BY <1>1, <1>2, <2>1 DEF IsMade
  <2>2. CASE r.at # "unlink"
    BY <1>1, <1>2, <2>2
  <2> QED
    BY <2>1, <2>2
<1>4. files' \subseteq files /\ \A f \in files : f \in files' \/ f.n = r.file
  BY <1>2
<1>5. KeysOK' /\ Stable /\ keychain' \in [Devices -> Key]
  BY <1>0, <1>1, <1>3, KeysFrame, StableWhenKept DEF Publish!keyVars, PublishTypeOK
<1>6. wizard' = Publish!Shows(r, "error")
  BY DEF Publish!Refused
<1> QED
  BY <1>1, <1>2, <1>3, <1>4, <1>5, <1>6, FailsKeeps

(* The step KeyNotReadBack keeps the invariant.                            *)
LEMMA KeyNotReadBackKeeps ==
  ASSUME PublishInv, NEW r, Publish!KeyNotReadBack(r) PROVE PublishInv'
<1>0. PublishTypeOK /\ KeysOK
  BY DEF PublishInv
<1>1. /\ r \in publishes /\ r.at = "build" /\ publishes' = publishes \ {r}
      /\ wizard' = Publish!Shows(r, "error") /\ UNCHANGED <<registered, setups, files, boxes>>
  BY DEF Publish!KeyNotReadBack
<1>2. PICK k \in 1 .. MaxKeys : Publish!Keyed(FALSE, k)
  BY DEF Publish!KeyNotReadBack
<1>3. /\ KeysOK' /\ Stable /\ keychain' \in [Devices -> Key]
      /\ IsMade(made') /\ made'.runs = made.runs /\ made'.visits = made.visits
      /\ made'.spoilt = made.spoilt
  BY <1>0, <1>1, <1>2, KeyedKeeps
<1> QED
  BY <1>1, <1>3, FailsKeeps

-----------------------------------------------------------------------------
(* The steps of sandbox.publish.                                           *)

(* The step Created keeps the invariant.                                   *)
LEMMA CreatedKeeps ==
  ASSUME PublishInv, NEW r, Publish!Created(r) PROVE PublishInv'
<1>0. PublishTypeOK /\ KeysOK /\ BoxesOK /\ RunsOK /\ VisitsOK
  BY DEF PublishInv
<1>a. PICK y : y = [status |-> "created", blob |-> None, visit |-> r.visit, mode |-> r.mode,
                    envelopes |-> <<>>]
  OBVIOUS
<1>b. PICK l : l = Len(boxes) + 1
  OBVIOUS
<1>c. PICK x : x = [r EXCEPT !.at = "seal", !.box = l]
  OBVIOUS
<1>1. /\ r \in publishes /\ r.at = "create" /\ IsRun(r) /\ RunOK(r) /\ IsMade(made)
      /\ UNCHANGED <<keychain, registered, setups, wizard, files, made>>
      /\ \E f \in files : f.n = r.file
  <2>1. [n |-> r.file, key |-> keychain[Publisher]] \in files
    BY DEF Publish!Created
  <2>2. \E f \in files : f.n = r.file
    <3>1. PICK f : f = [n |-> r.file, key |-> keychain[Publisher]]
      OBVIOUS
    <3> QED
      BY <2>1, <3>1
  <2> QED
    BY <1>0, <2>2 DEF Publish!Created, PublishTypeOK, RunsOK, Publish!keyVars
<1>2. boxes' = Append(boxes, y)
  BY <1>a DEF Publish!Created
<1>3. /\ \E S : boxes' \in Seq(S)
      /\ \A b \in DOMAIN boxes : b \in DOMAIN boxes' /\ boxes'[b] = boxes[b]
      /\ \A b \in DOMAIN boxes' : b \in DOMAIN boxes \/ b = l
      /\ l \in DOMAIN boxes' /\ boxes'[l] = y /\ l \notin DOMAIN boxes /\ Len(boxes') = l
  <2>1. \E S : boxes \in Seq(S)
    BY <1>0 DEF PublishTypeOK
  <2>2. /\ \E S : Append(boxes, y) \in Seq(S)
        /\ Len(boxes) \in Nat /\ Len(Append(boxes, y)) = Len(boxes) + 1 /\ Len(boxes) + 1 \in Nat
        /\ DOMAIN boxes = 1 .. Len(boxes) /\ DOMAIN Append(boxes, y) = 1 .. Len(boxes) + 1
        /\ \A b \in DOMAIN boxes : b \in DOMAIN Append(boxes, y) /\ Append(boxes, y)[b] = boxes[b]
        /\ Append(boxes, y)[Len(boxes) + 1] = y /\ Len(boxes) + 1 \notin DOMAIN boxes
        /\ Len(boxes) + 1 \in DOMAIN Append(boxes, y)
    BY <2>1, BoxAppended
  <2>3. \A b \in 1 .. Len(boxes) + 1 : b \in 1 .. Len(boxes) \/ b = Len(boxes) + 1
    BY <2>2
  <2> QED
    BY <1>b, <1>2, <2>2, <2>3
<1>4. /\ IsBox(y) /\ y.status = "created" /\ y.visit = r.visit
  BY <1>1, <1>a DEF IsBox, IsRun
<1>5. /\ IsRun(x) /\ x.n = r.n /\ x.at = "seal" /\ x.file = r.file /\ x.box = l
      /\ x.visit = r.visit /\ x.live = r.live
  BY <1>1, <1>c DEF IsRun
<1>6. publishes' = (publishes \ {r}) \cup {x}
  BY <1>c, <1>3 DEF Publish!Created
<1>7. PublishTypeOK'
  <2>1. \A t \in publishes' : IsRun(t)
    BY <1>0, <1>5, <1>6 DEF PublishTypeOK
  <2>2. \A b \in DOMAIN boxes' : IsBox(boxes'[b])
    BY <1>0, <1>3, <1>4 DEF PublishTypeOK
  <2> QED
    BY <1>0, <1>1, <1>3, <2>1, <2>2 DEF PublishTypeOK
<1>8. KeysOK'
  BY <1>0, <1>1, KeysFrame DEF Publish!keyVars
<1>9. BoxesOK'
  <2>1. \A t \in publishes' : t.at \in {"upload", "finalize"} =>
          \E z \in publishes : z.at = t.at /\ z.sealed = t.sealed /\ z.box = t.box
    BY <1>5, <1>6
  <2>2. \A t \in publishes : t.at = "finalize" => boxes'[t.box].blob = boxes[t.box].blob
    BY <1>0, <1>3 DEF RunsOK, RunOK
  <2>3. \A b \in DOMAIN boxes' : boxes'[b].status = "ready" =>
          /\ b \in DOMAIN boxes /\ boxes[b].status = "ready"
          /\ boxes'[b].envelopes = boxes[b].envelopes /\ boxes'[b].blob = boxes[b].blob
    BY <1>3, <1>4
  <2>4. Stable
    BY <1>1, StableWhenKept
  <2> QED
    BY <1>0, <1>1, <2>1, <2>2, <2>3, <2>4, BoxesKept
<1>10. RunsOK'
  <2>1. \A t \in publishes \ {r} : RunOK(t)'
    BY <1>0, <1>1, <1>3, OthersKept
  <2>2. RunOK(x)'
    BY <1>1, <1>3, <1>4, <1>5 DEF RunOK
  <2>3. /\ \A f \in files' : f.n <= made'.runs
        /\ wizard'.build # None => wizard'.build <= made'.runs
        /\ wizard'.shown \/ wizard'.phase = "idle"
    BY <1>0, <1>1 DEF RunsOK
  <2> QED
    BY <1>0, <1>1, <1>5, <1>6, <2>1, <2>2, <2>3, RunMoved
<1>11. VisitsOK'
  <2>1. \A b \in DOMAIN boxes' : boxes'[b].visit <= made'.visits /\ ReadyOK(b)'
    <3>1. \A t \in publishes' : \E z \in publishes :
            /\ t.visit = z.visit
            /\ z.at \in {"unlink", "grant"} => t.at \in {"unlink", "grant"}
      BY <1>1, <1>5, <1>6
    <3>2. \A b \in DOMAIN boxes' :
            /\ boxes'[b].visit <= made.visits
            /\ boxes'[b].status = "ready" => /\ b \in DOMAIN boxes /\ boxes[b].status = "ready"
                                             /\ boxes'[b].visit = boxes[b].visit
      BY <1>0, <1>1, <1>3, <1>4 DEF VisitsOK, RunOK
    <3> QED
      BY <1>0, <1>1, <3>1, <3>2, ReadyKept
  <2>2. wizard'.phase = "done" =>
          \E b \in DOMAIN boxes' : boxes'[b].visit = made'.visits /\ boxes'[b].status = "ready"
    BY <1>0, <1>1, <1>3 DEF VisitsOK
  <2> QED
    BY <1>0, <1>1, <2>1, <2>2 DEF VisitsOK
<1> QED
  BY <1>7, <1>8, <1>9, <1>10, <1>11 DEF PublishInv

(* The key a file is sealed to.                                            *)
LEMMA FileKey ==
  ASSUME PublishInv, NEW r \in publishes, r.at \in {"seal", "upload"},
           Publish!Owner \notin made.crossed
  PROVE  /\ (CHOOSE f \in files : f.n = r.file).key = keychain[Publisher]
         /\ keychain[Publisher] \in Nat /\ keychain[Publisher] # None
<1>1. \E f \in files : f.n = r.file
  BY DEF PublishInv, RunsOK, RunOK
<1>2. PICK g : g = CHOOSE f \in files : f.n = r.file
  OBVIOUS
<1>3. g \in files
  BY <1>1, <1>2
<1>4. g.key # None /\ g.key = keychain[Publisher]
  BY <1>3 DEF PublishInv, BoxesOK
<1>5. keychain[Publisher] \in Key
  BY PublishKnown DEF PublishInv, PublishTypeOK
<1> QED
  BY <1>2, <1>4, <1>5 DEF Key

(* The step Sealed keeps the invariant.                                    *)
LEMMA SealedKeeps ==
  ASSUME PublishInv, NEW r, Publish!Sealed(r) PROVE PublishInv'
<1>0. PublishTypeOK /\ KeysOK /\ BoxesOK /\ RunsOK /\ VisitsOK
  BY DEF PublishInv
<1> DEFINE K == (CHOOSE f \in files : f.n = r.file).key
           E == [u \in Members \cup {Publish!Owner} |-> Publish!SealedFor(u, K, r.box)]
<1>c. publishes' = (publishes \ {r}) \cup {[r EXCEPT !.at = "upload", !.sealed = E]}
  BY DEF Publish!Sealed
<1>d. PICK key : key = K
  OBVIOUS
<1>e. PICK e : e = E
  OBVIOUS
<1>a. key = K /\ e = [u \in Members \cup {Publish!Owner} |-> Publish!SealedFor(u, key, r.box)]
  BY <1>d, <1>e
<1> HIDE DEF E
<1>b. PICK x : x = [r EXCEPT !.at = "upload", !.sealed = e]
  OBVIOUS
<1>1. /\ r \in publishes /\ r.at = "seal" /\ IsRun(r) /\ RunOK(r) /\ IsMade(made)
      /\ UNCHANGED <<keychain, registered, setups, wizard, files, boxes, made>>
      /\ \A u \in Members : registered[u] # None
  BY <1>0 DEF Publish!Sealed, PublishTypeOK, RunsOK, Publish!keyVars
<1>2. publishes' = (publishes \ {r}) \cup {x}
  BY <1>b, <1>c, <1>e
<1>3. /\ IsRun(x) /\ x.n = r.n /\ x.at = "upload" /\ x.file = r.file /\ x.box = r.box
      /\ x.visit = r.visit /\ x.live = r.live /\ x.sealed = e
  BY <1>1, <1>b DEF IsRun
<1>4. Publish!Owner \notin made.crossed => SealedOK(e, r.box)
  <2>1. SUFFICES ASSUME Publish!Owner \notin made.crossed PROVE SealedOK(e, r.box)
    OBVIOUS
  <2>2. key = keychain[Publisher] /\ key \in Nat /\ key # None
    BY <1>1, <1>a, <2>1, FileKey
  <2>3. ASSUME NEW u \in (Members \cup {Publish!Owner}) \ made.crossed
        PROVE  SealedTo(e, r.box, u)
    <3>1. u \in DOMAIN e /\ e[u] = Publish!Envelope(key,
            IF u = Publish!Owner THEN key ELSE registered[u], Publish!AadOf(r.box, key))
      BY <1>a DEF Publish!SealedFor
    <3>2. CASE u = Publish!Owner
      <4>1. Holds(u, key)
        BY <2>2, <3>2, PublishKnown DEF Holds, Publish!Owner
      <4> QED
        BY <2>2, <3>1, <3>2, <4>1 DEF SealedTo
    <3>3. CASE u # Publish!Owner
      <4>1. u \in Publish!Accounts /\ registered[u] # None /\ OneKey(u)
        BY <1>0, <1>1, <3>3, PublishKnown DEF KeysOK
      <4>2. Holds(u, registered[u]) /\ registered[u] \in Nat
        BY <1>0, <4>1 DEF OneKey, Holds, PublishTypeOK, Key
      <4> QED
        BY <2>2, <3>1, <3>3, <4>2 DEF SealedTo
    <3> QED
      BY <3>2, <3>3
  <2> QED
    BY <2>2, <2>3 DEF SealedOK
<1>5. PublishTypeOK'
  <2>1. \A t \in publishes' : IsRun(t)
    BY <1>0, <1>2, <1>3 DEF PublishTypeOK
  <2> QED
    BY <1>0, <1>1, <2>1 DEF PublishTypeOK
<1>6. KeysOK'
  BY <1>0, <1>1, KeysFrame DEF Publish!keyVars
<1>7. BoxesOK'
  <2>1. Stable
    BY <1>1, StableWhenKept
  <2>2. Publish!Owner \notin made'.crossed => SealedOK(x.sealed, x.box)'
    <3>1. PICK b : b = r.box
      OBVIOUS
    <3>2. Publish!Owner \notin made'.crossed => SealedOK(e, b)'
      BY <1>1, <1>4, <2>1, <3>1, SealedKept
    <3> QED
      BY <1>3, <3>1, <3>2
  <2>3. ASSUME NEW t \in publishes', t.at \in {"upload", "finalize"}
        PROVE  \/ \E z \in publishes : z.at = t.at /\ z.sealed = t.sealed /\ z.box = t.box
               \/ Publish!Owner \in made'.crossed
               \/ /\ SealedOK(t.sealed, t.box)'
                  /\ t.at = "finalize" => boxes'[t.box].blob = Publish!AadOf(t.box,
                       keychain'[Publisher])
    <3>1. CASE t = x
      BY <1>3, <2>2, <3>1
    <3>2. CASE t \in publishes
      BY <3>2
    <3> QED
      BY <1>2, <3>1, <3>2
  <2> QED
    BY <1>0, <1>1, <2>1, <2>3, BoxesKept
<1>8. RunsOK'
  <2>1. \A t \in publishes \ {r} : RunOK(t)'
    BY <1>0, <1>1, OthersKept
  <2>2. RunOK(x)'
    BY <1>1, <1>3 DEF RunOK
  <2>3. /\ \A f \in files' : f.n <= made'.runs
        /\ wizard'.build # None => wizard'.build <= made'.runs
        /\ wizard'.shown \/ wizard'.phase = "idle"
    BY <1>0, <1>1 DEF RunsOK
  <2> QED
    BY <1>0, <1>1, <1>2, <1>3, <2>1, <2>2, <2>3, RunMoved
<1>9. VisitsOK'
  <2>1. \A b \in DOMAIN boxes' : boxes'[b].visit <= made'.visits /\ ReadyOK(b)'
    <3>1. \A t \in publishes' : \E z \in publishes :
            /\ t.visit = z.visit
            /\ z.at \in {"unlink", "grant"} => t.at \in {"unlink", "grant"}
      BY <1>1, <1>2, <1>3
    <3>2. \A b \in DOMAIN boxes' : boxes'[b].visit <= made.visits
      BY <1>0, <1>1 DEF VisitsOK
    <3> QED
      BY <1>0, <1>1, <3>1, <3>2, ReadyKept
  <2> QED
    BY <1>0, <1>1, <2>1 DEF VisitsOK
<1> QED
  BY <1>5, <1>6, <1>7, <1>8, <1>9 DEF PublishInv

(* The step Uploaded keeps the invariant.                                  *)
LEMMA UploadedKeeps ==
  ASSUME PublishInv, NEW r, Publish!Uploaded(r) PROVE PublishInv'
<1>0. PublishTypeOK /\ KeysOK /\ BoxesOK /\ RunsOK /\ VisitsOK
  BY DEF PublishInv
<1>a. PICK c, j : c = r.box /\ j = Publish!AadOf(r.box, (CHOOSE f \in files : f.n = r.file).key)
  OBVIOUS
<1>b. PICK x, y : x = [r EXCEPT !.at = "finalize"] /\ y = [boxes[c] EXCEPT !.blob = j]
  OBVIOUS
<1>1. /\ r \in publishes /\ r.at = "upload" /\ IsRun(r) /\ RunOK(r) /\ IsMade(made)
      /\ UNCHANGED <<keychain, registered, setups, wizard, files, made>>
      /\ publishes' = (publishes \ {r}) \cup {x}
  BY <1>0, <1>b DEF Publish!Uploaded, Publish!Goes, PublishTypeOK, RunsOK, Publish!keyVars
<1>2. c \in DOMAIN boxes /\ boxes[c].visit = r.visit /\ IsBox(boxes[c])
  BY <1>0, <1>1, <1>a DEF RunOK, PublishTypeOK
<1>3. boxes' = [boxes EXCEPT ![c] = y]
  <2>1. boxes' = [boxes EXCEPT ![c].blob = j]
    BY <1>a DEF Publish!Uploaded
  <2> QED
    BY <1>b, <2>1
<1>4. /\ \E S : boxes' \in Seq(S)
      /\ DOMAIN boxes' = DOMAIN boxes /\ boxes'[c] = y
      /\ \A b \in DOMAIN boxes : b # c => boxes'[b] = boxes[b]
  <2>1. \E S : boxes \in Seq(S)
    BY <1>0 DEF PublishTypeOK
  <2> QED
    BY <1>2, <1>3, <2>1, BoxChanged
<1>5. /\ IsBox(y) /\ y.visit = boxes[c].visit /\ y.status = boxes[c].status /\ y.blob = j
      /\ y.envelopes = boxes[c].envelopes
  BY <1>2, <1>b DEF IsBox
<1>6. /\ IsRun(x) /\ x.n = r.n /\ x.at = "finalize" /\ x.file = r.file /\ x.box = c
      /\ x.visit = r.visit /\ x.live = r.live /\ x.sealed = r.sealed
  BY <1>1, <1>a, <1>b DEF IsRun
<1>7. PublishTypeOK'
  <2>1. \A t \in publishes' : IsRun(t)
    BY <1>0, <1>1, <1>6 DEF PublishTypeOK
  <2>2. \A b \in DOMAIN boxes' : IsBox(boxes'[b])
    BY <1>0, <1>4, <1>5 DEF PublishTypeOK
  <2> QED
    BY <1>0, <1>1, <1>4, <2>1, <2>2 DEF PublishTypeOK
<1>8. KeysOK'
  BY <1>0, <1>1, KeysFrame DEF Publish!keyVars
<1>9. BoxesOK'
  <2>1. Stable
    BY <1>1, StableWhenKept
  <2>2. Publish!Owner \notin made.crossed => j = Publish!AadOf(c, keychain[Publisher])
    BY <1>1, <1>a, FileKey
  <2>3. Publish!Owner \notin made'.crossed => SealedOK(x.sealed, x.box)'
    <3>1. PICK e : e = r.sealed
      OBVIOUS
    <3>2. Publish!Owner \notin made.crossed => SealedOK(e, c)
      BY <1>0, <1>1, <1>a, <3>1 DEF BoxesOK
    <3>3. Publish!Owner \notin made'.crossed => SealedOK(e, c)'
      BY <1>1, <2>1, <3>2, SealedKept
    <3> QED
      BY <1>6, <3>1, <3>3
  <2>4. ASSUME NEW t \in publishes', t.at \in {"upload", "finalize"}
        PROVE  \/ \E z \in publishes : z.at = t.at /\ z.sealed = t.sealed /\ z.box = t.box
               \/ Publish!Owner \in made'.crossed
               \/ /\ SealedOK(t.sealed, t.box)'
                  /\ t.at = "finalize" => boxes'[t.box].blob = Publish!AadOf(t.box,
                       keychain'[Publisher])
    <3>1. CASE t = x
      BY <1>1, <1>4, <1>5, <1>6, <2>2, <2>3, <3>1
    <3>2. CASE t \in publishes
      BY <3>2
    <3> QED
      BY <1>1, <3>1, <3>2
  <2>5. ASSUME NEW t \in publishes, t.at = "finalize"
        PROVE  \/ boxes'[t.box].blob = boxes[t.box].blob
               \/ boxes'[t.box].blob = Publish!AadOf(t.box, keychain'[Publisher])
               \/ Publish!Owner \in made'.crossed
    <3>1. t.box \in DOMAIN boxes
      BY <1>0, <2>5 DEF RunsOK, RunOK
    <3> QED
      BY <1>1, <1>4, <1>5, <2>2, <3>1
  <2>6. ASSUME NEW b \in DOMAIN boxes', boxes'[b].status = "ready"
        PROVE  \/ /\ b \in DOMAIN boxes /\ boxes[b].status = "ready"
                  /\ boxes'[b].envelopes = boxes[b].envelopes
                  /\ \/ boxes'[b].blob = boxes[b].blob
                     \/ boxes'[b].blob = Publish!AadOf(b, keychain'[Publisher])
               \/ Publish!Owner \in made'.crossed
    BY <1>1, <1>4, <1>5, <2>2, <2>6
  <2>7. \A f \in files' : f \in files
    BY <1>1
  <2> QED
    BY <1>0, <2>1, <2>4, <2>5, <2>6, <2>7, BoxesKept
<1>10. RunsOK'
  <2>1. \A t \in publishes \ {r} : RunOK(t)'
    BY <1>0, <1>1, <1>4, <1>5, OthersKept
  <2>2. RunOK(x)'
    BY <1>1, <1>2, <1>4, <1>5, <1>6 DEF RunOK
  <2>3. /\ \A f \in files' : f.n <= made'.runs
        /\ wizard'.build # None => wizard'.build <= made'.runs
        /\ wizard'.shown \/ wizard'.phase = "idle"
    BY <1>0, <1>1 DEF RunsOK
  <2> QED
    BY <1>0, <1>1, <1>6, <2>1, <2>2, <2>3, RunMoved
<1>11. VisitsOK'
  <2>1. \A b \in DOMAIN boxes' : boxes'[b].visit <= made'.visits /\ ReadyOK(b)'
    <3>1. \A t \in publishes' : \E z \in publishes :
            /\ t.visit = z.visit
            /\ z.at \in {"unlink", "grant"} => t.at \in {"unlink", "grant"}
      BY <1>1, <1>6
    <3>2. \A b \in DOMAIN boxes' :
            /\ boxes'[b].visit <= made.visits
            /\ boxes'[b].status = "ready" => /\ b \in DOMAIN boxes /\ boxes[b].status = "ready"
                                             /\ boxes'[b].visit = boxes[b].visit
      BY <1>0, <1>1, <1>4, <1>5 DEF VisitsOK
    <3> QED
      BY <1>0, <1>1, <3>1, <3>2, ReadyKept
  <2>2. wizard'.phase = "done" =>
          \E b \in DOMAIN boxes' : boxes'[b].visit = made'.visits /\ boxes'[b].status = "ready"
    BY <1>0, <1>1, <1>4, <1>5 DEF VisitsOK
  <2> QED
    BY <1>0, <1>1, <2>1, <2>2 DEF VisitsOK
<1> QED
  BY <1>7, <1>8, <1>9, <1>10, <1>11 DEF PublishInv

(* The step Finalized keeps the invariant.                                 *)
LEMMA FinalizedKeeps ==
  ASSUME PublishInv, NEW r, NEW answered \in BOOLEAN, Publish!Finalized(r,
           answered) PROVE PublishInv'
<1>0. PublishTypeOK /\ KeysOK /\ BoxesOK /\ RunsOK /\ VisitsOK
  BY DEF PublishInv
<1>a. PICK c : c = r.box
  OBVIOUS
<1>b. PICK x, y : /\ x = [r EXCEPT !.at = "unlink"]
                  /\ y = [boxes[c] EXCEPT !.status = "ready", !.envelopes = r.sealed]
  OBVIOUS
<1>1. /\ r \in publishes /\ r.at = "finalize" /\ IsRun(r) /\ RunOK(r) /\ IsMade(made)
      /\ IsWizard(wizard) /\ UNCHANGED <<keychain, registered, setups, files>>
  BY <1>0 DEF Publish!Finalized, PublishTypeOK, RunsOK, Publish!keyVars
<1>2. c \in DOMAIN boxes /\ boxes[c].visit = r.visit /\ IsBox(boxes[c])
  BY <1>0, <1>1, <1>a DEF RunOK, PublishTypeOK
<1>3. boxes' = [boxes EXCEPT ![c] = y]
  <2>1. boxes' = [boxes EXCEPT ![c].status = "ready", ![c].envelopes = r.sealed]
    BY <1>a DEF Publish!Finalized
  <2>2. \E S : boxes \in Seq(S)
    BY <1>0 DEF PublishTypeOK
  <2> QED
    BY <1>b, <1>2, <2>1, <2>2
<1>4. /\ \E S : boxes' \in Seq(S)
      /\ DOMAIN boxes' = DOMAIN boxes /\ boxes'[c] = y
      /\ \A b \in DOMAIN boxes : b # c => boxes'[b] = boxes[b]
  <2>1. \E S : boxes \in Seq(S)
    BY <1>0 DEF PublishTypeOK
  <2> QED
    BY <1>2, <1>3, <2>1, BoxChanged
<1>5. /\ IsBox(y) /\ y.visit = r.visit /\ y.status = "ready" /\ y.blob = boxes[c].blob
      /\ y.envelopes = r.sealed
  BY <1>2, <1>b DEF IsBox
<1>6. /\ IsRun(x) /\ x.n = r.n /\ x.at = "unlink" /\ x.file = r.file /\ x.box = c
      /\ x.visit = r.visit /\ x.live = r.live /\ x.sealed = r.sealed
  BY <1>1, <1>a, <1>b DEF IsRun
<1>7. /\ answered => publishes' = (publishes \ {r}) \cup {x}
      /\ ~answered => publishes' = publishes \ {r}
      /\ publishes' \subseteq (publishes \ {r}) \cup {x}
  BY <1>b DEF Publish!Finalized, Publish!Goes
<1>8. /\ IsMade(made') /\ made'.runs = made.runs /\ made'.visits = made.visits
      /\ made'.done = made.done /\ made'.crossed = made.crossed
      /\ made.spoilt \subseteq made'.spoilt
      /\ answered => made' = made
      /\ ~answered => r.visit \in made'.spoilt
  <2>1. CASE answered
    BY <1>1, <2>1 DEF Publish!Finalized
  <2>2. CASE ~answered
    <3>1. made' = [made EXCEPT !.spoilt = @ \cup {r.visit}]
      BY <2>2 DEF Publish!Finalized
    <3> QED
      BY <1>1, <2>2, <3>1 DEF IsMade
  <2> QED
    BY <2>1, <2>2
<1>9. /\ ~answered /\ r.live => wizard'.phase = "error"
      /\ answered \/ ~r.live => wizard' = wizard
      /\ IsWizard(wizard') /\ wizard'.build = wizard.build /\ wizard'.shown = wizard.shown
  <2>1. CASE answered
    BY <1>1, <2>1 DEF Publish!Finalized
  <2>2. CASE ~answered
    <3>1. wizard' = IF r.live THEN [wizard EXCEPT !.phase = "error"] ELSE wizard
      BY <2>2 DEF Publish!Finalized, Publish!Shows
    <3> QED
      BY <1>1, <2>2, <3>1 DEF IsWizard
  <2> QED
    BY <2>1, <2>2
<1>10. PublishTypeOK'
  <2>1. \A t \in publishes' : IsRun(t)
    BY <1>0, <1>6, <1>7 DEF PublishTypeOK
  <2>2. \A b \in DOMAIN boxes' : IsBox(boxes'[b])
    BY <1>0, <1>4, <1>5 DEF PublishTypeOK
  <2> QED
    BY <1>0, <1>1, <1>4, <1>8, <1>9, <2>1, <2>2 DEF PublishTypeOK
<1>11. KeysOK'
  BY <1>0, <1>1, <1>8, KeysFrame DEF Publish!keyVars
<1>12. BoxesOK'
  <2>1. Stable
    BY <1>1, <1>8, StableWhenKept
  <2>2. Publish!Owner \notin made'.crossed =>
          /\ boxes'[c].blob = Publish!AadOf(c, keychain'[Publisher])
          /\ \E e : e = boxes'[c].envelopes /\ SealedOK(e, c)'
    <3>1. PICK e : e = r.sealed
      OBVIOUS
    <3>2. Publish!Owner \notin made.crossed =>
            SealedOK(e, c) /\ boxes[c].blob = Publish!AadOf(c, keychain[Publisher])
      BY <1>0, <1>1, <1>a, <3>1 DEF BoxesOK
    <3>3. Publish!Owner \notin made'.crossed => SealedOK(e, c)'
      BY <1>8, <2>1, <3>2, SealedKept
    <3>4. e = boxes'[c].envelopes /\ boxes'[c].blob = boxes[c].blob
      BY <1>4, <1>5, <3>1
    <3> QED
      BY <1>1, <1>8, <3>2, <3>3, <3>4
  <2>3. \A t \in publishes' : t.at \in {"upload", "finalize"} =>
          \E z \in publishes : z.at = t.at /\ z.sealed = t.sealed /\ z.box = t.box
    BY <1>6, <1>7
  <2>4. \A t \in publishes : t.at = "finalize" => boxes'[t.box].blob = boxes[t.box].blob
    BY <1>0, <1>4, <1>5 DEF RunsOK, RunOK
  <2>5. ASSUME NEW b \in DOMAIN boxes', boxes'[b].status = "ready"
        PROVE  \/ /\ b \in DOMAIN boxes /\ boxes[b].status = "ready"
                  /\ boxes'[b].envelopes = boxes[b].envelopes
                  /\ boxes'[b].blob = boxes[b].blob
               \/ Publish!Owner \in made'.crossed
               \/ /\ boxes'[b].blob = Publish!AadOf(b, keychain'[Publisher])
                  /\ \E e : e = boxes'[b].envelopes /\ SealedOK(e, b)'
    <3>1. CASE b = c
      BY <2>2, <3>1
    <3>2. CASE b # c
      BY <1>4, <2>5, <3>2
    <3> QED
      BY <3>1, <3>2
  <2>6. \A f \in files' : f \in files
    BY <1>1
  <2> QED
    BY <1>0, <2>1, <2>3, <2>4, <2>5, <2>6, BoxesKept
<1>13. RunsOK'
  <2>1. \A t \in publishes \ {r} : RunOK(t)'
    BY <1>0, <1>1, <1>2, <1>4, <1>5, <1>8, <1>9, OthersKept
  <2>2. ASSUME x \in publishes' PROVE RunOK(x)'
    <3>1. CASE answered
      BY <1>1, <1>2, <1>4, <1>5, <1>6, <1>8, <1>9, <3>1 DEF RunOK
    <3>2. CASE ~answered
      BY <1>7, <2>1, <2>2, <3>2
    <3> QED
      BY <3>1, <3>2
  <2>3. /\ \A f \in files' : f.n <= made'.runs
        /\ wizard'.build # None => wizard'.build <= made'.runs
        /\ wizard'.shown \/ wizard'.phase = "idle"
    BY <1>0, <1>1, <1>8, <1>9 DEF RunsOK, RunOK
  <2> QED
    BY <1>0, <1>1, <1>6, <1>7, <2>1, <2>2, <2>3, RunMoved
<1>14. VisitsOK'
  <2>1. ASSUME NEW b \in DOMAIN boxes', boxes'[b].status = "ready",
                 boxes'[b].visit \notin made'.spoilt
        PROVE  /\ \A d \in DOMAIN boxes' :
                    boxes'[d].status = "ready" /\ boxes'[d].visit = boxes'[b].visit => d = b
               /\ \A t \in publishes' : t.visit = boxes'[b].visit => t.at \in {"unlink", "grant"}
               /\ wizard'.phase = "error" => boxes'[b].visit # made'.visits
    <3>1. \A d \in DOMAIN boxes : boxes[d].status = "ready" /\ boxes[d].visit \notin made.spoilt =>
            boxes[d].visit # r.visit
      BY <1>0, <1>1 DEF VisitsOK, ReadyOK
    <3>2. CASE b = c
      <4>1. answered /\ boxes'[b].visit = r.visit /\ r.visit \notin made.spoilt
        BY <1>4, <1>5, <1>8, <2>1, <3>2
      <4>2. \A d \in DOMAIN boxes' :
              boxes'[d].status = "ready" /\ boxes'[d].visit = boxes'[b].visit => d = b
        BY <1>4, <3>1, <3>2, <4>1
      <4>3. \A t \in publishes' : t.visit = boxes'[b].visit => t.at \in {"unlink", "grant"}
        BY <1>0, <1>1, <1>6, <1>7, <4>1 DEF RunsOK, Apart
      <4>4. wizard'.phase = "error" => boxes'[b].visit # made'.visits
        BY <1>1, <1>8, <1>9, <4>1 DEF RunOK
      <4> QED
        BY <4>2, <4>3, <4>4
    <3>3. CASE b # c
      <4>1. /\ b \in DOMAIN boxes /\ boxes'[b] = boxes[b] /\ boxes[b].status = "ready"
            /\ boxes[b].visit \notin made.spoilt /\ boxes[b].visit # r.visit /\ ReadyOK(b)
        BY <1>0, <1>4, <1>8, <2>1, <3>1, <3>3 DEF VisitsOK
      <4>2. \A d \in DOMAIN boxes' :
              boxes'[d].status = "ready" /\ boxes'[d].visit = boxes'[b].visit => d = b
        BY <1>4, <1>5, <4>1 DEF ReadyOK
      <4>3. \A t \in publishes' : t.visit = boxes'[b].visit => t.at \in {"unlink", "grant"}
        BY <1>6, <1>7, <4>1 DEF ReadyOK
      <4>4. wizard'.phase = "error" => boxes'[b].visit # made'.visits
        BY <1>1, <1>8, <1>9, <4>1 DEF ReadyOK, RunOK
      <4> QED
        BY <4>2, <4>3, <4>4
    <3> QED
      BY <3>2, <3>3
  <2>2. \A b \in DOMAIN boxes' : boxes'[b].visit <= made'.visits /\ ReadyOK(b)'
    <3>1. \A b \in DOMAIN boxes' : boxes'[b].visit <= made'.visits
      BY <1>0, <1>2, <1>4, <1>5, <1>8 DEF VisitsOK
    <3> QED
      BY <2>1, <3>1 DEF ReadyOK
  <2>3. wizard'.phase = "done" =>
          \E b \in DOMAIN boxes' : boxes'[b].visit = made'.visits /\ boxes'[b].status = "ready"
    <3>1. wizard'.phase = "done" => wizard.phase = "done"
      BY <1>9
    <3> QED
      BY <1>0, <1>2, <1>4, <1>5, <1>8, <3>1 DEF VisitsOK
  <2>4. wizard'.phase \in {"upload", "error"} /\ wizard'.build # None =>
          (\E f \in files' : f.n = wizard'.build) \/ made'.visits \in made'.spoilt
    BY <1>0, <1>1, <1>8, <1>9 DEF VisitsOK, RunOK
  <2> QED
    BY <2>2, <2>3, <2>4 DEF VisitsOK
<1> QED
  BY <1>10, <1>11, <1>12, <1>13, <1>14 DEF PublishInv

(* The step Unlinked keeps the invariant.                                  *)
LEMMA UnlinkedKeeps ==
  ASSUME PublishInv, NEW r, NEW removed \in BOOLEAN, Publish!Unlinked(r, removed) PROVE PublishInv'
<1>0. PublishTypeOK /\ KeysOK /\ BoxesOK /\ RunsOK /\ VisitsOK
  BY DEF PublishInv
<1>b. PICK x : x = [r EXCEPT !.at = "grant"]
  OBVIOUS
<1>1. /\ r \in publishes /\ r.at = "unlink" /\ IsRun(r) /\ RunOK(r) /\ IsMade(made)
      /\ IsWizard(wizard) /\ UNCHANGED <<keychain, registered, setups, boxes, made>>
  BY <1>0 DEF Publish!Unlinked, PublishTypeOK, RunsOK, Publish!keyVars
<1>2. /\ IsRun(x) /\ x.n = r.n /\ x.at = "grant" /\ x.file = r.file /\ x.box = r.box
      /\ x.visit = r.visit /\ x.live = r.live /\ x.sealed = r.sealed
  BY <1>1, <1>b DEF IsRun
<1>3. /\ r.live => publishes' = (publishes \ {r}) \cup {x}
      /\ ~r.live => publishes' = publishes \ {r}
      /\ publishes' \subseteq (publishes \ {r}) \cup {x}
      /\ wizard' = IF r.live THEN [wizard EXCEPT !.phase = "grant"] ELSE wizard
  BY <1>b DEF Publish!Unlinked, Publish!AfterUnlink, Publish!Goes, Publish!Shows
<1>4. /\ r.live => wizard'.phase = "grant"
      /\ ~r.live => wizard' = wizard
      /\ IsWizard(wizard') /\ wizard'.build = wizard.build /\ wizard'.shown = wizard.shown
  BY <1>1, <1>3 DEF IsWizard
<1>5. files' \subseteq files /\ \A f \in files : f \in files' \/ (r.file # None /\ f.n = r.file)
  BY <1>1 DEF Publish!Unlinked, RunOK
<1>6. PublishTypeOK'
  <2>1. \A t \in publishes' : IsRun(t)
    BY <1>0, <1>2, <1>3 DEF PublishTypeOK
  <2> QED
    BY <1>0, <1>1, <1>4, <1>5, <2>1 DEF PublishTypeOK
<1>7. KeysOK'
  BY <1>0, <1>1, KeysFrame DEF Publish!keyVars
<1>8. BoxesOK'
  <2>1. Stable
    BY <1>1, StableWhenKept
  <2>2. \A t \in publishes' : t.at \in {"upload", "finalize"} =>
          \E z \in publishes : z.at = t.at /\ z.sealed = t.sealed /\ z.box = t.box
    BY <1>2, <1>3
  <2> QED
    BY <1>0, <1>1, <1>5, <2>1, <2>2, BoxesKept
<1>9. RunsOK'
  <2>1. \A t \in publishes \ {r} : RunOK(t)'
    BY <1>0, <1>1, <1>4, <1>5, OthersKept
  <2>2. ASSUME x \in publishes' PROVE RunOK(x)'
    <3>1. CASE r.live
      BY <1>1, <1>2, <1>4, <3>1 DEF RunOK
    <3>2. CASE ~r.live
      BY <1>3, <2>1, <2>2, <3>2
    <3> QED
      BY <3>1, <3>2
  <2>3. /\ \A f \in files' : f.n <= made'.runs
        /\ wizard'.build # None => wizard'.build <= made'.runs
        /\ wizard'.shown \/ wizard'.phase = "idle"
    BY <1>0, <1>1, <1>4, <1>5 DEF RunsOK, RunOK
  <2> QED
    BY <1>0, <1>1, <1>2, <1>3, <2>1, <2>2, <2>3, RunMoved
<1>10. VisitsOK'
  <2>1. \A b \in DOMAIN boxes' : boxes'[b].visit <= made'.visits /\ ReadyOK(b)'
    <3>1. \A t \in publishes' : \E z \in publishes :
            /\ t.visit = z.visit
            /\ z.at \in {"unlink", "grant"} => t.at \in {"unlink", "grant"}
      BY <1>1, <1>2, <1>3
    <3>2. \A b \in DOMAIN boxes' : boxes'[b].visit <= made.visits
      BY <1>0, <1>1 DEF VisitsOK
    <3>3. wizard'.phase = "error" => wizard.phase = "error"
      BY <1>4
    <3> QED
      BY <1>0, <1>1, <3>1, <3>2, <3>3, ReadyKept
  <2>2. wizard'.phase = "done" =>
          \E b \in DOMAIN boxes' : boxes'[b].visit = made'.visits /\ boxes'[b].status = "ready"
    BY <1>0, <1>1, <1>4 DEF VisitsOK
  <2>3. wizard'.phase \in {"upload", "error"} /\ wizard'.build # None =>
          (\E f \in files' : f.n = wizard'.build) \/ made'.visits \in made'.spoilt
    <3>1. ASSUME ~r.live PROVE r.file # None => r.file # wizard.build
      BY <1>1, <3>1 DEF RunOK
    <3> QED
      BY <1>0, <1>1, <1>4, <1>5, <3>1 DEF VisitsOK
  <2> QED
    BY <2>1, <2>2, <2>3 DEF VisitsOK
<1> QED
  BY <1>6, <1>7, <1>8, <1>9, <1>10 DEF PublishInv

(* The step Granted keeps the invariant.                                   *)
LEMMA GrantedKeeps ==
  ASSUME PublishInv, NEW r, Publish!Granted(r) PROVE PublishInv'
<1>0. PublishTypeOK /\ KeysOK /\ BoxesOK /\ RunsOK /\ VisitsOK
  BY DEF PublishInv
<1>1. /\ r \in publishes /\ r.at = "grant" /\ IsRun(r) /\ RunOK(r) /\ IsMade(made)
      /\ IsWizard(wizard) /\ UNCHANGED <<keychain, registered, setups, files, boxes, made>>
  BY <1>0 DEF Publish!Granted, PublishTypeOK, RunsOK, Publish!keyVars
<1>2. /\ publishes' = publishes \ {r} \/ publishes' = publishes
      /\ \/ /\ r.live /\ publishes' = publishes \ {r}
            /\ IsWizard(wizard') /\ wizard'.shown = wizard.shown /\ wizard'.phase = "done"
            /\ wizard'.build = None
         \/ /\ IsWizard(wizard') /\ wizard'.shown = wizard.shown
            /\ wizard'.phase = wizard.phase /\ wizard'.build = wizard.build
  <2>1. CASE (wizard.refused = Members \/ ~r.live) /\ r.live
    <3>1. wizard' = [wizard EXCEPT !.phase = "done", !.build = None]
            /\ publishes' = publishes \ {r}
      BY <2>1 DEF Publish!Granted
    <3> QED
      BY <1>1, <2>1, <3>1 DEF IsWizard, Key
  <2>2. CASE ~r.live
    BY <1>1, <2>2 DEF Publish!Granted
  <2>3. CASE ~(wizard.refused = Members \/ ~r.live)
    <3>1. publishes' = publishes /\ \E u : wizard' = [wizard EXCEPT !.refused = @ \cup {u}]
      BY <2>3 DEF Publish!Granted
    <3>2. PICK u : wizard' = [wizard EXCEPT !.refused = @ \cup {u}]
      BY <3>1
    <3> QED
      BY <1>1, <3>1, <3>2 DEF IsWizard
  <2> QED
    BY <2>1, <2>2, <2>3
<1>3. IsWizard(wizard') /\ wizard'.shown = wizard.shown /\ publishes' \subseteq publishes
  BY <1>2
<1>4. PublishTypeOK'
  BY <1>0, <1>1, <1>3 DEF PublishTypeOK
<1>5. KeysOK'
  BY <1>0, <1>1, KeysFrame DEF Publish!keyVars
<1>6. BoxesOK'
  BY <1>0, <1>1, <1>3, BoxesKept, StableWhenKept
<1>7. RunsOK'
  <2>1. \A t \in publishes \ {r} : RunOK(t)'
    BY <1>0, <1>1, <1>2, OthersKept
  <2>2. r \in publishes' => RunOK(r)'
    BY <1>1, <1>2 DEF RunOK
  <2>3. /\ \A f \in files' : f.n <= made'.runs
        /\ wizard'.build # None => wizard'.build <= made'.runs
        /\ wizard'.shown \/ wizard'.phase = "idle"
    BY <1>0, <1>1, <1>2 DEF RunsOK, RunOK
  <2>4. \A y, z \in publishes' : y # z => Apart(y, z)
    BY <1>0, <1>3 DEF RunsOK
  <2>5. \A t \in publishes' : RunOK(t)'
    BY <1>3, <2>1, <2>2
  <2> QED
    BY <2>3, <2>4, <2>5 DEF RunsOK
<1>8. VisitsOK'
  <2>1. \A b \in DOMAIN boxes' : boxes'[b].visit <= made'.visits /\ ReadyOK(b)'
    <3>1. \A b \in DOMAIN boxes' : boxes'[b].visit <= made.visits
      BY <1>0, <1>1 DEF VisitsOK
    <3>2. wizard'.phase = "error" => wizard.phase = "error"
      BY <1>2
    <3> QED
      BY <1>0, <1>1, <1>3, <3>1, <3>2, ReadyKept
  <2>2. wizard'.phase = "done" =>
          \E b \in DOMAIN boxes' : boxes'[b].visit = made'.visits /\ boxes'[b].status = "ready"
    <3>1. r.live => /\ r.box \in DOMAIN boxes /\ boxes[r.box].visit = made.visits
                    /\ boxes[r.box].status = "ready"
      BY <1>1 DEF RunOK
    <3> QED
      BY <1>0, <1>1, <1>2, <3>1 DEF VisitsOK
  <2>3. wizard'.phase \in {"upload", "error"} /\ wizard'.build # None =>
          (\E f \in files' : f.n = wizard'.build) \/ made'.visits \in made'.spoilt
    BY <1>0, <1>1, <1>2 DEF VisitsOK
  <2> QED
    BY <2>1, <2>2, <2>3 DEF VisitsOK
<1> QED
  BY <1>4, <1>5, <1>6, <1>7, <1>8 DEF PublishInv

-----------------------------------------------------------------------------
(* The invariant, and what it says of the sandboxes.                       *)

(* The first state.                                                        *)
LEMMA PublishStarts == Publish!PublishInit => PublishInv
<1> SUFFICES ASSUME Publish!PublishInit PROVE PublishInv
  OBVIOUS
<1>1. PublishTypeOK
  <2>1. \E S : boxes \in Seq(S)
    <3>1. boxes \in Seq({})
      BY DEF Publish!PublishInit
    <3> QED
      BY <3>1
  <2>2. IsWizard(wizard)
    BY DEF Publish!PublishInit, Publish!Hidden, IsWizard, Key
  <2>3. IsMade(made)
    BY DEF Publish!PublishInit, IsMade
  <2> QED
    BY <2>1, <2>2, <2>3 DEF Publish!PublishInit, PublishTypeOK, Key
<1>2. KeysOK
  BY DEF Publish!PublishInit, KeysOK, OneKey
<1>3. BoxesOK
  BY DEF Publish!PublishInit, BoxesOK
<1>4. RunsOK
  BY DEF Publish!PublishInit, RunsOK, Publish!Hidden
<1>5. VisitsOK
  BY DEF Publish!PublishInit, VisitsOK, Publish!Hidden
<1> QED
  BY <1>1, <1>2, <1>3, <1>4, <1>5 DEF PublishInv

(* Every step of the publishing keeps the invariant.                       *)
LEMMA PublishStays ==
  ASSUME PublishInv, [Publish!PublishNext]_Publish!publishVars PROVE PublishInv'
<1>1. CASE UNCHANGED Publish!publishVars
  <2>1. UNCHANGED <<keychain, registered, setups, wizard, publishes, files, boxes, made>>
    BY <1>1 DEF Publish!publishVars, Publish!keyVars
  <2>2. PublishTypeOK' /\ KeysOK' /\ RunsOK' /\ VisitsOK'
    <3>1. PublishTypeOK /\ KeysOK /\ RunsOK /\ VisitsOK
      BY DEF PublishInv
    <3>2. PublishTypeOK'
      BY <2>1, <3>1 DEF PublishTypeOK
    <3>3. KeysOK'
      BY <2>1, <3>1 DEF KeysOK, OneKey
    <3> QED
      BY <2>1, <3>1, <3>2, <3>3, RunsFrame
  <2>3. BoxesOK'
    BY <2>1 DEF PublishInv, BoxesOK, SealedOK, SealedTo, Holds
  <2> QED
    BY <2>2, <2>3 DEF PublishInv
<1>2. ASSUME NEW d \in Devices, Publish!SetupAsked(d) PROVE PublishInv'
  BY <1>2, SetupAskedKeeps
<1>3. ASSUME NEW s \in setups, NEW answered \in BOOLEAN, Publish!SetupRead(s, answered)
      PROVE  PublishInv'
  BY <1>3, SetupReadKeeps
<1>4. ASSUME NEW s \in setups, Publish!SetupMade(s) \/ Publish!SetupFails(s) PROVE PublishInv'
  BY <1>4, SetupMadeKeeps, SetupFailsKeeps
<1>5. ASSUME NEW s \in setups, NEW taken \in BOOLEAN, NEW answered \in BOOLEAN,
             Publish!SetupPut(s, taken, answered)
      PROVE  PublishInv'
  BY <1>5, SetupPutKeeps
<1>6. ASSUME NEW mode \in {"create", "republish"}, Publish!StepEntered(mode) PROVE PublishInv'
  BY <1>6, StepEnteredKeeps
<1>7. ASSUME Publish!StepLeft PROVE PublishInv'
  BY <1>7, StepLeftKeeps
<1>8. ASSUME NEW from \in {"build", "create"}, Publish!Retried(from) PROVE PublishInv'
  BY <1>8, RetriedKeeps
<1>9. ASSUME NEW r \in publishes, NEW answered \in BOOLEAN, Publish!Built(r, answered)
      PROVE  PublishInv'
  BY <1>9, BuiltKeeps
<1>10. ASSUME NEW r \in publishes, Publish!Refused(r) \/ Publish!KeyNotReadBack(r)
       PROVE  PublishInv'
  BY <1>10, RefusedKeeps, KeyNotReadBackKeeps
<1>11. ASSUME NEW r \in publishes, Publish!Created(r) PROVE PublishInv'
  BY <1>11, CreatedKeeps
<1>12. ASSUME NEW r \in publishes, Publish!Sealed(r) PROVE PublishInv'
  BY <1>12, SealedKeeps
<1>13. ASSUME NEW r \in publishes, Publish!Uploaded(r) PROVE PublishInv'
  BY <1>13, UploadedKeeps
<1>14. ASSUME NEW r \in publishes, NEW answered \in BOOLEAN, Publish!Finalized(r, answered)
       PROVE  PublishInv'
  BY <1>14, FinalizedKeeps
<1>15. ASSUME NEW r \in publishes, NEW removed \in BOOLEAN, Publish!Unlinked(r, removed)
       PROVE  PublishInv'
  BY <1>15, UnlinkedKeeps
<1>16. ASSUME NEW r \in publishes, Publish!Granted(r) PROVE PublishInv'
  BY <1>16, GrantedKeeps
<1> QED
  BY <1>1, <1>2, <1>3, <1>4, <1>5, <1>6, <1>7, <1>8, <1>9, <1>10, <1>11, <1>12, <1>13, <1>14,
     <1>15, <1>16 DEF Publish!PublishNext

(* The invariant is what was to be shown of the sandboxes.                 *)
LEMMA PublishSuffices ==
  PublishInv => Publish!ReadyCanBeOpened /\ Publish!KeysAgree /\ Publish!OneSandboxPerPublish
<1> SUFFICES ASSUME PublishInv PROVE Publish!ReadyCanBeOpened /\ Publish!KeysAgree
               /\ Publish!OneSandboxPerPublish
  OBVIOUS
<1>0. PublishTypeOK /\ KeysOK /\ BoxesOK /\ RunsOK /\ VisitsOK
  BY DEF PublishInv
<1>1. Publish!ReadyCanBeOpened
  <2>1. SUFFICES ASSUME NEW b \in DOMAIN boxes, boxes[b].status = "ready",
                        NEW d \in Devices, Account[d] \in Members \cup {Publish!Owner},
                        Publish!Owner \notin made.crossed, Account[d] \notin made.crossed,
                        registered[Publish!Owner] # None, keychain[d] # None
                 PROVE  Publish!CanOpen(d, b)
    BY DEF Publish!ReadyCanBeOpened
  <2>2. /\ boxes[b].blob = Publish!AadOf(b, keychain[Publisher]) /\ keychain[Publisher] # None
        /\ SealedTo(boxes[b].envelopes, b, Account[d])
    BY <1>0, <2>1 DEF BoxesOK, SealedOK
  <2>3. OneKey(Publish!Owner) /\ OneKey(Account[d])
    BY <1>0, <2>1, PublishKnown DEF KeysOK, Publish!Owner, Publish!Accounts
  <2>4. registered[Publish!Owner] = keychain[Publisher]
    BY <2>1, <2>2, <2>3, PublishKnown DEF OneKey, Publish!Owner
  <2>5. PICK k \in Nat : /\ Holds(Account[d], k)
                         /\ boxes[b].envelopes[Account[d]] =
                              Publish!Envelope(keychain[Publisher], k, Publish!AadOf(b,
                                keychain[Publisher]))
    BY <2>2 DEF SealedTo
  <2>6. k = keychain[d]
    BY <2>1, <2>3, <2>5 DEF Holds, OneKey
  <2>7. Account[d] \in DOMAIN boxes[b].envelopes
    BY <2>2 DEF SealedTo
  <2> QED
    BY <2>2, <2>4, <2>5, <2>6, <2>7 DEF Publish!CanOpen, Publish!Envelope
<1>2. Publish!KeysAgree
  <2>1. made.done \subseteq Devices
    BY <1>0 DEF PublishTypeOK, IsMade
  <2> QED
    BY <1>0, <2>1 DEF Publish!KeysAgree, KeysOK, OneKey, Publish!Accounts
<1>3. Publish!OneSandboxPerPublish
  <2>1. ASSUME NEW v \in (1 .. made.visits) \ made.spoilt
        PROVE  Cardinality({b \in DOMAIN boxes : boxes[b].visit = v
                                                 /\ boxes[b].status = "ready"}) <= 1
    <3> DEFINE B == {b \in DOMAIN boxes : boxes[b].visit = v /\ boxes[b].status = "ready"}
    <3>1. \A b, c \in B : b = c
      BY <1>0 DEF VisitsOK, ReadyOK
    <3>2. CASE B = {}
      BY <3>2, FS_EmptySet
    <3>3. CASE B # {}
      <4>1. PICK b : B = {b}
        BY <3>1, <3>3
      <4>2. Cardinality(B) = 1
        BY <4>1, FS_Singleton
      <4> QED
        BY <4>2
    <3> QED
      BY <3>2, <3>3
  <2>2. \A S : Publish!Cardinality(S) = Cardinality(S)
    BY DEF Publish!Cardinality, Cardinality
  <2> QED
    BY <1>0, <2>1, <2>2 DEF Publish!OneSandboxPerPublish, VisitsOK
<1> QED
  BY <1>1, <1>2, <1>3

-----------------------------------------------------------------------------
(***************************************************************************)
(* The composition.                                                        *)
(***************************************************************************)

(* A step of the composition is a step of the log, or leaves it alone.     *)
LEMMA LogOfBackend == [BackendNext]_BackendVars => [Next]_vars
BY DEF BackendNext, OthersPart, BackendVars, ConnectionsPart, CommandsPart, KeysPart, WizardPart,
   callVars, vars, fileVars, storeVars, publishVars

(* Verification passes over a file nothing disturbed and counts a          *)
(* sub-chain for each run that wrote to it; what was written is found once,*)
(* and lost only to a line cut short or to the key of its text, replaced   *)
(* after a read that was refused (commands.rs, verify_chain_file).         *)
THEOREM LogKeepsItsWord == BackendSpec => []LogIsRight
<1>1. BackendInit => ChainInv
  BY ChainInit DEF BackendInit
<1>2. ChainInv /\ [BackendNext]_BackendVars => ChainInv'
  BY ChainStep, LogOfBackend
<1>3. ChainInv => LogIsRight
  BY ChainSuffices DEF LogIsRight
<1> QED
  BY <1>1, <1>2, <1>3, PTL DEF BackendSpec

(* A step of the composition is a step of the calls, or leaves them alone. *)
LEMMA CallsOfBackend == [BackendNext]_BackendVars => [CallsNext]_callVars
BY DEF BackendNext, OthersPart, BackendVars, ConnectionsPart, CommandsPart, KeysPart, WizardPart,
   callVars, vars, fileVars, storeVars, publishVars

(* No preview leaves its limit on the connection unless two overlapped,    *)
(* and a call that is answered has its own writes as it should unless a    *)
(* commit, a rollback or a loss went by under it (oracle.ts).              *)
THEOREM CallsLeaveNoTrace == BackendSpec => []CallsLeaveTheConnection
<1>1. BackendInit => CallsInv
  BY CallsStart DEF BackendInit
<1>2. CallsInv /\ [CallsNext]_callVars => CallsInv'
  BY CallsStep
<1> QED
  BY <1>1, <1>2, CallsOfBackend, CallsInvSuffices, PTL DEF BackendSpec

(* A step of the composition is one of the commands, or leaves them alone. *)
LEMMA CommandsOfBackend == [BackendNext]_BackendVars => [CommandsNext]_commandsVars
BY DEF BackendNext, OthersPart, BackendVars, CommandsPart, commandsVars

(* An air gap lets nothing out and keeps the secrets in, but for the two   *)
(* commands that do not ask for it; the cloud is asked with a token;       *)
(* publishing again reads with the passwords of the saved build's          *)
(* connection; a window that is logged was opened (commands.rs).           *)
THEOREM CommandsInOrder == BackendSpec => []CommandsKeepTheirOrder
<1>1. BackendInit => CommandsInv
  BY CommandsStart DEF BackendInit
<1>2. CommandsInv => CommandsKeepTheirOrder
  BY DEF CommandsInv, CommandsOrdered, CommandsKeepTheirOrder
<1> QED
  BY <1>1, <1>2, CommandsStep, CommandsOfBackend, PTL DEF BackendSpec
(* The same of the saved connections,                                      *)
LEMMA StoreOfBackend == [BackendNext]_BackendVars => [Store!ConnNext]_storeVars
BY DEF BackendNext, OthersPart, BackendVars, ConnectionsPart, CommandsPart, KeysPart, WizardPart,
   callVars, vars, fileVars, storeVars, publishVars

(* whose invariant therefore holds of the composition,                     *)
LEMMA ConnOfBackend == BackendSpec => []ConnInv
<1>1. BackendInit => ConnInv
  BY ConnStarts DEF BackendInit
<1>2. ConnInv /\ [BackendNext]_BackendVars => ConnInv'
  BY ConnKeeps, StoreOfBackend DEF storeVars, Store!connVars
<1> QED
  BY <1>1, <1>2, PTL DEF BackendSpec

(* A connection is never taken back from prod, but by a save that met      *)
(* another operation on it (persistence/connections.rs:786).               *)
THEOREM ProdForEver == BackendSpec => ProdStaysProd
<1> DEFINE Safe(c) ==
             row[c] # None /\ row'[c] # None /\ row[c].env = "prod" /\ row'[c].env # "prod" =>
               ~task[row'[c].by].alone
<1>1. ConnInv /\ [BackendNext]_BackendVars => [\A c \in Store!Ids : Safe(c)]_Store!connVars
  <2> SUFFICES ASSUME ConnInv, [Store!ConnNext]_Store!connVars, NEW c \in Store!Ids
               PROVE  Safe(c)
    BY StoreOfBackend DEF storeVars, Store!connVars
  <2> QED
    BY ConnProd
<1>2. BackendSpec => [][\A c \in Store!Ids : Safe(c)]_Store!connVars
  BY <1>1, ConnOfBackend, PTL DEF BackendSpec
<1> QED
  BY <1>2 DEF ProdStaysProd, Store!ProdStaysProd

(* of the file of the store,                                               *)
LEMMA FileOfBackend == [BackendNext]_BackendVars => [StoreFile!FileNext]_fileVars
BY DEF BackendNext, OthersPart, BackendVars, ConnectionsPart, CommandsPart, KeysPart, WizardPart,
   callVars, vars, fileVars, storeVars, publishVars

(* A connection nothing is done to is of one save or gone without a trace, *)
(* a store that comes up has what was there, and the keychain opens it,    *)
(* but after what is named there (persistence/connections.rs, crypto.rs).  *)
THEOREM StoreStaysWhole == BackendSpec => []StoreIsWhole
<1>1. BackendInit => FileInv
  BY FileStarts DEF BackendInit
<1>2. FileInv /\ [BackendNext]_BackendVars => FileInv'
  BY FileKeeps, FileOfBackend DEF fileVars, StoreFile!fileVars
<1>3. ConnInv /\ FileInv => StoreIsWhole
  BY ConnWhole, FileWhole DEF StoreIsWhole
<1> QED
  BY <1>1, <1>2, <1>3, ConnOfBackend, PTL DEF BackendSpec

(* and of the publishing.                                                  *)
LEMMA PublishOfBackend == [BackendNext]_BackendVars => [Publish!PublishNext]_publishVars
BY DEF BackendNext, OthersPart, BackendVars, ConnectionsPart, CommandsPart, KeysPart, WizardPart,
   callVars, vars, fileVars, storeVars, publishVars

(* A sandbox that is ready is opened by whomever it is published to on any *)
(* device that has a key, the key the cloud has of an account is the one   *)
(* the device that was told so has, and a visit of the wizard makes one    *)
(* sandbox ready, unless the owner or the member had keys made on two      *)
(* devices, by two calls at once or after a refused read of the keychain,  *)
(* or an answer was lost (publish.ts, handlers.ts, keystore.ts,            *)
(* PublishStepPublish.svelte).                                             *)
THEOREM SandboxesCanBeOpened == BackendSpec => []SandboxesOpen
<1>1. BackendInit => PublishInv
  BY PublishStarts DEF BackendInit
<1>2. PublishInv /\ [BackendNext]_BackendVars => PublishInv'
  BY PublishStays, PublishOfBackend DEF publishVars, Publish!publishVars, Publish!keyVars
<1>3. PublishInv => SandboxesOpen
  BY PublishSuffices DEF SandboxesOpen
<1> QED
  BY <1>1, <1>2, <1>3, PTL DEF BackendSpec

=============================================================================
