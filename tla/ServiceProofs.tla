---------------------------- MODULE ServiceProofs ----------------------------
(***************************************************************************)
(* Theorems about Service, for any flush_every, buffer, days, events,      *)
(* reports, pages, restarts, kills and refusals of the disk: what is in    *)
(* the files of the CSV sink, what a crash and a stop take with them, and  *)
(* which report is served.                                                 *)
(***************************************************************************)
EXTENDS Service, SequenceTheorems, FiniteSetTheorems, TLAPS

(* What is on disk, and what a buffer holds. *)
Line == Piece
Whole == Row \cup {Header}

(* What the lines of a file f may be, those in the buffer included: the    *)
(* header first, then rows in the order of their events.                   *)
Ascending(s) == \A i, j \in 1 .. Len(s) : i < j => s[i].id < s[j].id

Table(f, s) ==
  /\ Ascending(s)
  /\ \A i \in 1 .. Len(s) : /\ (i = 1) <=> (s[i].id = 0)
                            /\ i > 1 /\ rotateDaily => s[i].day = f

Past(s, n) == \A i \in 1 .. Len(s) : s[i].id <= n

(* The state of the files d and the buffer b from which a row may be       *)
(* written to f.                                                           *)
Ready(d, b, f) ==
  /\ f \in DOMAIN d
  /\ Table(f, d[f] \o b)
  /\ d[f] \o b # <<>>

Files(d) == DOMAIN d \subseteq File /\ \A f \in DOMAIN d : d[f] \in Seq(Line)

Tables(d, b, n) ==
  /\ Files(d)
  /\ \A f \in DOMAIN d : Table(f, d[f]) /\ Past(d[f], n)
  /\ b \in Seq(Whole) /\ Past(b, n)

FileInv ==
  /\ Tables(disk, buffer, events)
  /\ handle = "open" => openDay >= 1 /\ Ready(disk, buffer, PathFor(openDay))
  /\ openDay <= today
  /\ handle = "closed" => openDay < today

(* Nothing runs before the process serves, nor after it is cancelled.      *)
LifeInv == task = "running" => phase \in {"up", "draining"}

(* Where a row can be. *)
In(s, x) == \E i \in 1 .. Len(s) : s[i] = x
On(d, x) == \E f \in DOMAIN d : In(d[f], x)

(* Rows that a crash would take, were d on disk. *)
Risk(d, acc, gone) == {i \in 1 .. Len(acc) : ~On(d, acc[i]) /\ acc[i] \notin gone}
TheEnd(R, acc) == \A i \in R : \A j \in 1 .. Len(acc) : j > i => j \in R
Covered(d, b, acc, gone) ==
  \A i \in 1 .. Len(acc) : On(d, acc[i]) \/ acc[i] \in gone \/ In(b, acc[i])

(* The history of the rows, as far as it does not depend on the phase.     *)
RiskInv ==
  /\ Ascending(accepted) /\ Past(accepted, events)
  /\ \A x \in forfeited : x.id <= events
  /\ TheEnd(Risk(disk, accepted, forfeited), accepted)
  /\ Cardinality(Risk(disk, accepted, forfeited)) <= sinceFlush

LogInv ==
  /\ RiskInv
  /\ diskFaults = 0 => sinceFlush < Batch /\ handle # "closed"
  /\ phase # "down" => Covered(disk, buffer, accepted, forfeited)
  /\ phase = "closed" /\ diskFaults = 0 =>
       Risk(disk, accepted, forfeited) = {} /\ handle = "none"

(* Where the files d have a line that is torn. *)
TornIn(d) ==
  UNION {{<<f, i>> : i \in {j \in 1 .. Len(d[f]) : ~d[f][j].whole}} : f \in DOMAIN d}

TearInv == IsFiniteSet(TornIn(disk)) /\ Cardinality(TornIn(disk)) <= losses

(* The newest report is the last one opened, and no other is as new.       *)
ReportInv ==
  /\ \A n \in DOMAIN reports : reports[n].run <= runs
  /\ runs > 0 => \E n \in DOMAIN reports : reports[n].run = runs
  /\ writing # NoName =>
       /\ reports[writing].run = runs
       /\ \A n \in DOMAIN reports \ {writing} : reports[n].run < runs
  /\ writing = NoName /\ runs \notin cut =>
       \A n \in DOMAIN reports : reports[n].run = runs => reports[n].lines = ReportLines

-----------------------------------------------------------------------------
(* Lines and sequences of lines. *)
LEMMA LineParts ==
  /\ Header \in Whole /\ Header.id = 0 /\ Header \notin Row
  /\ Row \subseteq Whole /\ Whole \subseteq Line
  /\ \A x \in Line : x.id \in Nat
  /\ \A x \in Row : x.id >= 1
  /\ \A x \in Whole : x.whole /\ (x.id = 0 => x = Header)
<1>0. MaxEvents \in Nat /\ LastDay \in Nat
  BY CsvLogAssumption
<1>1. Header.id = 0 /\ Header.whole /\ Header \in Line
  BY <1>0 DEF Header, Line, Piece
<1>2. ASSUME NEW x \in Row PROVE x \in Line /\ x.id >= 1 /\ x.whole
  <2>1. x.id \in 1 .. MaxEvents /\ x.day \in 1 .. LastDay /\ x.whole \in {TRUE}
    BY <1>2 DEF Row
  <2>2. x = [id |-> x.id, day |-> x.day, whole |-> x.whole]
    BY <1>2 DEF Row
  <2>3. x.id \in 0 .. MaxEvents /\ x.day \in 0 .. LastDay /\ x.id >= 1
    BY <1>0, <2>1
  <2>4. x.whole \in BOOLEAN
    BY <2>1, Zenon
  <2>5. [id |-> x.id, day |-> x.day, whole |-> x.whole] \in Piece
    BY <2>3, <2>4, Zenon DEF Piece
  <2> QED
    BY <2>1, <2>2, <2>3, <2>5 DEF Line
<1>3. \A x \in Line : x.id \in Nat
  BY <1>0 DEF Line, Piece
<1>4. Header \notin Row
  BY <1>1, <1>2
<1>5. Row \subseteq Whole /\ Whole \subseteq Line
  BY <1>1, <1>2 DEF Whole
<1>6. \A x \in Whole : x.whole /\ (x.id = 0 => x = Header)
  BY <1>1, <1>2 DEF Whole
<1>7. Header \in Whole
  BY DEF Whole
<1> QED
  BY <1>1, <1>2, <1>3, <1>4, <1>5, <1>6, <1>7

LEMMA TornParts ==
  ASSUME NEW x \in Whole
  PROVE  /\ Torn(x) \in Line /\ Torn(x).id = x.id /\ Torn(x).day = x.day
         /\ ~Torn(x).whole /\ Torn(x) \notin Row
<1>1. x \in Piece
  BY LineParts DEF Line
<1>2. /\ Torn(x) \in Piece /\ Torn(x).id = x.id /\ Torn(x).day = x.day
      /\ Torn(x).whole = FALSE
  BY <1>1 DEF Torn, Piece
<1>3. \A y \in Row : y.whole
  BY LineParts
<1> QED
  BY <1>2, <1>3 DEF Line

LEMMA WholeIsLine ==
  /\ Seq(Whole) \subseteq Seq(Line) /\ Seq(Row) \subseteq Seq(Line)
  /\ Row \subseteq Line /\ Whole \subseteq Line
BY LineParts, SeqMonotonic

LEMMA Joined ==
  ASSUME NEW S, NEW s \in Seq(S), NEW t \in Seq(S)
  PROVE  /\ s \o t \in Seq(S)
         /\ Len(s) \in Nat /\ Len(t) \in Nat
         /\ Len(s \o t) = Len(s) + Len(t)
         /\ \A i \in 1 .. Len(s) : (s \o t)[i] = s[i]
         /\ \A i \in 1 .. Len(t) : (s \o t)[Len(s) + i] = t[i]
<1>1. Len(s) \in Nat /\ Len(t) \in Nat
  BY LenProperties
<1>2. /\ s \o t \in Seq(S)
      /\ Len(s \o t) = Len(s) + Len(t)
      /\ \A i \in 1 .. Len(s) + Len(t) :
           (s \o t)[i] = IF i <= Len(s) THEN s[i] ELSE t[i - Len(s)]
  BY ConcatProperties
<1>3. \A i \in 1 .. Len(s) : (s \o t)[i] = s[i]
  BY <1>1, <1>2
<1>4. ASSUME NEW i \in 1 .. Len(t) PROVE (s \o t)[Len(s) + i] = t[i]
  <2>1. Len(s) + i \in 1 .. Len(s) + Len(t) /\ ~(Len(s) + i <= Len(s))
        /\ (Len(s) + i) - Len(s) = i
    BY <1>1
  <2> QED
    BY <2>1, <1>2
<1> QED
  BY <1>1, <1>2, <1>3, <1>4

LEMMA WithRow ==
  ASSUME NEW S, NEW s \in Seq(S), NEW x \in S
  PROVE  /\ Append(s, x) \in Seq(S)
         /\ Len(s) \in Nat
         /\ Len(Append(s, x)) = Len(s) + 1
         /\ \A i \in 1 .. Len(s) : Append(s, x)[i] = s[i]
         /\ Append(s, x)[Len(s) + 1] = x
BY AppendProperties, LenProperties

LEMMA Cut ==
  ASSUME NEW S, NEW s \in Seq(S), NEW k \in 0 .. Len(s)
  PROVE  /\ Len(s) \in Nat /\ k \in Nat
         /\ SubSeq(s, 1, k) \in Seq(S) /\ Len(SubSeq(s, 1, k)) = k
         /\ \A i \in 1 .. k : SubSeq(s, 1, k)[i] = s[i]
         /\ SubSeq(s, k + 1, Len(s)) \in Seq(S)
         /\ Len(SubSeq(s, k + 1, Len(s))) = Len(s) - k
         /\ \A i \in 1 .. (Len(s) - k) : SubSeq(s, k + 1, Len(s))[i] = s[k + i]
BY LenProperties

LEMMA InParts ==
  ASSUME NEW S, NEW s \in Seq(S), NEW t \in Seq(S), NEW x
  PROVE  In(s \o t, x) <=> In(s, x) \/ In(t, x)
<1>1. ASSUME In(s \o t, x) PROVE In(s, x) \/ In(t, x)
  <2>1. PICK i \in 1 .. Len(s) + Len(t) : (s \o t)[i] = x
    BY <1>1, Joined DEF In
  <2>2. CASE i <= Len(s)
    BY <2>1, <2>2, Joined DEF In
  <2>3. CASE i > Len(s)
    <3>1. i - Len(s) \in 1 .. Len(t) /\ Len(s) + (i - Len(s)) = i
      BY <2>3, Joined
    <3>2. (s \o t)[Len(s) + (i - Len(s))] = t[i - Len(s)]
      BY <3>1, Joined
    <3> QED
      BY <2>1, <3>1, <3>2 DEF In
  <2> QED
    BY <2>2, <2>3, Joined
<1>2. ASSUME In(s, x) PROVE In(s \o t, x)
  <2>1. PICK i \in 1 .. Len(s) : s[i] = x
    BY <1>2 DEF In
  <2> QED
    BY <2>1, Joined DEF In
<1>3. ASSUME In(t, x) PROVE In(s \o t, x)
  <2>1. PICK i \in 1 .. Len(t) : t[i] = x
    BY <1>3 DEF In
  <2>2. Len(s) + i \in 1 .. Len(s \o t)
    BY Joined
  <2> QED
    BY <2>1, <2>2, Joined DEF In
<1> QED
  BY <1>1, <1>2, <1>3

LEMMA PastJoined ==
  ASSUME NEW S, NEW s \in Seq(S), NEW t \in Seq(S), NEW n, Past(s, n), Past(t, n)
  PROVE  Past(s \o t, n)
<1>1. ASSUME NEW i \in 1 .. Len(s \o t) PROVE (s \o t)[i].id <= n
  <2>1. In(s \o t, (s \o t)[i])
    BY DEF In
  <2>2. In(s, (s \o t)[i]) \/ In(t, (s \o t)[i])
    BY <2>1, InParts
  <2> QED
    BY <2>2 DEF In, Past
<1> QED
  BY <1>1 DEF Past

(* What has the numbers and days of the beginning of a table is one too.   *)
Alike(u, w) ==
  Len(u) <= Len(w) /\ \A i \in 1 .. Len(u) : u[i].id = w[i].id /\ u[i].day = w[i].day

LEMMA TableAlike ==
  ASSUME NEW f, NEW n, NEW u \in Seq(Line), NEW w \in Seq(Line), Alike(u, w)
  PROVE  (Table(f, w) => Table(f, u)) /\ (Past(w, n) => Past(u, n))
<1>1. Len(u) \in Nat /\ Len(w) \in Nat /\ \A i \in 1 .. Len(u) : i \in 1 .. Len(w)
  BY LenProperties DEF Alike
<1>2. Ascending(w) => Ascending(u)
  BY <1>1 DEF Ascending, Alike
<1> QED
  BY <1>1, <1>2 DEF Table, Past, Alike

LEMMA AlikeJoined ==
  ASSUME NEW s \in Seq(Line), NEW u \in Seq(Line), NEW w \in Seq(Line), Alike(u, w)
  PROVE  Alike(s \o u, s \o w)
<1>1. /\ Len(s) \in Nat /\ Len(u) \in Nat /\ Len(w) \in Nat /\ Len(u) <= Len(w)
      /\ Len(s \o u) = Len(s) + Len(u) /\ Len(s \o w) = Len(s) + Len(w)
  BY Joined DEF Alike
<1>2. /\ \A i \in 1 .. Len(s) : (s \o u)[i] = s[i] /\ (s \o w)[i] = s[i]
      /\ \A i \in 1 .. Len(u) : (s \o u)[Len(s) + i] = u[i]
      /\ \A i \in 1 .. Len(w) : (s \o w)[Len(s) + i] = w[i]
  BY Joined
<1>3. ASSUME NEW i \in 1 .. Len(s) + Len(u)
      PROVE  (s \o u)[i].id = (s \o w)[i].id /\ (s \o u)[i].day = (s \o w)[i].day
  <2>1. CASE i <= Len(s)
    BY <1>1, <1>2, <2>1
  <2>2. CASE i > Len(s)
    <3> DEFINE j == i - Len(s)
    <3>1. j \in 1 .. Len(u) /\ j \in 1 .. Len(w) /\ i = Len(s) + j
      BY <1>1, <2>2
    <3> HIDE DEF j
    <3>2. (s \o u)[i] = u[j] /\ (s \o w)[i] = w[j]
      BY <1>2, <3>1
    <3> QED
      BY <3>1, <3>2 DEF Alike
  <2> QED
    BY <1>1, <2>1, <2>2
<1> QED
  BY <1>1, <1>3 DEF Alike

(* Files are only ever appended to. *)
LEMMA AppendedParts ==
  ASSUME NEW d, NEW f \in File, NEW lines \in Seq(Line), Files(d)
  PROVE  /\ Files(Appended(d, f, lines))
         /\ DOMAIN Appended(d, f, lines) = DOMAIN d \cup {f}
         /\ \A g \in DOMAIN d \ {f} : Appended(d, f, lines)[g] = d[g]
         /\ f \in DOMAIN d => Appended(d, f, lines)[f] = d[f] \o lines
         /\ f \notin DOMAIN d => Appended(d, f, lines)[f] = lines
<1> DEFINE e == Appended(d, f, lines)
<1>1. /\ DOMAIN e = DOMAIN d \cup {f}
      /\ \A g \in DOMAIN d \ {f} : e[g] = d[g]
      /\ e[f] = IF f \in DOMAIN d THEN d[f] \o lines ELSE lines
  BY DEF Appended
<1> HIDE DEF e
<1>2. e[f] \in Seq(Line)
  BY <1>1, Joined DEF Files
<1> QED
  BY <1>1, <1>2 DEF e, Files

LEMMA AppendedOn ==
  ASSUME NEW d, NEW f \in File, NEW lines \in Seq(Line), NEW x, Files(d)
  PROVE  On(Appended(d, f, lines), x) <=> On(d, x) \/ In(lines, x)
<1> DEFINE e == Appended(d, f, lines)
<1>1. /\ DOMAIN e = DOMAIN d \cup {f}
      /\ \A g \in DOMAIN d \ {f} : e[g] = d[g]
      /\ f \in DOMAIN d => e[f] = d[f] \o lines
      /\ f \notin DOMAIN d => e[f] = lines
  BY AppendedParts
<1> HIDE DEF e
<1>2. In(e[f], x) <=> (f \in DOMAIN d /\ In(d[f], x)) \/ In(lines, x)
  <2>1. CASE f \in DOMAIN d
    <3>1. In(d[f] \o lines, x) <=> In(d[f], x) \/ In(lines, x)
      BY <2>1, InParts DEF Files
    <3> QED
      BY <1>1, <2>1, <3>1
  <2>2. CASE f \notin DOMAIN d
    BY <1>1, <2>2
  <2> QED
    BY <2>1, <2>2
<1>3. On(e, x) <=> (\E g \in DOMAIN d \ {f} : In(d[g], x)) \/ In(e[f], x)
  BY <1>1 DEF On
<1>4. On(d, x) <=> (\E g \in DOMAIN d \ {f} : In(d[g], x)) \/ (f \in DOMAIN d /\ In(d[f], x))
  BY DEF On
<1> QED
  BY <1>2, <1>3, <1>4 DEF e

LEMMA TornPlace ==
  ASSUME NEW d, NEW q
  PROVE  q \in TornIn(d) <=>
           \E f \in DOMAIN d : \E i \in 1 .. Len(d[f]) : q = <<f, i>> /\ ~d[f][i].whole
BY DEF TornIn

(* Tears come only with torn lines, and of a buffer that is lost one line   *)
(* may be torn, the last that is written.                                  *)
LEMMA AppendedTorn ==
  ASSUME NEW d, NEW f \in File, NEW lines \in Seq(Line), Files(d)
  PROVE  /\ (\A i \in 1 .. Len(lines) : lines[i].whole)
              => TornIn(Appended(d, f, lines)) \subseteq TornIn(d)
         /\ (\A i \in 1 .. Len(lines) : i < Len(lines) => lines[i].whole)
              => \E p : TornIn(Appended(d, f, lines)) \subseteq TornIn(d) \cup {p}
<1> DEFINE e == Appended(d, f, lines)
           L == IF f \in DOMAIN d THEN Len(d[f]) ELSE 0
           p == <<f, L + Len(lines)>>
<1>1. /\ DOMAIN e = DOMAIN d \cup {f} /\ Files(e)
      /\ \A g \in DOMAIN d \ {f} : e[g] = d[g]
      /\ f \in DOMAIN d => e[f] = d[f] \o lines
      /\ f \notin DOMAIN d => e[f] = lines
  BY AppendedParts
<1> HIDE DEF e
<1>2. /\ L \in Nat /\ Len(lines) \in Nat /\ Len(e[f]) = L + Len(lines)
      /\ f \in DOMAIN d => \A i \in 1 .. L : e[f][i] = d[f][i]
      /\ \A i \in 1 .. Len(lines) : e[f][L + i] = lines[i]
  <2>1. CASE f \in DOMAIN d
    <3>1. d[f] \in Seq(Line) /\ L = Len(d[f])
      BY <2>1 DEF Files
    <3> QED
      BY <1>1, <2>1, <3>1, Joined
  <2>2. CASE f \notin DOMAIN d
    <3>1. L = 0 /\ e[f] = lines /\ Len(lines) \in Nat
      BY <1>1, <2>2, LenProperties
    <3> QED
      BY <2>2, <3>1
  <2> QED
    BY <2>1, <2>2
<1>3. ASSUME NEW q \in TornIn(e), q \notin TornIn(d)
      PROVE  \E i \in 1 .. Len(lines) : ~lines[i].whole /\ q = <<f, L + i>>
  <2>0. PICK g \in DOMAIN e : \E j \in 1 .. Len(e[g]) : q = <<g, j>> /\ ~e[g][j].whole
    BY <1>1, TornPlace
  <2>1. PICK j \in 1 .. Len(e[g]) : q = <<g, j>> /\ ~e[g][j].whole
    BY <2>0
  <2>2. g = f
    <3>1. g # f => g \in DOMAIN d /\ e[g] = d[g]
      BY <1>1
    <3> QED
      BY <3>1, <2>1, <1>3, TornPlace, Zenon
  <2>3. j > L
    <3> SUFFICES ASSUME j <= L PROVE FALSE
      BY <1>2, <2>1, <2>2
    <3>1. f \in DOMAIN d /\ L = Len(d[f]) /\ j \in 1 .. L
      BY <1>2, <2>1, <2>2
    <3>2. ~d[f][j].whole
      BY <1>2, <2>1, <2>2, <3>1
    <3> QED
      BY <1>3, <2>1, <2>2, <3>1, <3>2, TornPlace
  <2>4. j - L \in 1 .. Len(lines) /\ L + (j - L) = j
    BY <1>2, <2>1, <2>2, <2>3
  <2>5. ~lines[j - L].whole
    BY <1>2, <2>1, <2>2, <2>4
  <2> QED
    BY <2>1, <2>2, <2>4, <2>5
<1> HIDE DEF L
<1>4. ASSUME \A i \in 1 .. Len(lines) : i < Len(lines) => lines[i].whole
      PROVE  TornIn(e) \subseteq TornIn(d) \cup {p}
  <2> SUFFICES ASSUME NEW q \in TornIn(e), q \notin TornIn(d) PROVE q = p
    OBVIOUS
  <2>1. PICK i \in 1 .. Len(lines) : ~lines[i].whole /\ q = <<f, L + i>>
    BY <1>3
  <2>2. i = Len(lines)
    BY <1>2, <1>4, <2>1
  <2> QED
    BY <2>1, <2>2
<1>5. (\A i \in 1 .. Len(lines) : lines[i].whole) => TornIn(e) \subseteq TornIn(d)
  BY <1>3
<1> QED
  BY <1>4, <1>5 DEF e

LEMMA TableGrows ==
  ASSUME NEW f, NEW s \in Seq(Line), s # <<>>, NEW n \in Nat, NEW row \in Row,
         Table(f, s), Past(s, n), row.id = n + 1, rotateDaily => row.day = f
  PROVE  Table(f, Append(s, row)) /\ Past(Append(s, row), n + 1)
<1> DEFINE t == Append(s, row)
           L == Len(s)
<1>1. /\ L \in Nat /\ Len(t) = L + 1
      /\ \A i \in 1 .. L : t[i] = s[i] /\ s[i].id \in Nat
      /\ t[L + 1] = row
  BY LineParts, WholeIsLine, WithRow, ElementOfSeq
<1>2. L >= 1
  BY EmptySeq
<1>a. /\ \A i, j \in 1 .. L : i < j => s[i].id < s[j].id
      /\ \A i \in 1 .. L : /\ (i = 1) <=> (s[i].id = 0)
                           /\ i > 1 /\ rotateDaily => s[i].day = f
      /\ \A i \in 1 .. L : s[i].id <= n
  BY DEF Table, Ascending, Past
<1> HIDE DEF t, L
<1>3. Ascending(t)
  BY <1>1, <1>a DEF Ascending
<1>4. \A i \in 1 .. L + 1 : t[i].id <= n + 1
  BY <1>1, <1>a
<1>5. ASSUME NEW i \in 1 .. L + 1
      PROVE  /\ (i = 1) <=> (t[i].id = 0)
             /\ i > 1 /\ rotateDaily => t[i].day = f
  <2>1. CASE i = L + 1
    BY <2>1, <1>1, <1>2, LineParts
  <2>2. CASE i # L + 1
    BY <2>2, <1>1, <1>a
  <2> QED
    BY <2>1, <2>2
<1> QED
  BY <1>1, <1>3, <1>4, <1>5 DEF Table, Past, t

(* Whatever part of a buffer is written, whole or torn at its end, the     *)
(* files stay tables.                                                      *)
LEMMA PartWritten ==
  ASSUME NEW d, NEW b, NEW f \in File, NEW n, NEW u \in Seq(Line),
         Tables(d, b, n), Ready(d, b, f), Alike(u, b)
  PROVE  Tables(Appended(d, f, u), <<>>, n)
<1> DEFINE e == Appended(d, f, u)
<1>1. /\ f \in DOMAIN d /\ Files(d) /\ d[f] \in Seq(Line) /\ b \in Seq(Line)
      /\ \A g \in DOMAIN d : Table(g, d[g]) /\ Past(d[g], n)
      /\ Past(b, n) /\ Table(f, d[f] \o b)
  BY WholeIsLine DEF Tables, Ready, Files
<1>2. /\ DOMAIN e = DOMAIN d /\ Files(e)
      /\ \A g \in DOMAIN d \ {f} : e[g] = d[g]
      /\ e[f] = d[f] \o u
  <2>1. /\ Files(e) /\ DOMAIN e = DOMAIN d \cup {f}
        /\ \A g \in DOMAIN d \ {f} : e[g] = d[g]
        /\ f \in DOMAIN d => e[f] = d[f] \o u
    BY <1>1, AppendedParts
  <2> HIDE DEF e
  <2> QED
    BY <1>1, <2>1
<1> HIDE DEF e
<1>3. Past(u, n)
  BY <1>1, TableAlike
<1>4. Past(d[f] \o u, n)
  BY <1>1, <1>3, PastJoined
<1>5. Table(f, d[f] \o u)
  <2>1. d[f] \o u \in Seq(Line) /\ d[f] \o b \in Seq(Line)
    BY <1>1, Joined
  <2>2. Alike(d[f] \o u, d[f] \o b)
    BY <1>1, AlikeJoined
  <2> QED
    BY <1>1, <2>1, <2>2, TableAlike
<1>6. ASSUME NEW g \in DOMAIN e PROVE Table(g, e[g]) /\ Past(e[g], n)
  BY <1>1, <1>2, <1>4, <1>5
<1>7. <<>> \in Seq(Whole) /\ Past(<<>>, n)
  BY EmptySeq DEF Past
<1> QED
  BY <1>2, <1>6, <1>7 DEF Tables, e

LEMMA Reassembled ==
  ASSUME NEW s \in Seq(Line), NEW b \in Seq(Line), NEW k \in 0 .. Len(b)
  PROVE  (s \o SubSeq(b, 1, k)) \o SubSeq(b, k + 1, Len(b)) = s \o b
<1> DEFINE m == SubSeq(b, 1, k)
           r == SubSeq(b, k + 1, Len(b))
<1>1. m \in Seq(Line) /\ r \in Seq(Line) /\ Len(b) \in Nat
  BY Cut
<1>2. m \o r = b
  <2>1. 1 \in 1 .. Len(b) + 1 /\ k \in 1 - 1 .. Len(b) /\ Len(b) \in k .. Len(b)
    BY <1>1
  <2>2. SubSeq(b, 1, k) \o SubSeq(b, k + 1, Len(b)) = SubSeq(b, 1, Len(b))
    BY <2>1, ConcatAdjacentSubSeq
  <2> QED
    BY <2>2, SubSeqFull
<1> HIDE DEF m, r
<1>3. (s \o m) \o r = s \o (m \o r)
  BY <1>1, ConcatAssociative, SMTT(60)
<1> QED
  BY <1>2, <1>3 DEF m, r

LEMMA BeginningAlike ==
  ASSUME NEW b \in Seq(Line), NEW k \in 0 .. Len(b)
  PROVE  Alike(SubSeq(b, 1, k), b)
BY Cut DEF Alike

(* The first k lines of a buffer are written, the others are held back.    *)
LEMMA Spilt ==
  ASSUME NEW d, NEW b, NEW f \in File, NEW n \in Nat, NEW k \in 0 .. Len(b),
         Tables(d, b, n), Ready(d, b, f)
  PROVE  /\ Tables(Appended(d, f, SubSeq(b, 1, k)), SubSeq(b, k + 1, Len(b)), n)
         /\ Ready(Appended(d, f, SubSeq(b, 1, k)), SubSeq(b, k + 1, Len(b)), f)
<1> DEFINE m == SubSeq(b, 1, k)
           r == SubSeq(b, k + 1, Len(b))
           e == Appended(d, f, m)
<1>1. /\ f \in DOMAIN d /\ Files(d) /\ d[f] \in Seq(Line) /\ b \in Seq(Whole) /\ b \in Seq(Line)
      /\ Past(b, n) /\ Table(f, d[f] \o b) /\ d[f] \o b # <<>>
  BY WholeIsLine DEF Tables, Ready, Files
<1>2. /\ m \in Seq(Line) /\ r \in Seq(Whole) /\ Len(r) = Len(b) - k /\ Len(b) \in Nat
      /\ \A i \in 1 .. (Len(b) - k) : r[i] = b[k + i]
  BY <1>1, Cut
<1>3. Alike(m, b)
  BY <1>1, BeginningAlike
<1>4. (d[f] \o m) \o r = d[f] \o b
  BY <1>1, Reassembled
<1> HIDE DEF m, r
<1>5. Tables(e, <<>>, n)
  BY <1>2, <1>3, PartWritten
<1>6. f \in DOMAIN e /\ e[f] = d[f] \o m
  <2>1. /\ DOMAIN e = DOMAIN d \cup {f}
        /\ f \in DOMAIN d => e[f] = d[f] \o m
    BY <1>1, <1>2, AppendedParts
  <2> HIDE DEF e
  <2> QED
    BY <1>1, <2>1
<1> HIDE DEF e
<1>7. Past(r, n)
  <2> SUFFICES ASSUME NEW i \in 1 .. Len(r) PROVE r[i].id <= n
    BY DEF Past
  <2>1. k + i \in 1 .. Len(b) /\ r[i] = b[k + i]
    BY <1>2
  <2> QED
    BY <1>1, <2>1 DEF Past
<1>8. Tables(e, r, n)
  BY <1>2, <1>5, <1>7 DEF Tables
<1>9. Ready(e, r, f)
  BY <1>1, <1>4, <1>6 DEF Ready
<1> QED
  BY <1>8, <1>9 DEF e, m, r

(* A row goes into a buffer. *)
LEMMA RowBuffered ==
  ASSUME NEW d, NEW b, NEW f, NEW n \in Nat, NEW row \in Row, Tables(d, b, n),
         Ready(d, b, f), row.id = n + 1, rotateDaily => row.day = f
  PROVE  Tables(d, Append(b, row), n + 1) /\ Ready(d, Append(b, row), f)
<1> DEFINE s == d[f]
           c == Append(b, row)
<1>1. /\ f \in DOMAIN d /\ s \in Seq(Line) /\ b \in Seq(Whole) /\ b \in Seq(Line)
      /\ row \in Line /\ row \in Whole
      /\ Past(s, n) /\ Past(b, n) /\ Table(f, s \o b) /\ s \o b # <<>>
  BY WholeIsLine, LineParts DEF Tables, Ready, Files
<1>2. /\ c \in Seq(Whole) /\ Len(b) \in Nat /\ Len(c) = Len(b) + 1
      /\ \A i \in 1 .. Len(b) : c[i] = b[i]
      /\ c[Len(b) + 1] = row
  BY <1>1, WithRow
<1>3. s \o c = Append(s \o b, row)
  <2>1. c = b \o <<row>> /\ <<row>> \in Seq(Line)
    BY <1>1, AppendIsConcat
  <2>2. s \o (b \o <<row>>) = (s \o b) \o <<row>>
    BY <1>1, <2>1, ConcatAssociative
  <2>3. Append(s \o b, row) = (s \o b) \o <<row>>
    BY <1>1, Joined, AppendIsConcat
  <2> QED
    BY <2>1, <2>2, <2>3
<1> HIDE DEF s, c
<1>4. s \o b \in Seq(Line) /\ Past(s \o b, n)
  BY <1>1, Joined, PastJoined
<1>5. Table(f, s \o c)
  BY <1>1, <1>3, <1>4, TableGrows
<1>6. s \o c # <<>>
  <2>1. Len(Append(s \o b, row)) = Len(s \o b) + 1 /\ Len(s \o b) \in Nat
    BY <1>1, <1>4, WithRow
  <2>2. Len(s \o c) # 0
    BY <1>3, <2>1
  <2> QED
    BY <2>2
<1>7. Ready(d, c, f)
  BY <1>1, <1>5, <1>6 DEF Ready, s
<1>8. ASSUME NEW t \in Seq(Line), Past(t, n) PROVE Past(t, n + 1)
  <2>1. \A i \in 1 .. Len(t) : t[i].id \in Nat
    BY LineParts, ElementOfSeq
  <2> QED
    BY <1>8, <2>1 DEF Past
<1>9. Past(c, n + 1)
  <2> SUFFICES ASSUME NEW i \in 1 .. Len(b) + 1 PROVE c[i].id <= n + 1
    BY <1>2 DEF Past
  <2>1. Past(b, n + 1)
    BY <1>1, <1>8
  <2> QED
    BY <1>2, <2>1 DEF Past
<1>10. \A g \in DOMAIN d : Past(d[g], n + 1)
  BY <1>8 DEF Tables, Files
<1> QED
  BY <1>2, <1>7, <1>9, <1>10 DEF Tables, c

-----------------------------------------------------------------------------
(* From what is open to a file that a row can be written to.               *)
LEMMA PathIsFile ==
  ASSUME NEW day \in 0 .. LastDay
  PROVE  PathFor(day) \in File
<1>1. LastDay \in Nat
  BY CsvLogAssumption
<1> QED
  BY <1>1 DEF PathFor, File

LEMMA NothingWritten ==
  /\ <<>> \in Seq(Line) /\ <<>> \in Seq(Whole) /\ <<>> \in Seq(Row) /\ Len(<<>>) = 0
  /\ \A n : Past(<<>>, n)
BY EmptySeq DEF Past

LEMMA HeaderAlone ==
  ASSUME NEW f, NEW n \in Nat
  PROVE  <<Header>> \in Seq(Whole) /\ Table(f, <<Header>>) /\ Past(<<Header>>, n)
<1>1. Header \in Whole /\ Header.id = 0
  BY LineParts
<1>2. /\ <<Header>> \in Seq(Whole) /\ Len(<<Header>>) = 1 /\ <<Header>>[1] = Header
  BY <1>1
<1>3. \A i \in 1 .. 1 : i = 1
  OBVIOUS
<1> QED
  BY <1>1, <1>2, <1>3 DEF Table, Ascending, Past

LEMMA WholeLines ==
  ASSUME NEW s \in Seq(Whole)
  PROVE  s \in Seq(Line) /\ \A i \in 1 .. Len(s) : s[i].whole
BY WholeIsLine, LineParts, ElementOfSeq

LEMMA AlikeItself ==
  ASSUME NEW s \in Seq(Line) PROVE Alike(s, s)
BY LenProperties DEF Alike

(* What is closed at a rotation. *)
LEMMA ClosedParts ==
  ASSUME FileInv, TypeOK
  PROVE  /\ Tables(Closed, <<>>, events)
         /\ \A x : On(Closed, x) <=> On(disk, x) \/ In(buffer, x)
         /\ TornIn(Closed) \subseteq TornIn(disk)
<1>1. /\ Tables(disk, buffer, events) /\ Files(disk) /\ PathFor(openDay) \in File
      /\ buffer \in Seq(Line) /\ \A i \in 1 .. Len(buffer) : buffer[i].whole
      /\ handle = "open" => Ready(disk, buffer, PathFor(openDay))
      /\ handle # "open" => buffer = <<>>
  BY PathIsFile, WholeLines DEF FileInv, TypeOK, CsvTypeOK, Tables
<1>2. CASE handle # "open"
  <2>1. Closed = disk /\ Len(buffer) = 0
    BY <1>1, <1>2, EmptySeq DEF Closed
  <2>2. \A x : ~In(buffer, x)
    BY <2>1 DEF In
  <2> QED
    BY <1>1, <2>1, <2>2, NothingWritten DEF Tables
<1>3. CASE handle = "open"
  <2> DEFINE f == PathFor(openDay)
  <2>1. Closed = Appended(disk, f, buffer)
    BY <1>3 DEF Closed
  <2> HIDE DEF f
  <2>2. f \in File /\ Ready(disk, buffer, f) /\ Alike(buffer, buffer)
    BY <1>1, <1>3, AlikeItself DEF f
  <2>3. Tables(Closed, <<>>, events)
    BY <1>1, <2>1, <2>2, PartWritten
  <2>4. \A x : On(Closed, x) <=> On(disk, x) \/ In(buffer, x)
    BY <1>1, <2>1, <2>2, AppendedOn
  <2>5. TornIn(Closed) \subseteq TornIn(disk)
    BY <1>1, <2>1, <2>2, AppendedTorn
  <2> QED
    BY <2>3, <2>4, <2>5
<1> QED
  BY <1>2, <1>3

(* The file of the day is opened, with its header if it is new.            *)
LEMMA OpenedParts ==
  ASSUME FileInv, TypeOK
  PROVE  /\ Tables(Opened.disk, Opened.buffer, events)
         /\ Ready(Opened.disk, Opened.buffer, PathFor(today))
         /\ \A x : On(Opened.disk, x) <=> On(disk, x) \/ In(buffer, x)
         /\ TornIn(Opened.disk) \subseteq TornIn(disk)
<1> DEFINE f == PathFor(today)
           c == Closed
           b == Opened.buffer
           e == Opened.disk
<1>1. /\ f \in File /\ events \in Nat
      /\ Tables(c, <<>>, events) /\ Files(c)
      /\ \A x : On(c, x) <=> On(disk, x) \/ In(buffer, x)
      /\ TornIn(c) \subseteq TornIn(disk)
  BY CsvLogAssumption, PathIsFile, ClosedParts DEF TypeOK, CsvTypeOK, Tables
<1>2. /\ b = IF f \notin DOMAIN c \/ c[f] = <<>> THEN <<Header>> ELSE <<>>
      /\ e = Appended(c, f, <<>>)
  BY DEF Opened, IsNew
<1> HIDE DEF f, c, b, e
<1>3. \A g \in DOMAIN c : c[g] \in Seq(Line) /\ Table(g, c[g]) /\ Past(c[g], events)
  BY <1>1 DEF Tables, Files
<1>4. /\ DOMAIN e = DOMAIN c \cup {f} /\ Files(e)
      /\ \A g \in DOMAIN c \ {f} : e[g] = c[g]
      /\ f \in DOMAIN c => e[f] = c[f] \o <<>>
      /\ f \notin DOMAIN c => e[f] = <<>>
  <2> DEFINE none == <<>>
  <2>1. none \in Seq(Line) /\ e = Appended(c, f, none)
    BY <1>2, NothingWritten
  <2> HIDE DEF none
  <2>2. f \in File /\ Files(c) /\ none \in Seq(Line)
    BY <1>1, <2>1
  <2>3. /\ Files(Appended(c, f, none))
        /\ DOMAIN Appended(c, f, none) = DOMAIN c \cup {f}
        /\ \A g \in DOMAIN c \ {f} : Appended(c, f, none)[g] = c[g]
        /\ f \in DOMAIN c => Appended(c, f, none)[f] = c[f] \o none
        /\ f \notin DOMAIN c => Appended(c, f, none)[f] = none
    BY <2>2, AppendedParts, Zenon
  <2> QED
    BY <2>1, <2>3, Zenon DEF none
<1>5. f \in DOMAIN c => e[f] = c[f]
  BY <1>3, <1>4, ConcatEmptySeq
<1>6. /\ e[f] \in Seq(Line) /\ Table(f, e[f]) /\ Past(e[f], events)
      /\ IF e[f] = <<>> THEN b = <<Header>> ELSE b = <<>>
  <2>1. Table(f, <<>>)
    BY EmptySeq DEF Table, Ascending
  <2> QED
    BY <2>1, <1>2, <1>3, <1>4, <1>5, NothingWritten
<1>7. /\ b \in Seq(Whole) /\ Past(b, events)
      /\ Table(f, e[f] \o b) /\ e[f] \o b # <<>>
  <2>1. CASE e[f] = <<>>
    <3>1. /\ b = <<Header>> /\ <<Header>> \in Seq(Whole) /\ Table(f, <<Header>>)
          /\ Past(<<Header>>, events)
      BY <1>1, <1>6, <2>1, HeaderAlone
    <3>2. e[f] \o b = <<Header>> /\ <<Header>> # <<>>
      BY <3>1, <2>1, ConcatEmptySeq
    <3> QED
      BY <3>1, <3>2
  <2>2. CASE e[f] # <<>>
    <3>1. b = <<>> /\ e[f] \o <<>> = e[f]
      BY <1>6, <2>2, ConcatEmptySeq
    <3> QED
      BY <3>1, <1>6, <2>2, NothingWritten
  <2> QED
    BY <2>1, <2>2
<1>8. \A g \in DOMAIN e : Table(g, e[g]) /\ Past(e[g], events)
  BY <1>3, <1>4, <1>6
<1>9. Tables(e, b, events) /\ Ready(e, b, f)
  BY <1>4, <1>7, <1>8 DEF Tables, Ready
<1>10. \A x : On(e, x) <=> On(c, x)
  <2>1. \A x : ~In(<<>>, x)
    BY EmptySeq DEF In
  <2> QED
    BY <1>1, <1>2, <2>1, NothingWritten, AppendedOn
<1>11. TornIn(e) \subseteq TornIn(c)
  <2>1. <<>> \in Seq(Line) /\ \A i \in 1 .. Len(<<>>) : <<>>[i].whole
    BY NothingWritten
  <2> QED
    BY <1>1, <1>2, <2>1, AppendedTorn
<1> QED
  BY <1>1, <1>9, <1>10, <1>11 DEF f, b, e, c

LEMMA EnsureReady ==
  ASSUME FileInv, TypeOK
  PROVE  /\ Tables(EnsureFile.disk, EnsureFile.buffer, events)
         /\ Ready(EnsureFile.disk, EnsureFile.buffer, PathFor(today))
         /\ TornIn(EnsureFile.disk) \subseteq TornIn(disk)
         /\ Files(EnsureFile.disk) /\ EnsureFile.buffer \in Seq(Whole)
<1>1. CASE HasFile
  <2>1. EnsureFile.disk = disk /\ EnsureFile.buffer = buffer
    BY <1>1 DEF EnsureFile
  <2>2. handle = "open" /\ openDay = today
    <3>1. handle # "none" /\ openDay = today
      BY <1>1 DEF HasFile
    <3>2. handle = "closed" => openDay < today
      BY DEF FileInv
    <3>3. openDay \in Int /\ handle \in {"none", "open", "closed"}
      BY DEF TypeOK, CsvTypeOK
    <3> QED
      BY <3>1, <3>2, <3>3
  <2> QED
    BY <2>1, <2>2 DEF FileInv, Tables
<1>2. CASE ~HasFile
  BY <1>2, OpenedParts DEF EnsureFile, Tables
<1> QED
  BY <1>1, <1>2 DEF Tables

(* Opening a file loses no row, and leaves none at risk unless there was a *)
(* file to write to.                                                       *)
LEMMA EnsureCovers ==
  ASSUME FileInv, TypeOK, NEW acc, NEW gone, Covered(disk, buffer, acc, gone)
  PROVE  /\ Covered(EnsureFile.disk, EnsureFile.buffer, acc, gone)
         /\ \/ EnsureFile.disk = disk
            \/ Risk(EnsureFile.disk, acc, gone) = {}
<1>1. CASE HasFile
  BY <1>1 DEF EnsureFile
<1>2. CASE ~HasFile
  BY <1>2, OpenedParts DEF EnsureFile, Covered, Risk
<1> QED
  BY <1>1, <1>2

-----------------------------------------------------------------------------
(* The three ways in which emit() writes a row differ in how much of the   *)
(* buffer reaches the disk.                                                *)
Lines == Append(EnsureFile.buffer, Event)
Writes(k) ==
  /\ events < MaxEvents /\ k \in 0 .. Len(Lines)
  /\ disk' = Appended(EnsureFile.disk, PathFor(today), SubSeq(Lines, 1, k))
  /\ buffer' = SubSeq(Lines, k + 1, Len(Lines))
  /\ split' \in BOOLEAN /\ (split' => k < Len(Lines))
  /\ events' = events + 1 /\ accepted' = Append(accepted, Event)
  /\ handle' = "open" /\ openDay' = today
  /\ UNCHANGED <<rotateDaily, today, forfeited, losses>>

LEMMA EventIsRow ==
  ASSUME TypeOK, events < MaxEvents
  PROVE  /\ Event \in Row /\ Event \in Whole /\ Event.id = events + 1
         /\ rotateDaily => Event.day = PathFor(today)
<1>1. events \in Nat /\ MaxEvents \in Nat /\ LastDay \in Nat /\ today \in 1 .. LastDay
  BY CsvLogAssumption DEF TypeOK, CsvTypeOK
<1>2. events + 1 \in 1 .. MaxEvents
  BY <1>1
<1>3. Event \in Row
  BY <1>1, <1>2, Zenon DEF Event, Row
<1> QED
  BY <1>1, <1>3, WholeIsLine DEF Event, Whole, PathFor

LEMMA LinesTyped ==
  ASSUME FileInv, TypeOK, events < MaxEvents
  PROVE  /\ Lines \in Seq(Whole) /\ Lines \in Seq(Line) /\ Len(Lines) \in Nat
         /\ Tables(EnsureFile.disk, Lines, events + 1)
         /\ Ready(EnsureFile.disk, Lines, PathFor(today))
<1>1. EnsureFile.buffer \in Seq(Whole)
  BY EnsureReady
<1>2. Event \in Whole /\ Event \in Row /\ Event.id = events + 1
  BY EventIsRow
<1>3. rotateDaily => Event.day = PathFor(today)
  BY EventIsRow
<1>4. Lines \in Seq(Whole) /\ Len(Lines) \in Nat
  BY <1>1, <1>2, WithRow, LenProperties DEF Lines
<1>5. events \in Nat
  BY DEF TypeOK, CsvTypeOK
<1>6. /\ Tables(EnsureFile.disk, EnsureFile.buffer, events)
      /\ Ready(EnsureFile.disk, EnsureFile.buffer, PathFor(today))
  BY EnsureReady
<1> DEFINE d == EnsureFile.disk
           b == EnsureFile.buffer
           f == PathFor(today)
           row == Event
<1> HIDE DEF d, b, f, row
<1>7. Tables(d, Append(b, row), events + 1) /\ Ready(d, Append(b, row), f)
  BY <1>2, <1>3, <1>5, <1>6, RowBuffered DEF d, b, f, row
<1> QED
  BY <1>4, <1>7, WholeLines DEF Lines, d, b, f, row

LEMMA EmitWrites ==
  ASSUME FileInv, TypeOK, EmitBuffered \/ EmitFlushed \/ FlushRaises
  PROVE  \E k \in 0 .. Len(Lines) : Writes(k) /\ (EmitFlushed => k = Len(Lines))
<1>1. Accept
  BY DEF EmitBuffered, EmitFlushed, FlushRaises
<1>2. /\ events < MaxEvents
      /\ events' = events + 1 /\ accepted' = Append(accepted, Event)
      /\ handle' = "open" /\ openDay' = today
      /\ UNCHANGED <<rotateDaily, today, forfeited, losses>>
  BY <1>1 DEF Accept
<1>3. Lines \in Seq(Whole) /\ Len(Lines) \in Nat
  BY <1>2, LinesTyped
<1>4. PathFor(openDay') = PathFor(today)
  BY <1>2 DEF PathFor
<1>5. CASE EmitBuffered
  <2>1. PICK n \in 0 .. Len(Lines), t \in BOOLEAN :
          Leaves(Lines, n, t, EnsureFile.split)
          /\ WrittenUpTo(EnsureFile.disk, PathFor(today), Lines, n, t)
    BY <1>5 DEF EmitBuffered, Write, Lines
  <2>2. Writes(n)
    BY <1>2, <2>1 DEF Writes, WrittenUpTo, Leaves
  <2>3. ~EmitFlushed
    BY <1>5 DEF EmitBuffered, EmitFlushed
  <2> QED
    BY <2>2, <2>3
<1>6. CASE EmitFlushed
  <2> DEFINE n == Len(Lines)
  <2>1. /\ disk' = Appended(EnsureFile.disk, PathFor(today), Lines)
        /\ buffer' = <<>> /\ split' = FALSE
    BY <1>6 DEF EmitFlushed, Lines
  <2>2. SubSeq(Lines, 1, n) = Lines /\ SubSeq(Lines, n + 1, n) = <<>> /\ n \in 0 .. n
    BY <1>3, SubSeqFull, SubSeqEmpty
  <2>3. Writes(n)
    BY <1>2, <2>1, <2>2 DEF Writes
  <2> QED
    BY <2>2, <2>3
<1>7. CASE FlushRaises
  <2>1. PICK n \in 0 .. (Len(Lines) - 1), t \in BOOLEAN :
          Leaves(Lines, n, t, EnsureFile.split)
          /\ WrittenUpTo(EnsureFile.disk, PathFor(openDay'), Lines, n, t)
    BY <1>7 DEF FlushRaises, FlushStops, Lines
  <2>2. n \in 0 .. Len(Lines)
    BY <1>3
  <2>3. Writes(n)
    BY <1>2, <1>4, <2>1, <2>2 DEF Writes, WrittenUpTo, Leaves
  <2>4. diskFaults' = diskFaults + 1 /\ diskFaults \in Nat
    BY <1>7, CsvLogAssumption DEF FlushRaises, FlushStops, DiskRefuses, TypeOK, CsvTypeOK
  <2>5. ~EmitFlushed
    BY <2>4 DEF EmitFlushed
  <2> QED
    BY <2>2, <2>3, <2>5
<1> QED
  BY <1>5, <1>6, <1>7

-----------------------------------------------------------------------------
(* The types. *)
LEMMA WritesTyped ==
  ASSUME FileInv, TypeOK, NEW k \in 0 .. Len(Lines), Writes(k)
  PROVE  /\ Tables(disk', buffer', events') /\ Ready(disk', buffer', PathFor(today))
         /\ accepted' \in Seq(Row) /\ events' \in 0 .. MaxEvents
         /\ split' \in BOOLEAN /\ (split' => buffer' # <<>>)
         /\ TornIn(disk') \subseteq TornIn(disk)
<1> DEFINE d == EnsureFile.disk
           f == PathFor(today)
           b == Lines
<1>1. /\ events < MaxEvents /\ events \in Nat /\ events' = events + 1 /\ MaxEvents \in Nat
      /\ accepted \in Seq(Row) /\ accepted' = Append(accepted, Event)
      /\ disk' = Appended(d, f, SubSeq(b, 1, k)) /\ buffer' = SubSeq(b, k + 1, Len(b))
      /\ split' \in BOOLEAN /\ (split' => k < Len(b))
  BY CsvLogAssumption DEF TypeOK, CsvTypeOK, Writes
<1>2. /\ b \in Seq(Whole) /\ Len(b) \in Nat /\ Tables(d, b, events + 1) /\ Ready(d, b, f)
      /\ Files(d) /\ TornIn(d) \subseteq TornIn(disk)
  BY <1>1, LinesTyped, EnsureReady
<1>3. f \in File /\ Event \in Row /\ k \in 0 .. Len(b)
  BY <1>1, PathIsFile, EventIsRow DEF TypeOK, CsvTypeOK
<1> HIDE DEF b, d, f
<1>4. /\ Tables(Appended(d, f, SubSeq(b, 1, k)), SubSeq(b, k + 1, Len(b)), events + 1)
      /\ Ready(Appended(d, f, SubSeq(b, 1, k)), SubSeq(b, k + 1, Len(b)), f)
  BY <1>1, <1>2, <1>3, Spilt
<1>5. accepted' \in Seq(Row)
  BY <1>1, <1>3, AppendProperties
<1>6. events' \in 0 .. MaxEvents
  BY <1>1
<1>7. split' => buffer' # <<>>
  <2>1. Len(SubSeq(b, k + 1, Len(b))) = Len(b) - k
    BY <1>2, <1>3, Cut
  <2>2. split' => Len(buffer') # 0
    BY <1>1, <1>2, <1>3, <2>1
  <2> QED
    BY <2>2, EmptySeq
<1>8. TornIn(Appended(d, f, SubSeq(b, 1, k))) \subseteq TornIn(d)
  <2>1. SubSeq(b, 1, k) \in Seq(Whole)
    BY <1>2, <1>3, Cut
  <2>2. SubSeq(b, 1, k) \in Seq(Line) /\ \A i \in 1 .. Len(SubSeq(b, 1, k)) : SubSeq(b, 1, k)[i].whole
    BY <2>1, WholeLines
  <2> QED
    BY <1>2, <1>3, <2>2, AppendedTorn
<1> QED
  BY <1>1, <1>2, <1>4, <1>5, <1>6, <1>7, <1>8 DEF f

(* What is left of a buffer that is lost. *)
LEMMA CutParts ==
  ASSUME NEW b \in Seq(Whole), NEW n \in 0 .. (Len(b) - 1), NEW t \in BOOLEAN
  PROVE  LET u == SubSeq(b, 1, n) \o (IF t THEN <<Torn(b[n + 1])>> ELSE <<>>)
         IN  /\ u \in Seq(Line) /\ Alike(u, b)
             /\ \A i \in 1 .. Len(u) : i < Len(u) => u[i].whole
             /\ \A x \in Row : In(u, x) <=> In(SubSeq(b, 1, n), x)
<1> DEFINE m == SubSeq(b, 1, n)
           z == Torn(b[n + 1])
           u == m \o (IF t THEN <<z>> ELSE <<>>)
<1>1. /\ Len(b) \in Nat /\ n \in 0 .. Len(b) /\ n + 1 \in 1 .. Len(b) /\ n \in Nat
      /\ b \in Seq(Line)
  BY WholeIsLine, LenProperties
<1>2. /\ m \in Seq(Whole) /\ Len(m) = n /\ \A i \in 1 .. n : m[i] = b[i]
  BY <1>1, Cut
<1>3. m \in Seq(Line) /\ \A i \in 1 .. n : m[i].whole
  BY <1>2, WholeLines
<1>4. /\ z \in Line /\ z.id = b[n + 1].id /\ z.day = b[n + 1].day /\ z \notin Row
  BY <1>1, TornParts, ElementOfSeq
<1>5. CASE t
  <2>1. u = Append(m, z)
    BY <1>3, <1>4, <1>5, AppendIsConcat
  <2> HIDE DEF u, m, z
  <2>2. /\ u \in Seq(Line) /\ Len(u) = n + 1
        /\ \A i \in 1 .. n : u[i] = b[i] /\ u[i].whole
        /\ u[n + 1] = z
    BY <1>2, <1>3, <1>4, <2>1, WithRow
  <2>3. Alike(u, b)
    <3> SUFFICES ASSUME NEW i \in 1 .. n + 1 PROVE u[i].id = b[i].id /\ u[i].day = b[i].day
      BY <1>1, <2>2 DEF Alike
    <3>1. CASE i = n + 1
      BY <1>4, <2>2, <3>1
    <3>2. CASE i # n + 1
      BY <1>1, <2>2, <3>2
    <3> QED
      BY <3>1, <3>2
  <2>4. ASSUME NEW x \in Row PROVE In(u, x) <=> In(m, x)
    <3>1. z # x
      BY <1>4, <2>4
    <3>2. In(m, x) <=> \E i \in 1 .. n : b[i] = x
      BY <1>2 DEF In
    <3>3. In(u, x) <=> \E i \in 1 .. n : b[i] = x
      <4>1. \A i \in 1 .. n + 1 : i \in 1 .. n \/ i = n + 1
        BY <1>1
      <4>2. \A i \in 1 .. n : i \in 1 .. n + 1
        BY <1>1
      <4> QED
        BY <2>2, <3>1, <4>1, <4>2 DEF In
    <3> QED
      BY <3>2, <3>3
  <2>5. \A i \in 1 .. Len(u) : i < Len(u) => u[i].whole
    BY <1>1, <2>2
  <2> QED
    BY <2>2, <2>3, <2>4, <2>5 DEF u, m, z
<1>6. CASE ~t
  <2>1. u = m
    BY <1>3, <1>6, ConcatEmptySeq
  <2>2. Alike(m, b)
    BY <1>1, BeginningAlike
  <2> HIDE DEF u, m, z
  <2> QED
    BY <1>2, <1>3, <2>1, <2>2 DEF u, m, z
<1> QED
  BY <1>5, <1>6

LEMMA CutOffParts ==
  ASSUME FileInv, TypeOK, handle = "open", NEW n \in 0 .. (Len(buffer) - 1), NEW t \in BOOLEAN
  PROVE  /\ Tables(CutOff(n, t), <<>>, events)
         /\ \A x \in Row : On(CutOff(n, t), x) <=> On(disk, x) \/ In(SubSeq(buffer, 1, n), x)
         /\ \E p : TornIn(CutOff(n, t)) \subseteq TornIn(disk) \cup {p}
<1> DEFINE u == SubSeq(buffer, 1, n) \o (IF t THEN <<Torn(buffer[n + 1])>> ELSE <<>>)
           f == PathFor(openDay)
<1>1. buffer \in Seq(Whole) /\ Tables(disk, buffer, events) /\ Ready(disk, buffer, f) /\ Files(disk)
  BY DEF FileInv, Tables
<1>2. f \in File
  BY PathIsFile DEF TypeOK, CsvTypeOK
<1>3. /\ u \in Seq(Line) /\ Alike(u, buffer)
      /\ \A i \in 1 .. Len(u) : i < Len(u) => u[i].whole
      /\ \A x \in Row : In(u, x) <=> In(SubSeq(buffer, 1, n), x)
  BY <1>1, CutParts
<1>4. CutOff(n, t) = Appended(disk, f, u)
  BY DEF CutOff
<1> HIDE DEF u, f
<1>5. Tables(CutOff(n, t), <<>>, events)
  BY <1>1, <1>2, <1>3, <1>4, PartWritten
<1>6. \A x : On(CutOff(n, t), x) <=> On(disk, x) \/ In(u, x)
  BY <1>1, <1>2, <1>3, <1>4, AppendedOn
<1>7. \E p : TornIn(CutOff(n, t)) \subseteq TornIn(disk) \cup {p}
  BY <1>1, <1>2, <1>3, <1>4, AppendedTorn
<1> QED
  BY <1>3, <1>5, <1>6, <1>7

(* A step tears no line, or it loses a buffer and tears one.               *)
TearsCounted ==
  \/ TornIn(disk') \subseteq TornIn(disk) /\ losses' = losses
  \/ losses' = losses + 1 /\ \E p : TornIn(disk') \subseteq TornIn(disk) \cup {p}

FileStep == FileInv' /\ CsvTypeOK' /\ TearsCounted

(* What FileInv asks of the state after a step that keeps rotateDaily.     *)
LEMMA FileInvFrom ==
  ASSUME UNCHANGED rotateDaily, Tables(disk', buffer', events'),
         handle' = "open" => openDay' >= 1 /\ Ready(disk', buffer', PathFor(openDay')),
         openDay' <= today', handle' = "closed" => openDay' < today'
  PROVE  FileInv'
BY DEF FileInv, Tables, Files, Ready, Table, PathFor

LEMMA TablesLater ==
  ASSUME NEW d, NEW b, NEW n \in Nat, Tables(d, b, n)
  PROVE  Tables(d, <<>>, n) /\ Tables(d, b, n + 1) /\ Tables(d, <<>>, n + 1)
<1>1. ASSUME NEW s \in Seq(Line), Past(s, n) PROVE Past(s, n + 1)
  <2>1. \A i \in 1 .. Len(s) : s[i].id \in Nat
    BY LineParts, ElementOfSeq
  <2> QED
    BY <1>1, <2>1 DEF Past
<1> QED
  BY <1>1, NothingWritten, WholeIsLine DEF Tables, Files

LEMMA WrittenStep ==
  ASSUME FileInv, TypeOK, EmitBuffered \/ EmitFlushed \/ FlushRaises
  PROVE  FileStep
<1>1. PICK k \in 0 .. Len(Lines) : Writes(k)
  BY EmitWrites
<1>2. /\ Tables(disk', buffer', events') /\ Ready(disk', buffer', PathFor(today))
      /\ accepted' \in Seq(Row) /\ events' \in 0 .. MaxEvents
      /\ split' \in BOOLEAN /\ (split' => buffer' # <<>>)
      /\ TornIn(disk') \subseteq TornIn(disk)
  BY <1>1, WritesTyped
<1>3. /\ handle' = "open" /\ openDay' = today /\ UNCHANGED <<rotateDaily, today, forfeited, losses>>
      /\ today \in 1 .. LastDay /\ LastDay \in Nat /\ rotateDaily \in BOOLEAN /\ forfeited \subseteq Row
      /\ diskFaults \in 0 .. MaxDiskFaults /\ MaxDiskFaults \in Nat /\ sinceFlush \in Nat /\ losses \in Nat
  BY <1>1, CsvLogAssumption DEF Writes, TypeOK, CsvTypeOK
<1>4. PathFor(openDay') = PathFor(today)
  BY <1>3
<1>5. FileInv'
  BY <1>2, <1>3, <1>4, FileInvFrom
<1>6. sinceFlush' \in Nat /\ diskFaults' \in 0 .. MaxDiskFaults
  BY <1>3 DEF EmitBuffered, EmitFlushed, FlushRaises, FlushStops, DiskRefuses
<1>7. CsvTypeOK'
  BY <1>2, <1>3, <1>6 DEF CsvTypeOK, Tables, Files, Line, Whole
<1> QED
  BY <1>2, <1>3, <1>5, <1>7 DEF FileStep, TearsCounted

(* What a step leaves behind that closes the file and opens none.          *)
LEMMA ClosedStep ==
  ASSUME FileInv, TypeOK,
         \/ Tables(disk', <<>>, events)
         \/ UNCHANGED disk,
         buffer' = <<>>, handle' \in {"none", "closed"}, handle' = "closed" => openDay' < today',
         events' \in {events, events + 1}, UNCHANGED rotateDaily, openDay' <= today'
  PROVE  FileInv' /\ Files(disk')
<1>1. events \in Nat /\ Tables(disk, <<>>, events)
  <2>1. events \in Nat /\ Tables(disk, buffer, events)
    BY CsvLogAssumption DEF TypeOK, CsvTypeOK, FileInv
  <2> QED
    BY <2>1, TablesLater
<1>2. Tables(disk', buffer', events')
  BY <1>1, TablesLater
<1> QED
  BY <1>2, FileInvFrom DEF Tables

LEMMA ClosedTyped ==
  ASSUME TypeOK, Files(disk'), UNCHANGED <<rotateDaily, today>>, buffer' = <<>>, split' = FALSE,
         handle' \in {"none", "open", "closed"}, openDay' \in 0 .. LastDay, sinceFlush' \in Nat,
         events' \in 0 .. MaxEvents, accepted' \in Seq(Row), forfeited' \subseteq Row,
         losses' \in Nat, diskFaults' \in 0 .. MaxDiskFaults
  PROVE  CsvTypeOK'
<1>1. /\ rotateDaily' \in BOOLEAN /\ split' \in BOOLEAN /\ today' \in 1 .. LastDay
      /\ (split' => buffer' # <<>>) /\ (handle' # "open" => buffer' = <<>>)
  BY DEF TypeOK, CsvTypeOK
<1>2. buffer' \in Seq(Row \cup {Header})
  BY NothingWritten DEF Whole
<1>3. DOMAIN disk' \subseteq File /\ \A f \in DOMAIN disk' : disk'[f] \in Seq(Piece)
  BY DEF Files, Line
<1> QED
  BY <1>1, <1>2, <1>3, Zenon DEF CsvTypeOK

LEMMA CloseRaisesStep ==
  ASSUME FileInv, TypeOK, CloseRaises
  PROVE  FileStep
<1>1. /\ events < MaxEvents /\ events \in 0 .. MaxEvents /\ MaxEvents \in Nat /\ events' = events + 1
      /\ openDay # today /\ openDay \in 0 .. LastDay /\ today \in 1 .. LastDay /\ LastDay \in Nat
      /\ diskFaults' = diskFaults + 1 /\ diskFaults < MaxDiskFaults
      /\ diskFaults \in 0 .. MaxDiskFaults /\ MaxDiskFaults \in Nat /\ losses \in Nat
      /\ handle = "open" /\ handle' = "closed" /\ buffer' = <<>> /\ split' = FALSE
      /\ losses' = losses + 1
      /\ UNCHANGED <<rotateDaily, today, openDay, sinceFlush, accepted>>
  BY CsvLogAssumption DEF TypeOK, CsvTypeOK, CloseRaises, DiskRefuses
<1>2. PICK n \in 0 .. (Len(buffer) - 1), t \in BOOLEAN :
        /\ disk' = CutOff(n, t)
        /\ forfeited' = forfeited \cup ({buffer[i] : i \in (n + 1) .. Len(buffer)} \ {Header})
  BY DEF CloseRaises
<1>3. /\ Tables(disk', <<>>, events) /\ openDay <= today
      /\ \E p : TornIn(disk') \subseteq TornIn(disk) \cup {p}
  BY <1>1, <1>2, CutOffParts DEF FileInv
<1>4. FileInv' /\ Files(disk')
  BY <1>1, <1>3, ClosedStep
<1>5. forfeited' \subseteq Row
  <2>1. buffer \in Seq(Whole) /\ forfeited \subseteq Row /\ n \in Nat
    BY <1>2 DEF TypeOK, CsvTypeOK, Whole
  <2>2. {buffer[i] : i \in (n + 1) .. Len(buffer)} \subseteq Whole
    BY <2>1, ElementOfSeq, LenProperties
  <2> QED
    BY <1>2, <2>1, <2>2 DEF Whole
<1>6. CsvTypeOK'
  <2>1. /\ handle' \in {"none", "open", "closed"} /\ openDay' \in 0 .. LastDay /\ sinceFlush' \in Nat
        /\ events' \in 0 .. MaxEvents /\ losses' \in Nat /\ diskFaults' \in 0 .. MaxDiskFaults
    BY <1>1 DEF TypeOK, CsvTypeOK
  <2>2. accepted' \in Seq(Row) /\ forfeited' \subseteq Row
    BY <1>1, <1>5, NothingWritten DEF TypeOK, CsvTypeOK
  <2> QED
    BY <1>1, <1>4, <2>1, <2>2, ClosedTyped
<1> QED
  BY <1>1, <1>3, <1>4, <1>6 DEF FileStep, TearsCounted

LEMMA OpenRaisesStep ==
  ASSUME FileInv, TypeOK, OpenRaises
  PROVE  FileStep
<1>1. /\ events < MaxEvents /\ events \in 0 .. MaxEvents /\ MaxEvents \in Nat /\ events' = events + 1
      /\ openDay \in 0 .. LastDay /\ today \in 1 .. LastDay /\ LastDay \in Nat
      /\ diskFaults' = diskFaults + 1 /\ diskFaults < MaxDiskFaults
      /\ diskFaults \in 0 .. MaxDiskFaults /\ MaxDiskFaults \in Nat /\ losses \in Nat
      /\ handle' = (IF handle = "none" THEN "none" ELSE "closed") /\ buffer' = <<>> /\ disk' = Closed
      /\ handle = "none" \/ openDay # today
      /\ split' = FALSE
      /\ UNCHANGED <<rotateDaily, today, openDay, sinceFlush, accepted, forfeited, losses>>
  BY CsvLogAssumption DEF TypeOK, CsvTypeOK, OpenRaises, DiskRefuses, HasFile
<1>2. openDay <= today /\ Tables(disk', <<>>, events) /\ TornIn(disk') \subseteq TornIn(disk)
  BY <1>1, ClosedParts DEF FileInv
<1>3. FileInv' /\ Files(disk')
  BY <1>1, <1>2, ClosedStep
<1>4. CsvTypeOK'
  <2>1. /\ handle' \in {"none", "open", "closed"} /\ openDay' \in 0 .. LastDay /\ sinceFlush' \in Nat
        /\ events' \in 0 .. MaxEvents /\ losses' \in Nat /\ diskFaults' \in 0 .. MaxDiskFaults
    BY <1>1 DEF TypeOK, CsvTypeOK
  <2>2. accepted' \in Seq(Row) /\ forfeited' \subseteq Row
    BY <1>1, NothingWritten DEF TypeOK, CsvTypeOK
  <2> QED
    BY <1>1, <1>3, <2>1, <2>2, ClosedTyped
<1> QED
  BY <1>1, <1>2, <1>3, <1>4 DEF FileStep, TearsCounted

LEMMA EmitStep == FileInv /\ TypeOK /\ Emit => FileStep
BY WrittenStep, CloseRaisesStep, OpenRaisesStep DEF Emit

LEMMA FlushAndCloseStep ==
  ASSUME FileInv, TypeOK, FlushAndClose
  PROVE  FileStep
<1>1. /\ UNCHANGED events
      /\ openDay <= today
      /\ handle = "closed" => openDay < today
      /\ handle \in {"none", "open", "closed"}
      /\ disk' = Closed /\ buffer' = <<>> /\ split' = FALSE
      /\ handle' = (IF handle = "open" THEN "none" ELSE handle)
      /\ UNCHANGED <<rotateDaily, today, openDay, accepted, forfeited, losses, diskFaults>>
  BY DEF TypeOK, CsvTypeOK, FlushAndClose, FileInv
<1>2. sinceFlush' \in Nat
  BY DEF FlushAndClose, TypeOK, CsvTypeOK
<1>3. Tables(disk', <<>>, events) /\ TornIn(disk') \subseteq TornIn(disk)
  BY <1>1, ClosedParts
<1>4. FileInv' /\ Files(disk')
  BY <1>1, <1>3, ClosedStep
<1>5. CsvTypeOK'
  BY <1>1, <1>2, <1>4, ClosedTyped, NothingWritten DEF TypeOK, CsvTypeOK
<1> QED
  BY <1>1, <1>3, <1>4, <1>5 DEF FileStep, TearsCounted

(* A flush that stops on the way writes the beginning of the buffer.       *)
LEMMA FlushFailsParts ==
  ASSUME FileInv, TypeOK, FlushFailsOnClose
  PROVE  \E k \in 0 .. Len(buffer) :
           /\ disk' = Appended(disk, PathFor(openDay), SubSeq(buffer, 1, k))
           /\ buffer' = SubSeq(buffer, k + 1, Len(buffer))
           /\ split' \in BOOLEAN /\ (split' => k < Len(buffer))
           /\ diskFaults' = diskFaults + 1
<1>1. UNCHANGED <<openDay, rotateDaily>> /\ Len(buffer) \in Nat
  BY LenProperties DEF FlushFailsOnClose, TypeOK, CsvTypeOK
<1>2. PathFor(openDay') = PathFor(openDay)
  BY <1>1
<1>3. PICK n \in 0 .. (Len(buffer) - 1), t \in BOOLEAN :
        Leaves(buffer, n, t, split) /\ WrittenUpTo(disk, PathFor(openDay'), buffer, n, t)
  BY DEF FlushFailsOnClose, FlushStops
<1>4. diskFaults' = diskFaults + 1
  BY DEF FlushFailsOnClose, FlushStops, DiskRefuses
<1>5. n \in 0 .. Len(buffer)
  BY <1>1
<1> QED
  BY <1>2, <1>3, <1>4, <1>5 DEF WrittenUpTo, Leaves

LEMMA FlushFailsStep ==
  ASSUME FileInv, TypeOK, FlushFailsOnClose
  PROVE  FileStep
<1> DEFINE f == PathFor(openDay)
<1>1. PICK k \in 0 .. Len(buffer) :
        /\ disk' = Appended(disk, f, SubSeq(buffer, 1, k))
        /\ buffer' = SubSeq(buffer, k + 1, Len(buffer))
        /\ split' \in BOOLEAN /\ (split' => k < Len(buffer))
        /\ diskFaults' = diskFaults + 1
  BY FlushFailsParts
<1>2. /\ handle = "open" /\ handle' = "open" /\ events \in Nat
      /\ diskFaults < MaxDiskFaults /\ diskFaults \in Nat /\ MaxDiskFaults \in Nat
      /\ UNCHANGED <<rotateDaily, today, openDay, sinceFlush, events, accepted, forfeited, losses>>
  BY CsvLogAssumption DEF FlushFailsOnClose, FlushStops, DiskRefuses, TypeOK, CsvTypeOK
<1>3. /\ Tables(disk, buffer, events) /\ Ready(disk, buffer, f) /\ openDay >= 1 /\ openDay <= today
      /\ Files(disk) /\ buffer \in Seq(Whole)
  BY <1>2 DEF FileInv, Tables
<1>4. f \in File /\ PathFor(openDay') = f
  BY <1>2, PathIsFile DEF TypeOK, CsvTypeOK
<1> HIDE DEF f
<1>5. Tables(disk', buffer', events) /\ Ready(disk', buffer', f)
  BY <1>1, <1>2, <1>3, <1>4, Spilt
<1>6. FileInv'
  BY <1>2, <1>3, <1>4, <1>5, FileInvFrom
<1>7. split' => buffer' # <<>>
  <2>1. Len(SubSeq(buffer, k + 1, Len(buffer))) = Len(buffer) - k /\ Len(buffer) \in Nat
    BY <1>3, Cut
  <2>2. split' => Len(buffer') # 0
    BY <1>1, <2>1
  <2> QED
    BY <2>2, EmptySeq
<1>8. TornIn(disk') \subseteq TornIn(disk)
  <2>1. SubSeq(buffer, 1, k) \in Seq(Whole)
    BY <1>3, Cut
  <2>2. SubSeq(buffer, 1, k) \in Seq(Line)
        /\ \A i \in 1 .. Len(SubSeq(buffer, 1, k)) : SubSeq(buffer, 1, k)[i].whole
    BY <2>1, WholeLines
  <2> QED
    BY <1>1, <1>3, <1>4, <2>2, AppendedTorn
<1>9. CsvTypeOK'
  <2>1. diskFaults' \in 0 .. MaxDiskFaults
    BY <1>1, <1>2
  <2> QED
    BY <1>1, <1>2, <1>5, <1>7, <2>1 DEF TypeOK, CsvTypeOK, Tables, Files, Line, Whole
<1> QED
  BY <1>2, <1>6, <1>8, <1>9 DEF FileStep, TearsCounted

(* What is on the disk when a process is gone. *)
LEMMA VanishParts ==
  ASSUME FileInv, TypeOK, NEW writesOut, Vanish(writesOut)
  PROVE  \/ disk' = Closed /\ losses' = losses
         \/ /\ handle = "open" /\ 0 \in 0 .. (Len(buffer) - 1)
            /\ disk' = CutOff(0, split) /\ losses' = losses + 1
<1>1. CASE writesOut \/ buffer = <<>>
  BY <1>1 DEF Vanish
<1>2. CASE ~(writesOut \/ buffer = <<>>)
  <2>1. Len(buffer) \in Nat /\ Len(buffer) # 0 /\ handle = "open"
    BY <1>2, EmptySeq, LenProperties DEF TypeOK, CsvTypeOK
  <2> QED
    BY <1>2, <2>1 DEF Vanish
<1> QED
  BY <1>1, <1>2

LEMMA VanishStep ==
  ASSUME FileInv, TypeOK, NEW writesOut, Vanish(writesOut)
  PROVE  FileStep
<1>1. /\ events \in 0 .. MaxEvents /\ UNCHANGED events
      /\ openDay <= today
      /\ buffer' = <<>> /\ split' = FALSE /\ handle' = "none"
      /\ split \in BOOLEAN /\ losses \in Nat
      /\ UNCHANGED <<rotateDaily, today, openDay, sinceFlush, accepted, forfeited, diskFaults>>
  BY DEF TypeOK, CsvTypeOK, Vanish, FileInv
<1>2. /\ Tables(disk', <<>>, events) /\ losses' \in Nat /\ TearsCounted
  <2>1. CASE disk' = Closed /\ losses' = losses
    BY <1>1, <2>1, ClosedParts DEF TearsCounted
  <2>2. CASE /\ handle = "open" /\ 0 \in 0 .. (Len(buffer) - 1)
             /\ disk' = CutOff(0, split) /\ losses' = losses + 1
    <3>1. /\ Tables(CutOff(0, split), <<>>, events)
          /\ \E p : TornIn(CutOff(0, split)) \subseteq TornIn(disk) \cup {p}
      BY <1>1, <2>2, CutOffParts
    <3> QED
      BY <1>1, <2>2, <3>1 DEF TearsCounted
  <2> QED
    BY <2>1, <2>2, VanishParts
<1>3. FileInv' /\ Files(disk')
  BY <1>1, <1>2, ClosedStep
<1>4. CsvTypeOK'
  BY <1>1, <1>2, <1>3, ClosedTyped, NothingWritten DEF TypeOK, CsvTypeOK
<1> QED
  BY <1>2, <1>3, <1>4 DEF FileStep

LEMMA FreshSinkStep ==
  ASSUME FileInv, TypeOK, FreshSink
  PROVE  FileStep
<1>1. /\ events \in 0 .. MaxEvents /\ UNCHANGED events
      /\ today \in 1 .. LastDay /\ LastDay \in Nat
      /\ UNCHANGED <<disk, losses>>
      /\ buffer' = <<>> /\ split' = FALSE /\ handle' = "none" /\ openDay' = 0
      /\ accepted' = <<>> /\ forfeited' = {} /\ sinceFlush' = 0
      /\ UNCHANGED <<rotateDaily, today, diskFaults>>
  BY CsvLogAssumption DEF TypeOK, CsvTypeOK, FreshSink, FileInv
<1>2. FileInv' /\ Files(disk')
  BY <1>1, ClosedStep
<1>3. CsvTypeOK'
  <2>1. /\ handle' \in {"none", "open", "closed"} /\ openDay' \in 0 .. LastDay /\ sinceFlush' \in Nat
        /\ events' \in 0 .. MaxEvents /\ losses' \in Nat /\ diskFaults' \in 0 .. MaxDiskFaults
    BY <1>1 DEF TypeOK, CsvTypeOK
  <2>2. accepted' \in Seq(Row) /\ forfeited' \subseteq Row
    BY <1>1, NothingWritten DEF TypeOK, CsvTypeOK
  <2> QED
    BY <1>1, <1>2, <2>1, <2>2, ClosedTyped
<1> QED
  BY <1>1, <1>2, <1>3 DEF FileStep, TearsCounted

LEMMA DayPassesStep ==
  ASSUME FileInv, TypeOK, DayPasses
  PROVE  FileStep
<1>1. /\ today \in 1 .. LastDay /\ LastDay \in Nat /\ today < LastDay /\ today' = today + 1
      /\ openDay \in 0 .. LastDay /\ openDay <= today
      /\ UNCHANGED <<rotateDaily, disk, handle, openDay, buffer, split, sinceFlush, events,
                     accepted, forfeited, losses, diskFaults>>
  BY CsvLogAssumption DEF TypeOK, CsvTypeOK, DayPasses, FileInv
<1>2. PathFor(openDay') = PathFor(openDay)
  BY <1>1
<1>3. FileInv'
  <2>1. /\ Tables(disk', buffer', events')
        /\ handle' = "open" => openDay' >= 1 /\ Ready(disk', buffer', PathFor(openDay'))
    BY <1>1, <1>2 DEF FileInv
  <2> QED
    BY <1>1, <2>1, FileInvFrom
<1>4. CsvTypeOK'
  BY <1>1 DEF TypeOK, CsvTypeOK
<1> QED
  BY <1>1, <1>3, <1>4 DEF FileStep, TearsCounted

-----------------------------------------------------------------------------
(* The reports. *)
LEMMA OpenReportStep ==
  ASSUME StoreTypeOK, ReportInv, OpenReport
  PROVE  StoreTypeOK' /\ ReportInv'
<1>1. /\ MaxRuns \in Nat /\ ReportLines \in Nat /\ runs \in 0 .. MaxRuns /\ runs < MaxRuns
      /\ DOMAIN reports \subseteq Stamp \cup {Rooted}
      /\ \A n \in DOMAIN reports : reports[n] \in Report /\ reports[n].run <= runs /\ reports[n].run \in Nat
      /\ cut' = cut /\ cut \subseteq 1 .. MaxRuns
      /\ runs' = runs + 1
  BY ReportStoreAssumption DEF OpenReport, StoreTypeOK, ReportInv, Report
<1>2. PICK name \in OutputPaths : writing' = name /\ reports' = Stored(name, runs + 1, 0)
  BY DEF OpenReport
<1>3. name \in Stamp \cup {Rooted} /\ name # NoName
  BY <1>1 DEF OutputPaths, Stamp, Rooted, NoName
<1>4. [run |-> runs + 1, lines |-> 0] \in Report
  BY <1>1 DEF Report
<1>5. /\ DOMAIN reports' = DOMAIN reports \cup {name}
      /\ reports'[name] = [run |-> runs + 1, lines |-> 0]
      /\ reports'[name].run = runs + 1
      /\ \A n \in DOMAIN reports \ {name} : reports'[n] = reports[n]
  BY <1>2 DEF Stored
<1>6. StoreTypeOK'
  BY <1>1, <1>2, <1>3, <1>4, <1>5 DEF StoreTypeOK
<1>7. ReportInv'
  BY <1>1, <1>2, <1>3, <1>5 DEF ReportInv
<1> QED
  BY <1>6, <1>7

LEMMA WrittenReportStep ==
  ASSUME StoreTypeOK, ReportInv, CloseReport \/ CutReport
  PROVE  StoreTypeOK' /\ ReportInv'
<1>1. PICK k \in 0 .. ReportLines :
        /\ writing # NoName /\ writing' = NoName
        /\ reports' = Stored(writing, runs, k) /\ runs' = runs
        /\ (k = ReportLines /\ cut' = cut) \/ cut' = cut \cup {runs}
  BY ReportStoreAssumption DEF CloseReport, CutReport
<1>2. /\ MaxRuns \in Nat /\ ReportLines \in Nat
      /\ DOMAIN reports \subseteq Stamp \cup {Rooted}
      /\ \A n \in DOMAIN reports : reports[n] \in Report /\ reports[n].run <= runs
                                   /\ reports[n].run \in 1 .. MaxRuns
      /\ writing \in DOMAIN reports /\ reports[writing].run = runs
      /\ \A n \in DOMAIN reports \ {writing} : reports[n].run < runs
      /\ cut \subseteq 1 .. MaxRuns
  BY <1>1, ReportStoreAssumption DEF StoreTypeOK, ReportInv, Report
<1>3. runs \in 1 .. MaxRuns /\ [run |-> runs, lines |-> k] \in Report
  BY <1>2 DEF Report
<1>4. /\ DOMAIN reports' = DOMAIN reports
      /\ reports'[writing] = [run |-> runs, lines |-> k]
      /\ reports'[writing].run = runs /\ reports'[writing].lines = k
      /\ \A n \in DOMAIN reports \ {writing} : reports'[n] = reports[n]
  BY <1>1, <1>2 DEF Stored
<1>5. StoreTypeOK'
  BY <1>1, <1>2, <1>3, <1>4 DEF StoreTypeOK
<1>6. ReportInv'
  <2>1. \A n \in DOMAIN reports' : reports'[n].run <= runs' /\ (n # writing => reports'[n].run < runs)
    BY <1>1, <1>2, <1>3, <1>4
  <2>2. writing \in DOMAIN reports' /\ reports'[writing].run = runs'
    BY <1>1, <1>2, <1>4
  <2>3. runs' \notin cut' => reports'[writing].lines = ReportLines
    BY <1>1, <1>4
  <2> QED
    BY <1>1, <1>3, <2>1, <2>2, <2>3 DEF ReportInv
<1> QED
  BY <1>5, <1>6

LEMMA StoreUnchanged ==
  ASSUME StoreTypeOK, ReportInv, UNCHANGED storeVars
  PROVE  StoreTypeOK' /\ ReportInv'
BY DEF StoreTypeOK, ReportInv, storeVars

-----------------------------------------------------------------------------
(* All types together. *)
BaseInv == TypeOK /\ LifeInv /\ FileInv /\ ReportInv

LEMMA CsvKept ==
  ASSUME FileInv, TypeOK,
         UNCHANGED <<rotateDaily, today, disk, handle, openDay, buffer, split, sinceFlush, events,
                     accepted, forfeited, losses>>,
         UNCHANGED diskFaults \/ DiskRefuses
  PROVE  FileStep
<1>1. FileInv'
  <2>1. /\ PathFor(openDay') = PathFor(openDay) /\ Tables(disk', buffer', events')
        /\ handle' = "open" => openDay' >= 1 /\ Ready(disk', buffer', PathFor(openDay))
        /\ openDay' <= today' /\ (handle' = "closed" => openDay' < today')
    BY DEF FileInv
  <2> QED
    BY <2>1, FileInvFrom
<1>2. diskFaults' \in 0 .. MaxDiskFaults
  BY CsvLogAssumption DEF DiskRefuses, TypeOK, CsvTypeOK
<1>3. CsvTypeOK'
  BY <1>2 DEF TypeOK, CsvTypeOK
<1> QED
  BY <1>1, <1>3 DEF FileStep, TearsCounted

LEMMA CsvUnchanged ==
  ASSUME FileInv, TypeOK, UNCHANGED csvVars
  PROVE  FileStep
BY CsvKept DEF csvVars

LEMMA BaseInit == Init => BaseInv
<1> SUFFICES ASSUME Init PROVE BaseInv
  OBVIOUS
<1> USE DEF Init, CsvInit, StoreInit
<1>1. DOMAIN disk = {} /\ DOMAIN reports = {} /\ buffer = <<>> /\ accepted = <<>>
  OBVIOUS
<1>2. /\ LastDay \in Nat \ {0} /\ MaxEvents \in Nat /\ MaxDiskFaults \in Nat /\ MaxRuns \in Nat
      /\ MaxPages \in Nat /\ MaxWrites \in Nat /\ MaxStarts \in Nat
  BY CsvLogAssumption, ReportStoreAssumption, ServiceAssumption
<1>3. <<>> \in Seq(Whole) /\ Past(<<>>, 0) /\ <<>> \in Seq(Row)
  BY NothingWritten
<1>4. CsvTypeOK
  <2>1. /\ rotateDaily \in BOOLEAN /\ split \in BOOLEAN /\ (split => buffer # <<>>)
        /\ (handle # "open" => buffer = <<>>)
    BY <1>1
  <2>2. /\ today \in 1 .. LastDay /\ DOMAIN disk \subseteq File
        /\ \A f \in DOMAIN disk : disk[f] \in Seq(Piece)
        /\ handle \in {"none", "open", "closed"} /\ openDay \in 0 .. LastDay
        /\ buffer \in Seq(Row \cup {Header}) /\ sinceFlush \in Nat /\ events \in 0 .. MaxEvents
        /\ accepted \in Seq(Row) /\ forfeited \subseteq Row /\ losses \in Nat
        /\ diskFaults \in 0 .. MaxDiskFaults
    BY <1>1, <1>2, <1>3 DEF Whole
  <2> QED
    BY <2>1, <2>2, Zenon DEF CsvTypeOK
<1>5. FileInv
  BY <1>1, <1>2, <1>3 DEF FileInv, Tables, Files
<1>6. StoreTypeOK /\ ReportInv
  BY <1>1, <1>2 DEF StoreTypeOK, ReportInv
<1> QED
  BY <1>2, <1>4, <1>5, <1>6 DEF BaseInv, TypeOK, Phase, LifeInv

LEMMA BaseStep == BaseInv /\ [Next]_vars => BaseInv' /\ TearsCounted
<1> SUFFICES ASSUME BaseInv, [Next]_vars PROVE BaseInv' /\ TearsCounted
  OBVIOUS
<1>0. TypeOK /\ FileInv /\ ReportInv /\ StoreTypeOK /\ LifeInv
  BY DEF BaseInv, TypeOK
<1> DEFINE LifeOK == /\ phase' \in Phase /\ mode' \in {"Scan", "Discover"}
                     /\ task' \in {"none", "running", "done"}
                     /\ (writing' # NoName => task' = "running" /\ mode' = "Discover")
                     /\ endless' \in BOOLEAN /\ pages' \in 0 .. MaxPages
                     /\ writes' \in 0 .. MaxWrites /\ starts' \in 0 .. MaxStarts
                     /\ LifeInv'
<1>a. /\ phase \in Phase /\ mode \in {"Scan", "Discover"} /\ task \in {"none", "running", "done"}
      /\ writing # NoName => task = "running" /\ mode = "Discover"
      /\ endless \in BOOLEAN /\ pages \in 0 .. MaxPages /\ writes \in 0 .. MaxWrites
      /\ starts \in 0 .. MaxStarts
      /\ MaxPages \in Nat /\ MaxWrites \in Nat /\ MaxStarts \in Nat
  BY <1>0, ServiceAssumption DEF TypeOK
<1> SUFFICES FileStep /\ StoreTypeOK' /\ ReportInv' /\ LifeOK
  BY DEF BaseInv, TypeOK, FileStep
<1> USE DEF Phase, LifeInv, held
<1>1. CASE UNCHANGED vars
  BY <1>0, <1>1, <1>a, CsvUnchanged, StoreUnchanged DEF vars, lifeVars, storeVars
<1>2. CASE Start
  <2>1. FileStep
    BY <1>0, <1>2, FreshSinkStep DEF Start
  <2>2. StoreTypeOK' /\ ReportInv'
    BY <1>0, <1>2, StoreUnchanged DEF Start
  <2>3. LifeOK
    <3>1. mode' \in {"Scan", "Discover"} /\ task' = "none" /\ writing' = NoName
      BY <1>0, <1>2, <1>a DEF Start, storeVars
    <3> QED
      BY <1>2, <1>a, <3>1 DEF Start
  <2> QED
    BY <2>1, <2>2, <2>3
<1>3. CASE Connected
  BY <1>0, <1>3, <1>a, CsvUnchanged, StoreUnchanged DEF Connected, storeVars
<1>4. CASE ConnectedTooLate
  BY <1>0, <1>4, <1>a, CsvUnchanged, StoreUnchanged DEF ConnectedTooLate, storeVars
<1>18. CASE ConnectGivesUp
  BY <1>0, <1>18, <1>a, CsvUnchanged, StoreUnchanged DEF ConnectGivesUp, storeVars
<1>19. CASE BeginWrite
  BY <1>0, <1>19, <1>a, CsvUnchanged, StoreUnchanged DEF BeginWrite, storeVars
<1>20. CASE EndWrite
  BY <1>0, <1>20, <1>a, CsvUnchanged, StoreUnchanged DEF EndWrite, storeVars
<1>5. CASE ScanEmits
  BY <1>0, <1>5, <1>a, EmitStep, StoreUnchanged DEF ScanEmits, storeVars, lifeVars
<1>6. CASE DiscoveryEnds
  BY <1>0, <1>6, <1>a, CsvUnchanged, OpenReportStep DEF DiscoveryEnds, lifeVars
<1>7. CASE ReportWritten
  BY <1>0, <1>7, <1>a, CsvUnchanged, WrittenReportStep DEF ReportWritten, CloseReport
<1>8. CASE ReportRaises
  <2>1. FileStep
    BY <1>0, <1>8, CsvKept DEF ReportRaises, DiskRefuses
  <2> QED
    BY <1>0, <1>8, <1>a, <2>1, WrittenReportStep DEF ReportRaises, CutReport
<1>9. CASE OpenStream
  BY <1>0, <1>9, <1>a, CsvUnchanged, StoreUnchanged DEF OpenStream, storeVars
<1>10. CASE CloseStream
  BY <1>0, <1>10, <1>a, CsvUnchanged, StoreUnchanged DEF CloseStream, storeVars
<1>11. CASE StopSignal
  BY <1>0, <1>11, <1>a, CsvUnchanged, StoreUnchanged DEF StopSignal, storeVars
<1>12. CASE CancelTasks
  BY <1>0, <1>12, <1>a, CsvUnchanged, StoreUnchanged DEF CancelTasks, storeVars, LoopFree
<1>13. CASE CloseSinks
  <2>1. CASE FlushAndClose
    BY <1>0, <1>13, <1>a, <2>1, FlushAndCloseStep, StoreUnchanged DEF CloseSinks, storeVars
  <2>2. CASE FlushFailsOnClose
    <3>1. FileStep
      BY <1>0, <2>2, FlushFailsStep
    <3> QED
      BY <1>0, <1>13, <1>a, <3>1, StoreUnchanged DEF CloseSinks, storeVars
  <2> QED
    BY <1>13, <2>1, <2>2 DEF CloseSinks
<1>14. CASE Exit
  BY <1>0, <1>14, <1>a, VanishStep, StoreUnchanged DEF Exit, storeVars
<1>15. CASE ForceQuit
  BY <1>0, <1>15, <1>a, VanishStep, StoreUnchanged DEF ForceQuit, storeVars, LoopFree
<1>16. CASE Kill
  <2>1. FileStep
    BY <1>0, <1>16, VanishStep DEF Kill
  <2>2. CASE writing = NoName
    BY <1>0, <1>16, <1>a, <2>1, <2>2, StoreUnchanged DEF Kill, storeVars
  <2>3. CASE writing # NoName
    BY <1>0, <1>16, <1>a, <2>1, <2>3, WrittenReportStep DEF Kill, CutReport
  <2> QED
    BY <2>2, <2>3
<1>17. CASE NewDay
  BY <1>0, <1>17, <1>a, DayPassesStep, StoreUnchanged DEF NewDay, storeVars, lifeVars
<1> QED
  BY <1>1, <1>2, <1>3, <1>4, <1>5, <1>6, <1>7, <1>8, <1>9, <1>10, <1>11, <1>12, <1>13,
     <1>14, <1>15, <1>16, <1>17, <1>18, <1>19, <1>20 DEF Next, ConnectEnds

-----------------------------------------------------------------------------
(* What a crash can take. *)
LEMMA RiskIsFinite ==
  ASSUME NEW acc \in Seq(Row), NEW d, NEW gone
  PROVE  /\ IsFiniteSet(Risk(d, acc, gone)) /\ Cardinality(Risk(d, acc, gone)) \in Nat
         /\ Len(acc) \in Nat
<1>1. Len(acc) \in Nat
  BY LenProperties
<1>2. IsFiniteSet(1 .. Len(acc))
  BY <1>1, FS_Interval
<1>3. Risk(d, acc, gone) \in SUBSET (1 .. Len(acc))
  BY DEF Risk
<1>4. IsFiniteSet(Risk(d, acc, gone))
  BY <1>2, <1>3, FS_Subset
<1> QED
  BY <1>1, <1>4, FS_CardinalityType

LEMMA BufferAscends ==
  ASSUME NEW d, NEW b, NEW f, NEW n, Tables(d, b, n), Ready(d, b, f)
  PROVE  Ascending(b)
<1> DEFINE s == d[f]
<1>1. s \in Seq(Line) /\ b \in Seq(Line) /\ Ascending(s \o b)
  BY WholeIsLine DEF Tables, Files, Ready, Table
<1> HIDE DEF s
<1>2. /\ Len(s) \in Nat /\ Len(b) \in Nat /\ Len(s \o b) = Len(s) + Len(b)
      /\ \A i \in 1 .. Len(b) : (s \o b)[Len(s) + i] = b[i]
  BY <1>1, Joined
<1>3. ASSUME NEW i \in 1 .. Len(b), NEW j \in 1 .. Len(b), i < j PROVE b[i].id < b[j].id
  <2>1. /\ Len(s) + i \in 1 .. Len(s \o b) /\ Len(s) + j \in 1 .. Len(s \o b)
        /\ Len(s) + i < Len(s) + j
    BY <1>2, <1>3
  <2>2. (s \o b)[Len(s) + i].id < (s \o b)[Len(s) + j].id
    BY <1>1, <2>1 DEF Ascending
  <2> QED
    BY <1>2, <2>2
<1> QED
  BY <1>3 DEF Ascending

(* Lines that reach the disk leave the end of the log at risk, or nothing. *)
LEMMA RiskOfSpill ==
  ASSUME NEW d, NEW c \in Seq(Line), NEW f \in File, NEW k \in 0 .. Len(c),
         NEW acc \in Seq(Row), NEW gone, Files(d), Ascending(c), Ascending(acc),
         TheEnd(Risk(d, acc, gone), acc), Covered(d, c, acc, gone)
  PROVE  LET e == Appended(d, f, SubSeq(c, 1, k))
         IN  /\ Covered(e, SubSeq(c, k + 1, Len(c)), acc, gone)
             /\ TheEnd(Risk(e, acc, gone), acc)
             /\ Risk(e, acc, gone) \subseteq Risk(d, acc, gone)
             /\ k = Len(c) => Risk(e, acc, gone) = {}
<1> DEFINE m == SubSeq(c, 1, k)
           r == SubSeq(c, k + 1, Len(c))
           e == Appended(d, f, m)
           L == Len(acc)
<1>1. /\ m \in Seq(Line) /\ Len(m) = k /\ \A i \in 1 .. k : m[i] = c[i]
      /\ Len(r) = Len(c) - k /\ \A i \in 1 .. (Len(c) - k) : r[i] = c[k + i]
      /\ Len(c) \in Nat /\ L \in Nat
  BY Cut, LenProperties
<1>2. \A i \in 1 .. L : acc[i].id \in Nat
  BY ElementOfSeq, LineParts
<1> HIDE DEF m, r
<1>3. \A x : On(e, x) <=> On(d, x) \/ In(m, x)
  BY <1>1, AppendedOn
<1> HIDE DEF e, L
<1>4. ASSUME NEW i \in 1 .. L, ~On(e, acc[i]), acc[i] \notin gone
      PROVE  \E p \in 1 .. Len(c) : p > k /\ c[p] = acc[i]
  <2>1. In(c, acc[i])
    BY <1>3, <1>4 DEF Covered, L
  <2>2. PICK p \in 1 .. Len(c) : c[p] = acc[i]
    BY <2>1 DEF In
  <2>3. p > k
    <3> SUFFICES ASSUME ~(p > k) PROVE FALSE
      OBVIOUS
    <3>1. p \in 1 .. k /\ m[p] = acc[i]
      BY <1>1, <2>2
    <3>2. In(m, acc[i])
      BY <3>1, <1>1 DEF In
    <3> QED
      BY <3>2, <1>3, <1>4
  <2> QED
    BY <2>2, <2>3
<1>5. Covered(e, r, acc, gone)
  <2> SUFFICES ASSUME NEW i \in 1 .. L, ~On(e, acc[i]), acc[i] \notin gone PROVE In(r, acc[i])
    BY DEF Covered, L
  <2>1. PICK p \in 1 .. Len(c) : p > k /\ c[p] = acc[i]
    BY <1>4
  <2>2. p - k \in 1 .. (Len(c) - k) /\ k + (p - k) = p
    BY <1>1, <2>1
  <2>3. r[p - k] = acc[i] /\ p - k \in 1 .. Len(r)
    BY <1>1, <2>1, <2>2
  <2> QED
    BY <2>3 DEF In
<1>6. Risk(e, acc, gone) \subseteq Risk(d, acc, gone)
  BY <1>3 DEF Risk
<1>7. TheEnd(Risk(e, acc, gone), acc)
  <2> SUFFICES ASSUME NEW i \in Risk(e, acc, gone), NEW j \in 1 .. L, j > i
               PROVE  j \in Risk(e, acc, gone)
    BY DEF TheEnd, L
  <2>1. i \in 1 .. L /\ ~On(e, acc[i]) /\ acc[i] \notin gone
    BY DEF Risk, L
  <2>2. PICK p \in 1 .. Len(c) : p > k /\ c[p] = acc[i]
    BY <1>4, <2>1
  <2>3. j \in Risk(d, acc, gone)
    BY <1>6 DEF TheEnd, L
  <2>4. ~In(m, acc[j])
    <3> SUFFICES ASSUME NEW q \in 1 .. k, m[q] = acc[j] PROVE FALSE
      BY <1>1 DEF In
    <3>1. q \in 1 .. Len(c) /\ c[q] = acc[j] /\ q < p
      BY <1>1, <2>2
    <3>2. c[q].id < c[p].id
      BY <3>1 DEF Ascending
    <3>3. acc[i].id < acc[j].id
      BY <2>1 DEF Ascending, L
    <3> QED
      BY <1>2, <2>1, <2>2, <3>1, <3>2, <3>3
  <2> QED
    BY <1>3, <2>3, <2>4 DEF Risk
<1>8. k = Len(c) => Risk(e, acc, gone) = {}
  <2> SUFFICES ASSUME k = Len(c), NEW i \in Risk(e, acc, gone) PROVE FALSE
    OBVIOUS
  <2>1. PICK p \in 1 .. Len(c) : p > k
    BY <1>4 DEF Risk, L
  <2> QED
    BY <1>1, <2>1
<1> QED
  BY <1>5, <1>6, <1>7, <1>8 DEF e, m, r

(* A row more in the buffer is a row more at risk, the last one.           *)
LEMMA RiskOfRow ==
  ASSUME NEW d, NEW b, NEW n \in Nat, NEW row \in Row, NEW acc \in Seq(Row),
         NEW gone \in SUBSET Row, Tables(d, b, n), row.id = n + 1,
         Ascending(acc), Past(acc, n), \A x \in gone : x.id <= n,
         TheEnd(Risk(d, acc, gone), acc), Covered(d, b, acc, gone)
  PROVE  LET new == Append(acc, row)
         IN  /\ Covered(d, Append(b, row), new, gone)
             /\ TheEnd(Risk(d, new, gone), new)
             /\ Risk(d, new, gone) \subseteq Risk(d, acc, gone) \cup {Len(acc) + 1}
             /\ new \in Seq(Row) /\ Ascending(new) /\ Past(new, n + 1)
<1> DEFINE new == Append(acc, row)
           c == Append(b, row)
           L == Len(acc)
<1>1. /\ b \in Seq(Whole) /\ row \in Whole /\ Past(b, n)
      /\ \A g \in DOMAIN d : Past(d[g], n)
  BY LineParts DEF Tables
<1>2. /\ Len(b) \in Nat /\ Len(c) = Len(b) + 1
      /\ \A i \in 1 .. Len(b) : c[i] = b[i]
      /\ c[Len(b) + 1] = row
  BY <1>1, WithRow
<1>3. /\ new \in Seq(Row) /\ L \in Nat /\ Len(new) = L + 1
      /\ \A i \in 1 .. L : new[i] = acc[i]
      /\ new[L + 1] = row
  BY WithRow
<1> HIDE DEF c, new, L
<1>4. ASSUME NEW x, x.id = n + 1 PROVE ~On(d, x) /\ x \notin gone
  <2>1. n + 1 > n
    OBVIOUS
  <2>2. ~On(d, x)
    BY <1>1, <1>4, <2>1 DEF On, In, Past
  <2> QED
    BY <1>4, <2>1, <2>2
<1>5. Covered(d, c, new, gone)
  <2> SUFFICES ASSUME NEW i \in 1 .. L + 1, ~On(d, new[i]), new[i] \notin gone
               PROVE  In(c, new[i])
    BY <1>3 DEF Covered
  <2>1. CASE i = L + 1
    <3>1. new[i] = row /\ c[Len(b) + 1] = row /\ Len(b) + 1 \in 1 .. Len(c)
      BY <1>2, <1>3, <2>1
    <3> QED
      BY <3>1 DEF In
  <2>2. CASE i # L + 1
    <3>1. i \in 1 .. L /\ new[i] = acc[i]
      BY <1>3, <2>2
    <3>2. PICK p \in 1 .. Len(b) : b[p] = acc[i]
      BY <3>1 DEF Covered, In, L
    <3>3. p \in 1 .. Len(c) /\ c[p] = new[i]
      BY <1>2, <3>1, <3>2
    <3> QED
      BY <3>3 DEF In
  <2> QED
    BY <2>1, <2>2
<1>6. TheEnd(Risk(d, new, gone), new)
  <2> SUFFICES ASSUME NEW i \in 1 .. L + 1, ~On(d, new[i]), new[i] \notin gone,
                      NEW j \in 1 .. L + 1, j > i
               PROVE  ~On(d, new[j]) /\ new[j] \notin gone
    BY <1>3 DEF TheEnd, Risk
  <2>1. i \in 1 .. L /\ new[i] = acc[i]
    BY <1>3
  <2>2. CASE j = L + 1
    BY <1>3, <1>4, <2>2
  <2>3. CASE j # L + 1
    <3>1. j \in 1 .. L /\ new[j] = acc[j]
      BY <1>3, <2>3
    <3>2. i \in Risk(d, acc, gone)
      BY <2>1 DEF Risk, L
    <3>3. j \in Risk(d, acc, gone)
      BY <3>1, <3>2 DEF TheEnd, L
    <3> QED
      BY <3>1, <3>3 DEF Risk
  <2> QED
    BY <2>2, <2>3
<1>7. Risk(d, new, gone) \subseteq Risk(d, acc, gone) \cup {L + 1}
  <2> SUFFICES ASSUME NEW i \in 1 .. L + 1, ~On(d, new[i]), new[i] \notin gone, i # L + 1
               PROVE  i \in Risk(d, acc, gone)
    BY <1>3 DEF Risk
  <2>1. i \in 1 .. L /\ new[i] = acc[i]
    BY <1>3
  <2> QED
    BY <2>1 DEF Risk, L
<1>8. Ascending(new) /\ Past(new, n + 1)
  <2>1. \A i \in 1 .. L : acc[i].id \in Nat /\ acc[i].id <= n
    BY ElementOfSeq, LineParts DEF Past, L
  <2>2. ASSUME NEW i \in 1 .. L + 1, NEW j \in 1 .. L + 1, i < j PROVE new[i].id < new[j].id
    <3>1. i \in 1 .. L /\ new[i] = acc[i]
      BY <1>3, <2>2
    <3>2. CASE j = L + 1
      BY <1>3, <2>1, <3>1, <3>2
    <3>3. CASE j # L + 1
      BY <1>3, <2>2, <3>1, <3>3 DEF Ascending, L
    <3> QED
      BY <3>2, <3>3
  <2>3. \A i \in 1 .. L + 1 : new[i].id <= n + 1
    BY <1>3, <2>1
  <2> QED
    BY <1>3, <2>2, <2>3 DEF Ascending, Past
<1> QED
  BY <1>3, <1>5, <1>6, <1>7, <1>8 DEF new, c, L

-----------------------------------------------------------------------------
LEMMA BatchCounts == Batch \in Nat /\ Batch >= 1
BY CsvLogAssumption DEF Batch

LEMMA NothingAtRisk ==
  ASSUME NEW acc, NEW R, R = {}, NEW n \in Nat
  PROVE  TheEnd(R, acc) /\ Cardinality(R) <= n
<1>1. Cardinality({}) = 0
  BY FS_EmptySet
<1> QED
  BY <1>1 DEF TheEnd

LEMMA WrittenLog ==
  ASSUME BaseInv, LogInv, phase # "down", EmitBuffered \/ EmitFlushed \/ FlushRaises
  PROVE  /\ RiskInv' /\ Covered(disk', buffer', accepted', forfeited')
         /\ diskFaults' = 0 => sinceFlush' < Batch /\ handle' # "closed"
<1> DEFINE b == EnsureFile.buffer
           d == EnsureFile.disk
           f == PathFor(today)
           L == Len(accepted)
           R0 == Risk(disk, accepted, forfeited)
           R1 == Risk(d, accepted, forfeited)
           R2 == Risk(disk', accepted', forfeited')
<1>1. PICK k \in 0 .. Len(Lines) : Writes(k) /\ (EmitFlushed => k = Len(Lines))
  BY EmitWrites DEF BaseInv
<1>2. /\ events < MaxEvents /\ events \in Nat /\ events' = events + 1
      /\ accepted \in Seq(Row) /\ accepted' = Append(accepted, Event)
      /\ forfeited' = forfeited /\ forfeited \in SUBSET Row /\ handle' = "open"
      /\ disk' = Appended(d, f, SubSeq(Lines, 1, k)) /\ buffer' = SubSeq(Lines, k + 1, Len(Lines))
      /\ sinceFlush \in Nat /\ diskFaults \in Nat
  BY <1>1, CsvLogAssumption DEF BaseInv, TypeOK, CsvTypeOK, Writes
<1>3. /\ Tables(d, b, events) /\ Files(d)
      /\ Lines \in Seq(Line) /\ Tables(d, Lines, events + 1) /\ Ready(d, Lines, f)
  BY <1>2, EnsureReady, LinesTyped DEF BaseInv
<1>4. f \in File
  BY PathIsFile DEF BaseInv, TypeOK, CsvTypeOK
<1>5. Event \in Row /\ Event.id = events + 1
  BY <1>2, EventIsRow DEF BaseInv
<1>6. /\ Covered(d, b, accepted, forfeited)
      /\ d = disk \/ R1 = {}
  BY EnsureCovers DEF BaseInv, LogInv
<1>7. TheEnd(R1, accepted) /\ Cardinality(R1) <= sinceFlush
  <2>1. CASE d = disk
    BY <2>1 DEF LogInv, RiskInv
  <2>2. CASE R1 = {}
    BY <1>2, <2>2, NothingAtRisk
  <2> QED
    BY <1>6, <2>1, <2>2
<1>8. /\ Ascending(accepted) /\ Past(accepted, events)
      /\ \A x \in forfeited : x.id <= events
  BY DEF LogInv, RiskInv
<1>a. Lines = Append(b, Event)
  BY DEF Lines
<1> HIDE DEF b, d, f, L, R0
<1>b. /\ Covered(d, Lines, accepted', forfeited)
      /\ TheEnd(Risk(d, accepted', forfeited), accepted')
      /\ Risk(d, accepted', forfeited) \subseteq R1 \cup {L + 1}
      /\ accepted' \in Seq(Row) /\ Ascending(accepted') /\ Past(accepted', events + 1)
  BY <1>2, <1>3, <1>5, <1>6, <1>7, <1>8, <1>a, RiskOfRow DEF L
<1>c. Ascending(Lines)
  BY <1>3, BufferAscends
<1>9. /\ Covered(disk', buffer', accepted', forfeited')
      /\ TheEnd(R2, accepted')
      /\ R2 \subseteq R1 \cup {L + 1}
      /\ k = Len(Lines) => R2 = {}
      /\ Ascending(accepted') /\ Past(accepted', events + 1)
  <2> DEFINE e == Appended(d, f, SubSeq(Lines, 1, k))
             r == SubSeq(Lines, k + 1, Len(Lines))
             acc == accepted'
  <2> HIDE DEF acc
  <2>1. /\ acc \in Seq(Row) /\ Ascending(acc)
        /\ TheEnd(Risk(d, acc, forfeited), acc) /\ Covered(d, Lines, acc, forfeited)
    BY <1>b DEF acc
  <2>2. /\ Covered(e, r, acc, forfeited)
        /\ TheEnd(Risk(e, acc, forfeited), acc)
        /\ Risk(e, acc, forfeited) \subseteq Risk(d, acc, forfeited)
        /\ k = Len(Lines) => Risk(e, acc, forfeited) = {}
    BY <1>3, <1>4, <1>c, <2>1, RiskOfSpill
  <2> HIDE DEF e, r
  <2>3. disk' = e /\ buffer' = r /\ forfeited' = forfeited
    BY <1>2 DEF e, r
  <2> QED
    BY <1>b, <2>2, <2>3 DEF acc
<1>10. \A x \in forfeited' : x.id <= events'
  <2>1. \A x \in Row : x.id \in Nat
    BY LineParts, WholeIsLine
  <2> QED
    BY <1>2, <1>8, <2>1
<1>11. Cardinality(R2) \in Nat /\ Cardinality(R2) <= sinceFlush + 1
  <2>1. IsFiniteSet(R1) /\ Cardinality(R1) \in Nat
    BY <1>2, RiskIsFinite
  <2> HIDE DEF R1, R2
  <2>2. /\ IsFiniteSet(R1 \cup {L + 1})
        /\ Cardinality(R1 \cup {L + 1}) \in Nat
        /\ Cardinality(R1 \cup {L + 1}) <= Cardinality(R1) + 1
    <3>1. /\ IsFiniteSet(R1 \cup {L + 1})
          /\ Cardinality(R1 \cup {L + 1}) =
               IF L + 1 \in R1 THEN Cardinality(R1) ELSE Cardinality(R1) + 1
      BY <2>1, FS_AddElement
    <3> QED
      BY <2>1, <3>1
  <2>3. IsFiniteSet(R2) /\ Cardinality(R2) <= Cardinality(R1 \cup {L + 1})
    BY <1>9, <2>2, FS_Subset
  <2>4. Cardinality(R2) \in Nat
    BY <2>3, FS_CardinalityType
  <2> QED
    BY <1>2, <1>7, <2>1, <2>2, <2>3, <2>4
<1> HIDE DEF R1, R2
<1>12. CASE EmitBuffered
  <2>1. sinceFlush' = sinceFlush + 1 /\ ~(sinceFlush + 1 >= Batch)
    BY <1>12 DEF EmitBuffered, FlushDue
  <2>2. sinceFlush' < Batch
    BY <1>2, <2>1, BatchCounts
  <2> QED
    BY <1>2, <1>9, <1>10, <1>11, <2>1, <2>2 DEF RiskInv, R2
<1>13. CASE EmitFlushed
  <2>1. sinceFlush' = 0 /\ sinceFlush' < Batch
    BY <1>13, BatchCounts DEF EmitFlushed
  <2>2. R2 = {}
    BY <1>1, <1>9, <1>13
  <2>3. Cardinality(R2) = 0
    BY <2>2, FS_EmptySet
  <2> QED
    BY <1>2, <1>9, <1>10, <2>1, <2>3 DEF RiskInv, R2
<1>14. CASE FlushRaises
  <2>1. sinceFlush' = sinceFlush + 1 /\ diskFaults' = diskFaults + 1
    BY <1>14 DEF FlushRaises, FlushStops, DiskRefuses
  <2>2. diskFaults' # 0
    BY <1>2, <2>1
  <2> QED
    BY <1>2, <1>9, <1>10, <1>11, <2>1, <2>2 DEF RiskInv, R2
<1> QED
  BY <1>12, <1>13, <1>14

LEMMA ClosedCovers ==
  ASSUME BaseInv, LogInv, phase # "down"
  PROVE  Risk(Closed, accepted, forfeited) = {}
BY ClosedParts DEF BaseInv, LogInv, Covered, Risk

LEMMA RiskKept ==
  ASSUME BaseInv, LogInv, UNCHANGED <<accepted, forfeited, sinceFlush>>,
         events' \in {events, events + 1},
         \/ \A x \in Row : On(disk', x) <=> On(disk, x)
         \/ disk' = Closed /\ phase # "down"
  PROVE  RiskInv'
<1>1. /\ events \in Nat /\ sinceFlush \in Nat /\ accepted \in Seq(Row) /\ forfeited \subseteq Row
  BY CsvLogAssumption DEF BaseInv, TypeOK, CsvTypeOK
<1>2. /\ \A x \in Row : x.id \in Nat
      /\ \A i \in 1 .. Len(accepted) : accepted[i] \in Row /\ accepted[i].id \in Nat
  <2>1. \A x \in Row : x.id \in Nat
    BY LineParts
  <2> QED
    BY <1>1, <2>1, ElementOfSeq
<1>3. /\ Ascending(accepted) /\ Past(accepted, events')
      /\ \A x \in forfeited : x.id <= events'
  BY <1>1, <1>2 DEF LogInv, RiskInv, Past
<1>4. CASE \A x \in Row : On(disk', x) <=> On(disk, x)
  <2>1. Risk(disk', accepted, forfeited) = Risk(disk, accepted, forfeited)
    BY <1>2, <1>4 DEF Risk
  <2> QED
    BY <1>3, <2>1 DEF LogInv, RiskInv
<1>5. CASE disk' = Closed /\ phase # "down"
  <2>1. Risk(disk', accepted', forfeited') = {}
    BY <1>5, ClosedCovers
  <2>2. /\ TheEnd(Risk(disk', accepted', forfeited'), accepted')
        /\ Cardinality(Risk(disk', accepted', forfeited')) <= sinceFlush'
    BY <1>1, <2>1, NothingAtRisk
  <2> QED
    BY <1>3, <2>2 DEF RiskInv
<1> QED
  BY <1>4, <1>5

LEMMA CloseRaisesLog ==
  ASSUME BaseInv, LogInv, phase # "down", CloseRaises
  PROVE  RiskInv' /\ Risk(disk', accepted', forfeited') = {}
<1>1. PICK n \in 0 .. (Len(buffer) - 1), t \in BOOLEAN :
        /\ disk' = CutOff(n, t)
        /\ forfeited' = forfeited \cup ({buffer[i] : i \in (n + 1) .. Len(buffer)} \ {Header})
  BY DEF CloseRaises
<1>2. /\ events \in Nat /\ sinceFlush \in Nat /\ accepted \in Seq(Row) /\ forfeited \subseteq Row
      /\ buffer \in Seq(Whole) /\ n \in Nat /\ Len(buffer) \in Nat /\ handle = "open"
      /\ events' = events + 1 /\ UNCHANGED <<accepted, sinceFlush>>
  BY LenProperties DEF BaseInv, TypeOK, CsvTypeOK, CloseRaises, Whole
<1>3. /\ \A x \in Whole : x.id \in Nat
      /\ \A x \in Row : x.id \in Nat /\ x # Header
      /\ \A i \in 1 .. Len(accepted) : accepted[i] \in Row
      /\ \A i \in 1 .. Len(buffer) : buffer[i] \in Whole
  BY <1>2, LineParts, ElementOfSeq
<1>4. Ascending(accepted) /\ Past(accepted, events + 1)
  BY <1>2, <1>3 DEF LogInv, RiskInv, Past
<1>5. \A x \in forfeited' : x.id <= events + 1
  <2>1. \A i \in 1 .. Len(buffer) : buffer[i].id <= events
    BY DEF BaseInv, FileInv, Tables, Past
  <2>2. \A x \in forfeited : x.id <= events
    BY DEF LogInv, RiskInv
  <2> QED
    BY <1>1, <1>2, <1>3, <2>1, <2>2
<1>6. \A x \in Row : On(disk', x) <=> On(disk, x) \/ In(SubSeq(buffer, 1, n), x)
  BY <1>1, <1>2, CutOffParts DEF BaseInv
<1>7. Risk(disk', accepted', forfeited') = {}
  <2>1. Covered(disk, buffer, accepted, forfeited)
    BY DEF LogInv
  <2>2. ASSUME NEW i \in 1 .. Len(accepted) PROVE On(disk', accepted[i]) \/ accepted[i] \in forfeited'
    <3>1. CASE In(buffer, accepted[i])
      <4>1. PICK p \in 1 .. Len(buffer) : buffer[p] = accepted[i]
        BY <3>1 DEF In
      <4>2. CASE p <= n
        <5>1. /\ n \in 0 .. Len(buffer) /\ p \in 1 .. n
          BY <1>2, <4>1, <4>2
        <5>2. SubSeq(buffer, 1, n)[p] = accepted[i] /\ Len(SubSeq(buffer, 1, n)) = n
          BY <1>2, <4>1, <5>1, Cut
        <5>3. In(SubSeq(buffer, 1, n), accepted[i])
          BY <5>1, <5>2 DEF In
        <5> QED
          BY <1>3, <1>6, <5>3
      <4>3. CASE p > n
        BY <1>1, <1>2, <1>3, <4>1, <4>3
      <4> QED
        BY <1>2, <4>1, <4>2, <4>3
    <3>2. CASE ~In(buffer, accepted[i])
      BY <1>1, <1>3, <1>6, <2>1, <3>2 DEF Covered
    <3> QED
      BY <3>1, <3>2
  <2> QED
    BY <1>2, <2>2 DEF Risk
<1>8. /\ TheEnd(Risk(disk', accepted', forfeited'), accepted')
      /\ Cardinality(Risk(disk', accepted', forfeited')) <= sinceFlush'
  BY <1>2, <1>7, NothingAtRisk
<1> QED
  BY <1>2, <1>4, <1>5, <1>7, <1>8 DEF RiskInv

LEMMA CoveredIfNoRisk ==
  ASSUME NEW d, NEW b, NEW acc, NEW gone, Risk(d, acc, gone) = {}
  PROVE  Covered(d, b, acc, gone)
BY DEF Risk, Covered

LEMMA EmitLog ==
  ASSUME BaseInv, LogInv, phase # "down", Emit
  PROVE  /\ RiskInv' /\ Covered(disk', buffer', accepted', forfeited')
         /\ diskFaults' = 0 => sinceFlush' < Batch /\ handle' # "closed"
<1>0. diskFaults \in Nat
  BY CsvLogAssumption DEF BaseInv, TypeOK, CsvTypeOK
<1>1. CASE EmitBuffered \/ EmitFlushed \/ FlushRaises
  BY <1>1, WrittenLog
<1>2. CASE CloseRaises
  <2>1. diskFaults' # 0
    BY <1>0, <1>2 DEF CloseRaises, DiskRefuses
  <2>2. RiskInv' /\ Risk(disk', accepted', forfeited') = {}
    BY <1>2, CloseRaisesLog
  <2> QED
    BY <2>1, <2>2, CoveredIfNoRisk
<1>3. CASE OpenRaises
  <2>1. /\ UNCHANGED <<accepted, forfeited, sinceFlush>> /\ events' = events + 1
        /\ disk' = Closed /\ diskFaults' = diskFaults + 1
    BY <1>3 DEF OpenRaises, DiskRefuses
  <2>2. RiskInv' /\ Risk(disk', accepted', forfeited') = {}
    BY <2>1, RiskKept, ClosedCovers
  <2> QED
    BY <1>0, <2>1, <2>2, CoveredIfNoRisk
<1> QED
  BY <1>1, <1>2, <1>3 DEF Emit

LEMMA LogUnchanged ==
  ASSUME LogInv, UNCHANGED <<disk, handle, buffer, sinceFlush, events, accepted, forfeited>>,
         diskFaults' = 0 => diskFaults = 0,
         phase' # "down" => phase # "down", phase' = "closed" => phase = "closed"
  PROVE  LogInv'
BY DEF LogInv, RiskInv

LEMMA LogInit == Init => LogInv
<1> SUFFICES ASSUME Init PROVE LogInv
  OBVIOUS
<1>1. accepted = <<>> /\ forfeited = {} /\ events = 0 /\ sinceFlush = 0 /\ phase = "down"
      /\ handle = "none" /\ Len(accepted) = 0
  BY EmptySeq DEF Init, CsvInit
<1>2. Risk(disk, accepted, forfeited) = {}
  BY <1>1 DEF Risk
<1>3. /\ TheEnd(Risk(disk, accepted, forfeited), accepted)
      /\ Cardinality(Risk(disk, accepted, forfeited)) <= 0
  BY <1>2, NothingAtRisk
<1> QED
  BY <1>1, <1>3, BatchCounts DEF LogInv, RiskInv, Ascending, Past

LEMMA FlushFailsLog ==
  ASSUME BaseInv, LogInv, phase # "down", FlushFailsOnClose
  PROVE  RiskInv' /\ Covered(disk', buffer', accepted', forfeited')
<1> DEFINE f == PathFor(openDay)
           R == Risk(disk, accepted, forfeited)
           R2 == Risk(disk', accepted', forfeited')
<1>1. PICK k \in 0 .. Len(buffer) :
        /\ disk' = Appended(disk, f, SubSeq(buffer, 1, k))
        /\ buffer' = SubSeq(buffer, k + 1, Len(buffer))
  BY FlushFailsParts DEF BaseInv
<1>2. /\ UNCHANGED <<accepted, forfeited, sinceFlush, events>> /\ handle = "open"
      /\ accepted \in Seq(Row) /\ sinceFlush \in Nat
  BY DEF FlushFailsOnClose, BaseInv, TypeOK, CsvTypeOK
<1>3. f \in File
  BY PathIsFile DEF BaseInv, TypeOK, CsvTypeOK
<1>4. /\ Tables(disk, buffer, events) /\ Ready(disk, buffer, f) /\ Files(disk)
      /\ buffer \in Seq(Line)
  BY <1>2, WholeIsLine DEF BaseInv, FileInv, Tables
<1>5. /\ TheEnd(R, accepted) /\ Cardinality(R) <= sinceFlush /\ Ascending(accepted)
      /\ Covered(disk, buffer, accepted, forfeited)
      /\ Past(accepted, events) /\ \A x \in forfeited : x.id <= events
  BY DEF LogInv, RiskInv
<1>6. Ascending(buffer)
  BY <1>4, BufferAscends
<1> HIDE DEF f
<1>7. /\ Covered(disk', buffer', accepted', forfeited')
      /\ TheEnd(R2, accepted') /\ R2 \subseteq R
  BY <1>1, <1>2, <1>3, <1>4, <1>5, <1>6, RiskOfSpill
<1> HIDE DEF R, R2
<1>8. Cardinality(R2) <= sinceFlush
  <2>1. IsFiniteSet(R) /\ Cardinality(R) \in Nat
    BY <1>2, RiskIsFinite DEF R
  <2>2. Cardinality(R2) <= Cardinality(R) /\ IsFiniteSet(R2)
    BY <1>7, <2>1, FS_Subset
  <2>3. Cardinality(R2) \in Nat
    BY <2>2, FS_CardinalityType
  <2> QED
    BY <1>2, <1>5, <2>1, <2>2, <2>3
<1> QED
  BY <1>2, <1>5, <1>7, <1>8 DEF RiskInv, R2

LEMMA LogStep == BaseInv /\ LogInv /\ [Next]_vars => LogInv'
<1> SUFFICES ASSUME BaseInv, LogInv, [Next]_vars PROVE LogInv'
  OBVIOUS
<1>0. diskFaults \in Nat /\ TypeOK /\ LifeInv
  BY CsvLogAssumption DEF BaseInv, TypeOK, CsvTypeOK
<1>1. CASE UNCHANGED vars
  BY <1>1, LogUnchanged DEF vars, csvVars, lifeVars
<1>2. CASE Start
  <2>1. /\ accepted' = <<>> /\ forfeited' = {} /\ sinceFlush' = 0 /\ handle' = "none"
        /\ phase' = "connecting" /\ buffer' = <<>> /\ Len(accepted') = 0
    BY <1>2, EmptySeq DEF Start, FreshSink
  <2>2. Risk(disk', accepted', forfeited') = {}
    BY <2>1 DEF Risk
  <2>3. /\ TheEnd(Risk(disk', accepted', forfeited'), accepted')
        /\ Cardinality(Risk(disk', accepted', forfeited')) <= sinceFlush'
    BY <2>1, <2>2, NothingAtRisk
  <2>4. RiskInv'
    BY <2>1, <2>3 DEF RiskInv, Ascending, Past
  <2> QED
    BY <2>1, <2>2, <2>4, BatchCounts, CoveredIfNoRisk DEF LogInv
<1>3. CASE Connected
  BY <1>3, LogUnchanged DEF Connected, csvVars
<1>4. CASE ConnectGivesUp
  BY <1>4, LogUnchanged DEF ConnectGivesUp, csvVars
<1>19. CASE ConnectedTooLate
  BY <1>19, LogUnchanged DEF ConnectedTooLate, csvVars
<1>20. CASE BeginWrite
  BY <1>20, LogUnchanged DEF BeginWrite, csvVars
<1>21. CASE EndWrite
  BY <1>21, LogUnchanged DEF EndWrite, csvVars
<1>5. CASE ScanEmits
  <2>1. phase \in {"up", "draining"} /\ phase' = phase /\ Emit
    BY <1>0, <1>5 DEF ScanEmits, LifeInv, lifeVars
  <2> QED
    BY <2>1, EmitLog DEF LogInv
<1>6. CASE DiscoveryEnds
  BY <1>6, LogUnchanged DEF DiscoveryEnds, csvVars, lifeVars
<1>7. CASE ReportWritten
  BY <1>7, LogUnchanged DEF ReportWritten, csvVars
<1>8. CASE ReportRaises
  BY <1>0, <1>8, LogUnchanged DEF ReportRaises
<1>9. CASE OpenStream
  BY <1>9, LogUnchanged DEF OpenStream, csvVars
<1>10. CASE CloseStream
  BY <1>10, LogUnchanged DEF CloseStream, csvVars
<1>11. CASE StopSignal
  BY <1>11, LogUnchanged DEF StopSignal, csvVars
<1>12. CASE CancelTasks
  BY <1>12, LogUnchanged DEF CancelTasks, csvVars
<1>13. CASE CloseSinks
  <2>1. phase = "cancelled" /\ phase' = "closed"
    BY <1>13 DEF CloseSinks
  <2>2. CASE FlushAndClose
    <3>1. /\ disk' = Closed /\ handle' = (IF handle = "open" THEN "none" ELSE handle)
          /\ UNCHANGED <<events, accepted, forfeited, diskFaults>>
          /\ sinceFlush' = (IF handle = "open" THEN 0 ELSE sinceFlush)
          /\ handle \in {"none", "open", "closed"} /\ sinceFlush \in Nat
      BY <1>0, <2>2 DEF FlushAndClose, TypeOK, CsvTypeOK
    <3>2. Risk(disk', accepted', forfeited') = {}
      BY <2>1, <3>1, ClosedCovers
    <3>3. /\ TheEnd(Risk(disk', accepted', forfeited'), accepted')
          /\ Cardinality(Risk(disk', accepted', forfeited')) <= sinceFlush'
      BY <3>1, <3>2, NothingAtRisk
    <3>4. RiskInv'
      BY <3>1, <3>3 DEF LogInv, RiskInv
    <3>5. diskFaults' = 0 => sinceFlush' < Batch /\ handle' = "none"
      BY <3>1, BatchCounts DEF LogInv
    <3> QED
      BY <2>1, <3>2, <3>4, <3>5, CoveredIfNoRisk DEF LogInv
  <2>3. CASE FlushFailsOnClose
    <3>1. PICK k \in 0 .. Len(buffer) :
            /\ disk' = Appended(disk, PathFor(openDay), SubSeq(buffer, 1, k))
            /\ buffer' = SubSeq(buffer, k + 1, Len(buffer))
            /\ diskFaults' = diskFaults + 1
      BY <1>0, <2>3, FlushFailsParts DEF BaseInv
    <3>2. diskFaults' # 0 /\ UNCHANGED <<accepted, forfeited, sinceFlush, events>>
      BY <1>0, <2>3, <3>1 DEF FlushFailsOnClose
    <3>3. RiskInv' /\ Covered(disk', buffer', accepted', forfeited')
      BY <2>3, <2>1, FlushFailsLog
    <3> QED
      BY <2>1, <3>2, <3>3 DEF LogInv
  <2> QED
    BY <1>13, <2>2, <2>3 DEF CloseSinks
<1>14. ASSUME NEW writesOut, phase # "down", Vanish(writesOut), phase' = "down" PROVE LogInv'
  <2>1. /\ handle' = "none"
        /\ UNCHANGED <<sinceFlush, events, accepted, forfeited, diskFaults>>
    BY <1>14 DEF Vanish
  <2>2. RiskInv'
    <3>1. CASE disk' = Closed
      BY <1>14, <2>1, <3>1, RiskKept
    <3>2. CASE handle = "open" /\ 0 \in 0 .. (Len(buffer) - 1) /\ disk' = CutOff(0, split)
      <4>1. split \in BOOLEAN /\ buffer \in Seq(Whole)
        BY <1>0 DEF TypeOK, CsvTypeOK, Whole
      <4>2. \A x \in Row : On(disk', x) <=> On(disk, x) \/ In(SubSeq(buffer, 1, 0), x)
        BY <3>2, <4>1, CutOffParts DEF BaseInv
      <4>3. Len(SubSeq(buffer, 1, 0)) = 0
        BY SubSeqEmpty, EmptySeq
      <4>4. \A x \in Row : On(disk', x) <=> On(disk, x)
        BY <4>2, <4>3 DEF In
      <4> QED
        BY <2>1, <4>4, RiskKept
    <3> QED
      BY <1>14, <3>1, <3>2, VanishParts DEF BaseInv
  <2> QED
    BY <1>14, <2>1, <2>2 DEF LogInv
<1>15. CASE Exit
  BY <1>14, <1>15 DEF Exit
<1>16. CASE ForceQuit
  BY <1>14, <1>16 DEF ForceQuit
<1>17. CASE Kill
  BY <1>14, <1>17 DEF Kill
<1>18. CASE NewDay
  BY <1>18, LogUnchanged DEF NewDay, DayPasses, lifeVars
<1> QED
  BY <1>1, <1>2, <1>3, <1>4, <1>5, <1>6, <1>7, <1>8, <1>9, <1>10, <1>11, <1>12, <1>13,
     <1>15, <1>16, <1>17, <1>18, <1>19, <1>20, <1>21 DEF Next, ConnectEnds

-----------------------------------------------------------------------------
(* Tears. *)
LEMMA TearStep ==
  ASSUME TearInv, TearsCounted, losses \in Nat PROVE TearInv'
<1> DEFINE T == TornIn(disk)
           U == TornIn(disk')
<1>1. IsFiniteSet(T) /\ Cardinality(T) <= losses /\ Cardinality(T) \in Nat
  BY FS_CardinalityType DEF TearInv
<1> SUFFICES IsFiniteSet(U) /\ Cardinality(U) <= losses'
  BY DEF TearInv
<1>2. \/ U \subseteq T /\ losses' = losses
      \/ losses' = losses + 1 /\ \E p : U \subseteq T \cup {p}
  BY DEF TearsCounted
<1> HIDE DEF T, U
<1>3. CASE U \subseteq T /\ losses' = losses
  <2>1. IsFiniteSet(U) /\ Cardinality(U) <= Cardinality(T)
    BY <1>1, <1>3, FS_Subset
  <2>2. Cardinality(U) \in Nat
    BY <2>1, FS_CardinalityType
  <2> QED
    BY <1>1, <1>3, <2>1, <2>2
<1>4. ASSUME NEW p, U \subseteq T \cup {p}, losses' = losses + 1
      PROVE  IsFiniteSet(U) /\ Cardinality(U) <= losses'
  <2>1. /\ IsFiniteSet(T \cup {p})
        /\ Cardinality(T \cup {p}) = IF p \in T THEN Cardinality(T) ELSE Cardinality(T) + 1
    BY <1>1, FS_AddElement
  <2>2. IsFiniteSet(U) /\ Cardinality(U) <= Cardinality(T \cup {p})
    BY <1>4, <2>1, FS_Subset
  <2>3. Cardinality(U) \in Nat
    BY <2>2, FS_CardinalityType
  <2> QED
    BY <1>1, <1>4, <2>1, <2>2, <2>3
<1> QED
  BY <1>2, <1>3, <1>4

LEMMA TearInit == Init => TearInv
<1> SUFFICES ASSUME Init PROVE TearInv
  OBVIOUS
<1>1. DOMAIN disk = {} /\ losses = 0
  BY DEF Init, CsvInit
<1>2. TornIn(disk) = {}
  BY <1>1 DEF TornIn
<1> QED
  BY <1>1, <1>2, FS_EmptySet DEF TearInv

LEMMA ServiceKept == Spec => [](BaseInv /\ LogInv /\ TearInv)
<1>1. Init => BaseInv /\ LogInv /\ TearInv
  BY BaseInit, LogInit, TearInit
<1>2. (BaseInv /\ LogInv /\ TearInv) /\ [Next]_vars => (BaseInv /\ LogInv /\ TearInv)'
  <2>1. BaseInv => losses \in Nat
    BY DEF BaseInv, TypeOK, CsvTypeOK
  <2> QED
    BY <2>1, BaseStep, LogStep, TearStep
<1> QED
  BY <1>1, <1>2, PTL DEF Spec

-----------------------------------------------------------------------------
(* The counters, the handles and the files stay what they are, and a       *)
(* report is being written only by a discovery that runs, however often    *)
(* the process is killed and started again (service.py lifespan).          *)
THEOREM ServiceTyped == Spec => []TypeOK
<1>1. BaseInv => TypeOK
  BY DEF BaseInv
<1> QED
  BY <1>1, ServiceKept, PTL

LEMMA TearsAreTorn == Files(disk) => Tears = TornIn(disk)
<1> SUFFICES ASSUME Files(disk) PROVE Tears = TornIn(disk)
  OBVIOUS
<1>1. ASSUME NEW f \in DOMAIN disk
      PROVE  {f} \X {i \in DOMAIN disk[f] : ~disk[f][i].whole}
               = {<<f, i>> : i \in {j \in 1 .. Len(disk[f]) : ~disk[f][j].whole}}
  <2>1. DOMAIN disk[f] = 1 .. Len(disk[f])
    BY LenProperties DEF Files
  <2> DEFINE D == {i \in 1 .. Len(disk[f]) : ~disk[f][i].whole}
  <2> HIDE DEF D
  <2>2. {f} \X D = {<<f, i>> : i \in D}
    OBVIOUS
  <2> QED
    BY <2>1, <2>2 DEF D
<1> DEFINE F(f) == {f} \X {i \in DOMAIN disk[f] : ~disk[f][i].whole}
           G(f) == {<<f, i>> : i \in {j \in 1 .. Len(disk[f]) : ~disk[f][j].whole}}
<1>2. \A f \in DOMAIN disk : F(f) = G(f)
  BY <1>1
<1>3. Tears = UNION {F(f) : f \in DOMAIN disk} /\ TornIn(disk) = UNION {G(f) : f \in DOMAIN disk}
  BY Zenon DEF Tears, TornIn
<1> HIDE DEF F, G
<1>4. UNION {F(f) : f \in DOMAIN disk} = UNION {G(f) : f \in DOMAIN disk}
  BY <1>2
<1> QED
  BY <1>3, <1>4

(* Every CSV file is a header and below it the rows of its day, in order   *)
(* and each once, for any number of crashes, restarts and failures of the  *)
(* disk; and however many of them stop in the middle of a row, a line is   *)
(* torn only where a buffer was lost, at most one for each                 *)
(* (adapters/sinks/csv_sink.py _ensure_file).                              *)
THEOREM FilesStayTables == Spec => []FilesAreTables
<1>1. BaseInv /\ TearInv => FilesAreTables
  <2> SUFFICES ASSUME BaseInv, TearInv PROVE FilesAreTables
    OBVIOUS
  <2>1. ASSUME NEW f \in DOMAIN disk, NEW i \in DOMAIN disk[f]
        PROVE  /\ (i = 1) = (disk[f][i].id = Header.id)
               /\ i > 1 => /\ disk[f][i - 1].id < disk[f][i].id
                           /\ rotateDaily => disk[f][i].day = f
    <3> DEFINE s == disk[f]
    <3>1. s \in Seq(Line) /\ Table(f, s) /\ Header.id = 0
      BY LineParts DEF BaseInv, FileInv, Tables, Files
    <3>2. Len(s) \in Nat /\ DOMAIN s = 1 .. Len(s)
      BY <3>1, LenProperties
    <3>3. i \in 1 .. Len(s)
      BY <3>2
    <3> HIDE DEF s
    <3>4. /\ (i = 1) = (s[i].id = Header.id)
          /\ i > 1 /\ rotateDaily => s[i].day = f
      BY <3>1, <3>3 DEF Table
    <3>5. i > 1 => s[i - 1].id < s[i].id
      <4>1. i > 1 => i - 1 \in 1 .. Len(s) /\ i - 1 < i
        BY <3>2, <3>3
      <4> QED
        BY <3>1, <3>3, <4>1 DEF Table, Ascending
    <3> QED
      BY <3>4, <3>5 DEF s
  <2>2. Cardinality(Tears) <= losses
    BY TearsAreTorn DEF BaseInv, FileInv, Tables, TearInv
  <2> QED
    BY <2>1, <2>2, Zenon DEF FilesAreTables
<1> QED
  BY <1>1, ServiceKept, PTL

(* After a rotation that failed the sink opens the file of the next event: *)
(* it never believes that the closed one is the file of the day            *)
(* (adapters/sinks/csv_sink.py _ensure_file).                              *)
THEOREM RotationHeals == Spec => []FailedRotationHeals
<1>1. BaseInv => FailedRotationHeals
  BY DEF BaseInv, FileInv, TypeOK, CsvTypeOK, FailedRotationHeals
<1> QED
  BY <1>1, ServiceKept, PTL

(* The rows at risk, in the words of the model. *)
LEMMA RiskIsAtRisk ==
  ASSUME BaseInv PROVE AtRisk = Risk(disk, accepted, forfeited)
<1>1. DOMAIN accepted = 1 .. Len(accepted)
  BY LenProperties DEF BaseInv, TypeOK, CsvTypeOK
<1>2. \A f \in DOMAIN disk : DOMAIN disk[f] = 1 .. Len(disk[f])
  BY LenProperties DEF BaseInv, FileInv, Tables, Files
<1>3. \A x : x \in OnDisk <=> On(disk, x)
  BY <1>2 DEF OnDisk, On, In
<1> QED
  BY <1>1, <1>3 DEF AtRisk, Risk

(* A crash takes the end of the log and nothing before it, at most as many *)
(* rows as the sink counts as unflushed, and those are fewer than          *)
(* flush_every while the disk has refused nothing (adapters/sinks/csv_sink.py emit).     *)
THEOREM CrashTakesOnlyTheEnd == Spec => []CrashTakesTheEnd
<1>1. BaseInv /\ LogInv => CrashTakesTheEnd
  <2> SUFFICES ASSUME BaseInv, LogInv PROVE CrashTakesTheEnd
    OBVIOUS
  <2>1. DOMAIN accepted = 1 .. Len(accepted)
    BY LenProperties DEF BaseInv, TypeOK, CsvTypeOK
  <2>2. /\ TheEnd(AtRisk, accepted) /\ Cardinality(AtRisk) <= sinceFlush
        /\ diskFaults = 0 => sinceFlush < Batch
    BY RiskIsAtRisk DEF LogInv, RiskInv
  <2> QED
    BY <2>1, <2>2 DEF CrashTakesTheEnd, TheEnd
<1> QED
  BY <1>1, ServiceKept, PTL

(* A stop that gets as far as the sinks loses no row, whichever task it    *)
(* interrupts, unless the disk has refused (service.py lifespan).          *)
THEOREM StopLosesNothing == Spec => []StopKeepsTheLog
<1>1. BaseInv /\ LogInv => StopKeepsTheLog
  BY RiskIsAtRisk DEF LogInv, StopKeepsTheLog
<1> QED
  BY <1>1, ServiceKept, PTL

(* Who asks for the report of the discovery is served the last one         *)
(* written, whole unless its writing was cut, for any names, clocks and    *)
(* restarts; an absolute path beside stamped files is excepted             *)
(* (api.py get_discovery).                                                 *)
THEOREM LatestIsServed == Spec => []LatestReportServed
<1>1. BaseInv => LatestReportServed
  <2> SUFFICES ASSUME BaseInv, writing = NoName, runs > 0, ~Shadowed
               PROVE  /\ Served # NoName
                      /\ reports[Served].run = runs
                      /\ runs \notin cut => reports[Served].lines = ReportLines
    BY DEF LatestReportServed
  <2>1. /\ DOMAIN reports \subseteq Stamp \cup {Rooted} /\ runs \in Nat
        /\ \A n \in DOMAIN reports : reports[n].run \in Nat /\ reports[n].run <= runs
        /\ \E n \in DOMAIN reports : reports[n].run = runs
        /\ runs \notin cut =>
             \A n \in DOMAIN reports : reports[n].run = runs => reports[n].lines = ReportLines
    BY ReportStoreAssumption
       DEF BaseInv, ReportInv, TypeOK, StoreTypeOK, Report, Stamp
  <2>2. \A n \in Stamp \cup {Rooted} : n # NoName
    BY ReportStoreAssumption DEF Stamp, Rooted, NoName
  <2>3. CASE Stamped # {}
    <3>1. PICK n \in Stamped : reports[n].run = runs
      BY <2>1, <2>3 DEF Stamped, Shadowed
    <3>2. \A m \in Stamped : reports[m].run <= reports[n].run
      BY <2>1, <3>1 DEF Stamped
    <3>3. /\ Served \in Stamped
          /\ \A m \in Stamped : reports[m].run <= reports[Served].run
      BY <2>3, <3>1, <3>2 DEF Served, NewestOf
    <3>4. Served \in DOMAIN reports /\ reports[n].run <= reports[Served].run
      BY <3>1, <3>3 DEF Stamped
    <3> QED
      BY <2>1, <2>2, <3>1, <3>4
  <2>4. CASE Stamped = {}
    <3>1. Served = Rooted /\ reports[Served].run = runs /\ Rooted \in DOMAIN reports
      BY <2>1, <2>4 DEF Stamped, Served
    <3> QED
      BY <2>1, <2>2, <3>1
  <2> QED
    BY <2>3, <2>4
<1> QED
  BY <1>1, ServiceKept, PTL

-----------------------------------------------------------------------------
LEMMA AppendedKeeps ==
  ASSUME NEW d, NEW f \in File, NEW lines \in Seq(Line),
         Files(d)
  PROVE  Keeps(d, Appended(d, f, lines))
<1> DEFINE e == Appended(d, f, lines)
<1>1. /\ DOMAIN e = DOMAIN d \cup {f}
      /\ \A g \in DOMAIN d \ {f} : e[g] = d[g]
      /\ f \in DOMAIN d => e[f] = d[f] \o lines
  BY AppendedParts
<1> HIDE DEF e
<1>2. ASSUME NEW g \in DOMAIN d PROVE Begins(d[g], e[g])
  <2>1. Len(d[g]) \in Nat
    BY LenProperties DEF Files
  <2>2. CASE g = f
    <3>1. /\ Len(d[f] \o lines) = Len(d[f]) + Len(lines) /\ Len(lines) \in Nat
          /\ \A i \in 1 .. Len(d[f]) : (d[f] \o lines)[i] = d[f][i]
      BY <2>2, Joined DEF Files
    <3> QED
      BY <1>1, <2>1, <2>2, <3>1 DEF Begins
  <2>3. CASE g # f
    BY <1>1, <2>1, <2>3 DEF Begins
  <2> QED
    BY <2>2, <2>3
<1> QED
  BY <1>1, <1>2 DEF Keeps, e

LEMMA KeepsTwice ==
  ASSUME NEW c, NEW d, NEW e, Keeps(c, d), Keeps(d, e),
         \A f \in DOMAIN c : c[f] \in Seq(Line), \A f \in DOMAIN d : d[f] \in Seq(Line),
         \A f \in DOMAIN e : e[f] \in Seq(Line)
  PROVE  Keeps(c, e)
<1>1. ASSUME NEW f \in DOMAIN c PROVE f \in DOMAIN e /\ Begins(c[f], e[f])
  <2>1. /\ f \in DOMAIN d /\ f \in DOMAIN e /\ Begins(c[f], d[f]) /\ Begins(d[f], e[f])
    BY DEF Keeps
  <2>2. Len(c[f]) \in Nat /\ Len(d[f]) \in Nat /\ Len(e[f]) \in Nat
    BY <2>1, LenProperties
  <2> QED
    BY <2>1, <2>2 DEF Begins
<1> QED
  BY <1>1 DEF Keeps

LEMMA KeepsItself ==
  ASSUME NEW d, \A f \in DOMAIN d : d[f] \in Seq(Line) PROVE Keeps(d, d)
BY LenProperties DEF Keeps, Begins

LEMMA ClosedKeeps == FileInv /\ TypeOK => Keeps(disk, Closed)
<1> SUFFICES ASSUME FileInv, TypeOK PROVE Keeps(disk, Closed)
  OBVIOUS
<1>1. Files(disk) /\ PathFor(openDay) \in File /\ buffer \in Seq(Line)
  BY PathIsFile, WholeIsLine DEF FileInv, Tables, TypeOK, CsvTypeOK
<1>2. Keeps(disk, Appended(disk, PathFor(openDay), buffer))
  BY <1>1, AppendedKeeps
<1> QED
  BY <1>1, <1>2, KeepsItself DEF Closed, Files

LEMMA CutOffKeeps ==
  ASSUME FileInv, TypeOK, NEW n \in 0 .. (Len(buffer) - 1), NEW t \in BOOLEAN
  PROVE  Keeps(disk, CutOff(n, t))
<1>1. Files(disk) /\ PathFor(openDay) \in File /\ buffer \in Seq(Whole)
  BY PathIsFile DEF FileInv, Tables, TypeOK, CsvTypeOK
<1>2. SubSeq(buffer, 1, n) \o (IF t THEN <<Torn(buffer[n + 1])>> ELSE <<>>) \in Seq(Line)
  BY <1>1, CutParts
<1> QED
  BY <1>1, <1>2, AppendedKeeps DEF CutOff

LEMMA EnsureKeeps == FileInv /\ TypeOK => Keeps(disk, EnsureFile.disk)
<1> SUFFICES ASSUME FileInv, TypeOK PROVE Keeps(disk, EnsureFile.disk)
  OBVIOUS
<1>1. Files(disk) /\ Files(Closed) /\ Files(Opened.disk)
  BY ClosedParts, OpenedParts DEF FileInv, Tables
<1>2. PathFor(today) \in File /\ <<>> \in Seq(Line)
  BY PathIsFile, NothingWritten DEF TypeOK, CsvTypeOK
<1>3. Keeps(Closed, Appended(Closed, PathFor(today), <<>>))
  BY <1>1, <1>2, AppendedKeeps
<1>4. Opened.disk = Appended(Closed, PathFor(today), <<>>)
  BY DEF Opened
<1>5. Keeps(disk, Opened.disk)
  BY <1>1, <1>3, <1>4, ClosedKeeps, KeepsTwice DEF Files
<1> QED
  BY <1>1, <1>5, KeepsItself DEF EnsureFile, Files

LEMMA EmitKeeps == FileInv /\ TypeOK /\ Emit => Keeps(disk, disk')
<1> SUFFICES ASSUME FileInv, TypeOK, Emit PROVE Keeps(disk, disk')
  OBVIOUS
<1>1. Files(disk)
  BY DEF FileInv, Tables
<1>2. CASE EmitBuffered \/ EmitFlushed \/ FlushRaises
  <2> DEFINE d == EnsureFile.disk
             m(k) == SubSeq(Lines, 1, k)
  <2>1. PICK k \in 0 .. Len(Lines) : Writes(k)
    BY <1>2, EmitWrites
  <2>2. disk' = Appended(d, PathFor(today), m(k)) /\ events < MaxEvents
    BY <2>1 DEF Writes
  <2>3. Files(d) /\ Lines \in Seq(Line)
    BY <2>2, EnsureReady, LinesTyped
  <2>4. m(k) \in Seq(Line)
    BY <2>1, <2>3, Cut
  <2>5. PathFor(today) \in File
    BY PathIsFile DEF TypeOK, CsvTypeOK
  <2>6. Keeps(disk, d)
    BY EnsureKeeps
  <2> HIDE DEF m, d
  <2>7. Keeps(d, disk')
    BY <2>2, <2>3, <2>4, <2>5, AppendedKeeps
  <2>8. Files(disk')
    BY <2>2, <2>3, <2>4, <2>5, AppendedParts
  <2> QED
    BY <1>1, <2>3, <2>6, <2>7, <2>8, KeepsTwice DEF Files
<1>3. CASE CloseRaises
  <2>1. PICK n \in 0 .. (Len(buffer) - 1), t \in BOOLEAN : disk' = CutOff(n, t)
    BY <1>3 DEF CloseRaises
  <2> QED
    BY <2>1, CutOffKeeps
<1>4. CASE OpenRaises
  BY <1>4, ClosedKeeps DEF OpenRaises
<1> QED
  BY <1>2, <1>3, <1>4 DEF Emit

LEMMA FlushFailsKeeps ==
  ASSUME FileInv, TypeOK, FlushFailsOnClose PROVE Keeps(disk, disk')
<1>1. PICK k \in 0 .. Len(buffer) :
        disk' = Appended(disk, PathFor(openDay), SubSeq(buffer, 1, k))
  BY FlushFailsParts
<1>2. Files(disk) /\ PathFor(openDay) \in File /\ buffer \in Seq(Line)
  BY PathIsFile, WholeIsLine DEF FileInv, Tables, TypeOK, CsvTypeOK
<1>3. SubSeq(buffer, 1, k) \in Seq(Line)
  BY <1>2, Cut
<1> QED
  BY <1>1, <1>2, <1>3, AppendedKeeps

LEMMA VanishKeeps ==
  ASSUME FileInv, TypeOK, NEW writesOut, Vanish(writesOut) PROVE Keeps(disk, disk')
<1>1. CASE disk' = Closed
  BY <1>1, ClosedKeeps
<1>2. CASE 0 \in 0 .. (Len(buffer) - 1) /\ disk' = CutOff(0, split)
  <2>1. split \in BOOLEAN
    BY DEF TypeOK, CsvTypeOK
  <2> QED
    BY <1>2, <2>1, CutOffKeeps
<1> QED
  BY <1>1, <1>2, VanishParts

(* A line once written to a CSV file is never changed, moved or taken      *)
(* away, by a restart on the same day neither (the "a" of                   *)
(* CsvSink._ensure_file).                                                  *)
THEOREM WrittenLinesStay == Spec => LinesStay
<1>1. BaseInv /\ [Next]_vars => [Keeps(disk, disk')]_csvVars
  <2>2. ASSUME BaseInv, UNCHANGED disk PROVE Keeps(disk, disk')
    <3>1. \A f \in DOMAIN disk : disk[f] \in Seq(Line)
      BY <2>2 DEF BaseInv, FileInv, Tables, Files
    <3> QED
      BY <2>2, <3>1, KeepsItself
  <2>3. ASSUME BaseInv, Next PROVE Keeps(disk, disk')
    <3>1. disk' = Closed => Keeps(disk, disk')
      BY <2>3, ClosedKeeps DEF BaseInv
    <3>2. CASE ScanEmits
      BY <2>3, <3>2, EmitKeeps DEF ScanEmits, BaseInv
    <3>3. CASE CloseSinks
      BY <2>3, <3>1, <3>3, FlushFailsKeeps DEF CloseSinks, FlushAndClose, BaseInv
    <3>4. CASE Exit \/ ForceQuit \/ Kill
      BY <2>3, <3>4, VanishKeeps DEF Exit, ForceQuit, Kill, BaseInv
    <3>5. CASE Start \/ NewDay \/ ReportRaises
      BY <2>2, <2>3, <3>5 DEF Start, FreshSink, NewDay, DayPasses, ReportRaises
    <3>6. CASE \/ ConnectEnds \/ DiscoveryEnds \/ ReportWritten \/ OpenStream \/ CloseStream
               \/ BeginWrite \/ EndWrite \/ StopSignal \/ CancelTasks
      <4>1. UNCHANGED csvVars
        BY <3>6 DEF ConnectEnds, Connected, ConnectedTooLate, ConnectGivesUp, DiscoveryEnds,
                    ReportWritten, OpenStream, CloseStream, BeginWrite, EndWrite,
                    StopSignal, CancelTasks
      <4> QED
        BY <2>2, <2>3, <4>1 DEF csvVars
    <3> QED
      BY <2>3, <3>2, <3>3, <3>4, <3>5, <3>6 DEF Next
  <2>4. UNCHANGED vars => UNCHANGED csvVars
    BY DEF vars
  <2> QED
    BY <2>3, <2>4
<1> QED
  BY <1>1, ServiceKept, PTL DEF Spec, LinesStay
=============================================================================
