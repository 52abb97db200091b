-------------------------- MODULE RequestLogProofs --------------------------
(***************************************************************************)
(* Proofs about the request log, for any size of the log and of its pages, *)
(* any number of requests and any number of restarts.                      *)
(***************************************************************************)
EXTENDS RequestLog, SequenceTheorems, FiniteSetTheorems, TLAPS

Descends(s) == \A i, j \in DOMAIN s : i < j => s[i].seq > s[j].seq

\* The buffer was added after the rows, in its order, and is memory.
BufferAfterRows ==
    /\ IsFiniteSet(db)
    /\ \A i, j \in DOMAIN pending : i < j => pending[i].seq < pending[j].seq
    /\ \A e \in db, f \in ToSet(pending) : e.seq < f.seq
    /\ mode = "down" => pending = <<>>

\* Whatever is in the log, or was read from it.
Known == Retained \cup ToSet(reader.got) \cup reader.start

\* The ids number the entries, across restarts.
IdsTellApart ==
    /\ \A e \in Known : e.id <= added
    /\ \A e, f \in Known : e.id = f.id => e = f

\* Between two pages, what was in the log and still is was read down to the cursor.
ReadDownToCursor ==
    reader.reading =>
       /\ reader.got # <<>>
       /\ reader.before = Last(reader.got).seq
       /\ \A e \in reader.start \cap Retained :
             e.seq >= reader.before => e \in ToSet(reader.got)

\* The inductive invariant
LogIInv == /\ LogInv /\ BufferAfterRows /\ IdsTellApart
           /\ PagesDescend /\ ReadDownToCursor /\ ShowsAllRetained

-----------------------------------------------------------------------------
(* Lists of rows.                                                          *)

\* A finite set of rows of which no two share a number.
IsTable(rows) == /\ rows \subseteq Entry /\ IsFiniteSet(rows)
                 /\ \A e, f \in rows : e.seq = f.seq => e = f

\* s holds the newest n rows, or all of them, newest first.
IsTop(s, rows, n) ==
    /\ s \in Seq(Entry) /\ Len(s) <= n /\ Descends(s) /\ ToSet(s) \subseteq rows
    /\ \A e \in rows \ ToSet(s) : Len(s) = n /\ \A f \in ToSet(s) : f.seq > e.seq

LEMMA ToSetFacts ==
    ASSUME NEW s \in Seq(Entry)
    PROVE  /\ ToSet(s) \subseteq Entry
           /\ \A i \in 1 .. Len(s) : s[i] \in ToSet(s)
           /\ \A e \in ToSet(s) : \E i \in 1 .. Len(s) : s[i] = e
           /\ DOMAIN s = 1 .. Len(s) /\ Len(s) \in Nat
           /\ s = <<>> <=> ToSet(s) = {}
           /\ s # <<>> => Last(s) = s[Len(s)] /\ Len(s) > 0
  BY DEF ToSet, Last

\* A list without repetitions has as many entries as it is long.
LEMMA CountOfList ==
    ASSUME NEW s \in Seq(Entry), \A i, j \in DOMAIN s : i # j => s[i] # s[j]
    PROVE  IsFiniteSet(ToSet(s)) /\ Cardinality(ToSet(s)) = Len(s)
<1> DEFINE I == 1 .. Len(s)
<1>1. DOMAIN s = I /\ Len(s) \in Nat
  BY ToSetFacts
<1>2. s \in [I -> ToSet(s)]
  BY <1>1, LenProperties, ToSetFacts
<1>3. s \in Injection(I, ToSet(s)) /\ s \in Surjection(I, ToSet(s))
  <2>1. \A i, j \in I : s[i] = s[j] => i = j
    BY <1>1
  <2>2. \A e \in ToSet(s) : \E i \in I : s[i] = e
    BY ToSetFacts
  <2> HIDE DEF I
  <2> QED
    BY <1>2, <2>1, <2>2 DEF Injection, IsInjective, Surjection
<1>4. IsFiniteSet(I) /\ Cardinality(I) = Len(s)
  BY <1>1, FS_Interval
<1> QED
  BY <1>3, <1>4, FS_Bijection DEF ExistsBijection, Bijection

\* ORDER BY seq DESC lists every row once, newest first.
LEMMA SortFacts ==
    ASSUME NEW rows, IsTable(rows)
    PROVE  /\ NewestFirst(rows) \in Seq(Entry)
           /\ Len(NewestFirst(rows)) = Cardinality(rows)
           /\ ToSet(NewestFirst(rows)) = rows
           /\ Descends(NewestFirst(rows))
<1> DEFINE n == Cardinality(rows)
           s == NewestFirst(rows)
           R(e) == Cardinality(Newer(rows, e))
           rank == [e \in rows |-> R(e) + 1]
<1>1. n \in Nat /\ IsFiniteSet(rows)
  BY FS_CardinalityType DEF IsTable
<1>2. ASSUME NEW e \in rows
      PROVE  IsFiniteSet(Newer(rows, e)) /\ R(e) \in 0 .. n - 1
  <2>1. Newer(rows, e) \in SUBSET (rows \ {e})
    BY DEF Newer, IsTable, Entry
  <2>2. IsFiniteSet(rows \ {e}) /\ Cardinality(rows \ {e}) = n - 1
    BY <1>1, FS_RemoveElement
  <2>3. IsFiniteSet(Newer(rows, e)) /\ R(e) <= n - 1
    BY <2>1, <2>2, FS_Subset
  <2> QED
    BY <1>1, <2>3, FS_CardinalityType
<1>3. ASSUME NEW e \in rows, NEW f \in rows, e.seq > f.seq
      PROVE  R(e) < R(f)
  <2>1. Newer(rows, e) \in SUBSET (Newer(rows, f) \ {e}) /\ e \in Newer(rows, f)
    BY <1>3 DEF Newer, IsTable, Entry
  <2>2. /\ IsFiniteSet(Newer(rows, f) \ {e})
        /\ Cardinality(Newer(rows, f) \ {e}) = R(f) - 1
    BY <1>2, <2>1, FS_RemoveElement
  <2>3. R(e) <= R(f) - 1
    BY <2>1, <2>2, FS_Subset
  <2> QED
    BY <1>2, <2>3
<1>4. \A e, f \in rows : R(e) = R(f) => e = f
  <2> HIDE DEF R
  <2>1. ASSUME NEW e \in rows, NEW f \in rows, R(e) = R(f) PROVE e.seq = f.seq
    <3>1. e.seq \in Nat /\ f.seq \in Nat
      BY DEF IsTable, Entry
    <3>2. R(e) \in Int /\ R(f) \in Int
      BY <1>1, <1>2
    <3>3. ~(e.seq > f.seq) /\ ~(f.seq > e.seq)
      BY <1>3, <2>1, <3>2
    <3> QED
      BY <3>1, <3>3
  <2> QED
    BY <2>1 DEF IsTable
<1>5. \A i \in 1 .. n : \E e \in rows : R(e) = i - 1
  <2> HIDE DEF R
  <2>1. rank \in [rows -> 1 .. n]
    BY <1>1, <1>2
  <2>2. rank \in Injection(rows, 1 .. n)
    <3>1. \A e, f \in rows : rank[e] = rank[f] => e = f
      BY <1>1, <1>2, <1>4
    <3> HIDE DEF rank
    <3> QED
      BY <2>1, <3>1 DEF Injection, IsInjective
  <2>3. IsFiniteSet(1 .. n) /\ Cardinality(1 .. n) = n
    BY <1>1, FS_Interval
  <2>4. rank \in Surjection(rows, 1 .. n)
    BY <2>2, <2>3, FS_Injection
  <2>5. ASSUME NEW i \in 1 .. n PROVE \E e \in rows : R(e) = i - 1
    <3>1. PICK e \in rows : rank[e] = i
      BY <2>4 DEF Surjection
    <3> QED
      BY <1>1, <1>2, <3>1
  <2> QED
    BY <2>5
<1>6. \A i \in 1 .. n : s[i] \in rows /\ R(s[i]) = i - 1
  BY <1>5 DEF NewestFirst
<1>7. s \in Seq(Entry) /\ Len(s) = n
  <2>1. s \in [1 .. n -> Entry]
    BY <1>6 DEF NewestFirst, IsTable
  <2> QED
    BY <1>1, <2>1
<1> HIDE DEF R, s
<1>8. ToSet(s) = rows
  <2>1. ASSUME NEW e \in rows PROVE \E i \in 1 .. n : s[i] = e
    <3>1. R(e) + 1 \in 1 .. n
      BY <1>1, <1>2
    <3>2. s[R(e) + 1] \in rows /\ R(s[R(e) + 1]) = R(e)
      BY <1>1, <1>2, <1>6, <3>1
    <3> QED
      BY <1>4, <3>1, <3>2
  <2>2. \A e \in ToSet(s) : \E i \in 1 .. n : s[i] = e
    BY <1>7, ToSetFacts
  <2>3. \A i \in 1 .. n : s[i] \in ToSet(s)
    BY <1>7, ToSetFacts
  <2> QED
    BY <1>6, <2>1, <2>2, <2>3
<1>9. ASSUME NEW i \in DOMAIN s, NEW j \in DOMAIN s, i < j
      PROVE  s[i].seq > s[j].seq
  <2>1. i \in 1 .. n /\ j \in 1 .. n
    BY <1>7
  <2>2. s[i] \in rows /\ s[j] \in rows /\ R(s[i]) = i - 1 /\ R(s[j]) = j - 1
    BY <1>6, <2>1
  <2>3. s[i].seq # s[j].seq
    BY <1>1, <1>9, <2>1, <2>2 DEF IsTable
  <2>4. ~(s[j].seq > s[i].seq)
    BY <1>1, <1>3, <1>9, <2>1, <2>2
  <2>5. s[i].seq \in Nat /\ s[j].seq \in Nat
    BY <2>2 DEF IsTable, Entry
  <2> QED
    BY <2>3, <2>4, <2>5
<1> QED
  BY <1>7, <1>8, <1>9 DEF s, Descends

\* ORDER BY seq DESC LIMIT n
LEMMA FirstFacts ==
    ASSUME NEW rows, IsTable(rows), NEW n \in Nat
    PROVE  IsTop(FirstOf(NewestFirst(rows), n), rows, n)
<1> DEFINE s == NewestFirst(rows)
           m == IF Len(s) < n THEN Len(s) ELSE n
           t == SubSeq(s, 1, m)
<1>1. s \in Seq(Entry) /\ ToSet(s) = rows /\ Descends(s)
  BY SortFacts
<1> HIDE DEF s
<1>2. m \in 0 .. Len(s) /\ Len(s) \in Nat /\ m <= n
  BY <1>1
<1>3. t \in Seq(Entry) /\ Len(t) = m /\ \A i \in 1 .. m : t[i] = s[i]
  <2>1. \A i \in 1 .. m : s[i] \in Entry
    BY <1>1, <1>2, ElementOfSeq
  <2> HIDE DEF m
  <2> QED
    BY <1>2, <2>1, SubSeqProperties
<1>4. FirstOf(s, n) = t
  BY DEF FirstOf
<1> HIDE DEF t, m
<1>5. Descends(t)
  BY <1>1, <1>2, <1>3, LenProperties DEF Descends
<1>6. ToSet(t) \subseteq rows
  BY <1>1, <1>2, <1>3, ToSetFacts
<1>7. ASSUME NEW e \in rows \ ToSet(t)
      PROVE  m = n /\ \A f \in ToSet(t) : f.seq > e.seq
  <2>1. PICK j \in 1 .. Len(s) : s[j] = e
    BY <1>1, ToSetFacts
  <2>2. j > m
    BY <1>2, <1>3, <1>7, <2>1, ToSetFacts
  <2>3. m = n
    BY <1>2, <2>1, <2>2 DEF m
  <2>4. ASSUME NEW f \in ToSet(t) PROVE f.seq > e.seq
    <3>1. PICK i \in 1 .. m : t[i] = f
      BY <1>3, ToSetFacts
    <3>2. s[i] = f /\ i < j /\ i \in 1 .. Len(s)
      BY <1>2, <1>3, <2>1, <2>2, <3>1
    <3> QED
      BY <1>1, <2>1, <3>2, LenProperties DEF Descends
  <2> QED
    BY <2>3, <2>4
<1> QED
  BY <1>2, <1>3, <1>4, <1>5, <1>6, <1>7 DEF IsTop, s

LEMMA SubTable ==
    ASSUME NEW rows, IsTable(rows), NEW part \in SUBSET rows
    PROVE  IsTable(part)
  BY FS_Subset DEF IsTable

LEMMA TopFacts ==
    ASSUME NEW s, NEW rows, NEW n \in Nat, IsTable(rows), IsTop(s, rows, n)
    PROVE  IsFiniteSet(ToSet(s)) /\ Cardinality(ToSet(s)) = Len(s)
<1>1. ASSUME NEW i \in DOMAIN s, NEW j \in DOMAIN s, i # j PROVE s[i] # s[j]
  <2>1. DOMAIN s = 1 .. Len(s) /\ Len(s) \in Nat
    BY ToSetFacts DEF IsTop
  <2>2. s[i] \in Entry /\ s[j] \in Entry
    BY <2>1, ElementOfSeq DEF IsTop
  <2>3. i < j \/ j < i
    BY <1>1, <2>1
  <2> QED
    BY <2>2, <2>3 DEF IsTop, Descends, Entry
<1> QED
  BY <1>1, CountOfList DEF IsTop

\* Reading on where a list ended, in rows that are all older, continues it.
LEMMA AppendTop ==
    ASSUME NEW P, IsTable(P), NEW Q, IsTable(Q), NEW n \in Nat,
           \A e \in P, f \in Q : e.seq > f.seq,
           NEW b, IsTop(b, P, n), NEW d, IsTop(d, Q, n - Len(b))
    PROVE  IsTop(b \o d, P \cup Q, n)
<1> DEFINE s == b \o d
<1>1. /\ b \in Seq(Entry) /\ d \in Seq(Entry) /\ Len(b) \in Nat /\ Len(d) \in Nat
      /\ Len(b) <= n /\ Len(d) <= n - Len(b)
  BY LenProperties DEF IsTop
<1>2. /\ s \in Seq(Entry) /\ Len(s) = Len(b) + Len(d)
      /\ \A i \in 1 .. Len(b) + Len(d) : s[i] = IF i <= Len(b) THEN b[i] ELSE d[i - Len(b)]
  BY <1>1, ConcatProperties
<1> HIDE DEF s
<1>3. ToSet(s) \subseteq ToSet(b) \cup ToSet(d)
  <2>1. ASSUME NEW e \in ToSet(s) PROVE e \in ToSet(b) \cup ToSet(d)
    <3>1. PICK i \in 1 .. Len(b) + Len(d) : s[i] = e
      BY <1>2, ToSetFacts
    <3>2. CASE i <= Len(b)
      <4>1. i \in 1 .. Len(b) /\ b[i] = e
        BY <1>1, <1>2, <3>1, <3>2
      <4> QED
        BY <1>1, <4>1, ToSetFacts
    <3>3. CASE i > Len(b)
      <4>1. i - Len(b) \in 1 .. Len(d) /\ d[i - Len(b)] = e
        BY <1>1, <1>2, <3>1, <3>3
      <4> QED
        BY <1>1, <4>1, ToSetFacts
    <3> QED
      BY <1>1, <3>1, <3>2, <3>3
  <2> QED
    BY <2>1
<1>4. ToSet(b) \cup ToSet(d) \subseteq ToSet(s)
  <2>1. ASSUME NEW e \in ToSet(b) PROVE e \in ToSet(s)
    <3>1. PICK i \in 1 .. Len(b) : b[i] = e
      BY <1>1, ToSetFacts
    <3>2. i \in 1 .. Len(s) /\ s[i] = e
      BY <1>1, <1>2, <3>1
    <3> QED
      BY <1>2, <3>2, ToSetFacts
  <2>2. ASSUME NEW e \in ToSet(d) PROVE e \in ToSet(s)
    <3>1. PICK i \in 1 .. Len(d) : d[i] = e
      BY <1>1, ToSetFacts
    <3>2. Len(b) + i \in 1 .. Len(s) /\ s[Len(b) + i] = e
      <4>1. Len(b) + i \in 1 .. Len(b) + Len(d) /\ Len(b) + i > Len(b)
        BY <1>1
      <4>2. s[Len(b) + i] = d[(Len(b) + i) - Len(b)] /\ (Len(b) + i) - Len(b) = i
        BY <1>1, <1>2, <4>1
      <4> QED
        BY <1>2, <3>1, <4>1, <4>2
    <3> QED
      BY <1>2, <3>2, ToSetFacts
  <2> QED
    BY <2>1, <2>2
<1>5. ASSUME NEW i \in DOMAIN s, NEW j \in DOMAIN s, i < j PROVE s[i].seq > s[j].seq
  <2>1. i \in 1 .. Len(b) + Len(d) /\ j \in 1 .. Len(b) + Len(d)
    BY <1>2, ToSetFacts
  <2>2. CASE j <= Len(b)
    <3>1. i \in DOMAIN b /\ j \in DOMAIN b /\ s[i] = b[i] /\ s[j] = b[j]
      BY <1>1, <1>2, <1>5, <2>1, <2>2
    <3> QED
      BY <1>5, <3>1 DEF IsTop, Descends
  <2>3. CASE i > Len(b)
    <3>1. /\ i - Len(b) \in DOMAIN d /\ j - Len(b) \in DOMAIN d /\ i - Len(b) < j - Len(b)
          /\ s[i] = d[i - Len(b)] /\ s[j] = d[j - Len(b)]
      BY <1>1, <1>2, <1>5, <2>1, <2>3
    <3> QED
      BY <3>1 DEF IsTop, Descends
  <2>4. CASE i <= Len(b) /\ j > Len(b)
    <3>1. /\ i \in 1 .. Len(b) /\ s[i] = b[i]
          /\ j - Len(b) \in 1 .. Len(d) /\ s[j] = d[j - Len(b)]
      BY <1>1, <1>2, <2>1, <2>4
    <3>2. s[i] \in P /\ s[j] \in Q
      BY <1>1, <3>1, ToSetFacts DEF IsTop
    <3> QED
      BY <3>2
  <2> QED
    BY <1>1, <2>1, <2>2, <2>3, <2>4
<1>6. ASSUME NEW e \in (P \cup Q) \ ToSet(s)
      PROVE  Len(s) = n /\ \A f \in ToSet(s) : f.seq > e.seq
  <2>1. e \notin ToSet(b) /\ e \notin ToSet(d)
    BY <1>4
  <2>2. CASE e \in P
    <3>1. Len(b) = n /\ \A f \in ToSet(b) : f.seq > e.seq
      BY <2>1, <2>2 DEF IsTop
    <3>2. d = <<>> /\ Len(d) = 0
      BY <1>1, <3>1
    <3>3. ToSet(d) = {}
      BY <1>1, <3>2, ToSetFacts
    <3> QED
      BY <1>1, <1>2, <1>3, <3>1, <3>2, <3>3
  <2>3. CASE e \in Q
    <3>1. Len(d) = n - Len(b) /\ \A f \in ToSet(d) : f.seq > e.seq
      BY <2>1, <2>3 DEF IsTop
    <3>2. \A f \in ToSet(b) : f.seq > e.seq
      BY <2>3 DEF IsTop
    <3> QED
      BY <1>1, <1>2, <1>3, <3>1, <3>2
  <2> QED
    BY <2>2, <2>3
<1>7. ToSet(s) \subseteq P \cup Q /\ Len(s) <= n
  BY <1>1, <1>2, <1>3 DEF IsTop
<1> QED
  BY <1>2, <1>5, <1>6, <1>7 DEF IsTop, Descends, s

\* The newest MaxLogEntries rows stay, and a row leaves for as many newer ones.
LEMMA PrunedFacts ==
    ASSUME NEW rows, IsTable(rows)
    PROVE  /\ Pruned(rows) \subseteq rows /\ IsFiniteSet(Pruned(rows))
           /\ Cardinality(Pruned(rows)) <= MaxLogEntries
           /\ \A e \in rows \ Pruned(rows) :
                 Cardinality(Newer(Pruned(rows), e)) = MaxLogEntries
<1> DEFINE s == FirstOf(NewestFirst(rows), MaxLogEntries)
<1>1. IsTop(s, rows, MaxLogEntries)
  BY FirstFacts, RequestLogAssumption
<1>2. Pruned(rows) = ToSet(s)
  BY DEF Pruned
<1> HIDE DEF s
<1>3. IsFiniteSet(ToSet(s)) /\ Cardinality(ToSet(s)) = Len(s)
  BY <1>1, TopFacts, RequestLogAssumption
<1>4. ASSUME NEW e \in rows \ ToSet(s) PROVE Cardinality(Newer(ToSet(s), e)) = MaxLogEntries
  <2>1. Newer(ToSet(s), e) = ToSet(s) /\ Len(s) = MaxLogEntries
    BY <1>1 DEF IsTop, Newer
  <2> QED
    BY <1>3, <2>1
<1> QED
  BY <1>1, <1>2, <1>3, <1>4 DEF IsTop

-----------------------------------------------------------------------------
(* The log.                                                                *)

LEMMA LogFacts ==
    ASSUME LogIInv
    PROVE  /\ IsTable(Retained) /\ IsTable(db) /\ IsTable(ToSet(pending))
           /\ \A e \in ToSet(pending), f \in db : e.seq > f.seq
           /\ pending \in Seq(Entry) /\ reader.got \in Seq(Entry) /\ db \subseteq Entry
<1>1. pending \in Seq(Entry) /\ reader.got \in Seq(Entry) /\ db \subseteq Entry
  BY DEF LogIInv, LogInv, TypeOK
<1>2. Retained \subseteq Entry
  BY <1>1, ToSetFacts DEF Retained
<1>3. ASSUME NEW e \in Retained, NEW f \in Retained, e.seq = f.seq PROVE e = f
  <2>1. e \in Entry /\ f \in Entry
    BY <1>2
  <2>2. (e.seq < f.seq <=> e.id < f.id) /\ (f.seq < e.seq <=> f.id < e.id)
    BY DEF LogIInv, LogInv, SeqsInOrder
  <2>3. e.id = f.id
    BY <1>3, <2>1, <2>2 DEF Entry
  <2> QED
    BY <2>3 DEF LogIInv, IdsTellApart, Known
<1>4. IsFiniteSet(ToSet(pending))
  <2>1. DOMAIN pending = 1 .. Len(pending) /\ Len(pending) \in Nat
    BY <1>1, ToSetFacts
  <2>2. ASSUME NEW i \in DOMAIN pending, NEW j \in DOMAIN pending, i # j
        PROVE  pending[i] # pending[j]
    <3>1. pending[i] \in Entry /\ pending[j] \in Entry
      BY <1>1, <2>1, ElementOfSeq
    <3>2. i < j \/ j < i
      BY <2>1, <2>2
    <3> QED
      BY <3>1, <3>2 DEF LogIInv, BufferAfterRows, Entry
  <2> QED
    BY <1>1, <2>2, CountOfList
<1>5. IsFiniteSet(Retained)
  BY <1>4, FS_Union DEF LogIInv, BufferAfterRows, Retained
<1>6. IsTable(Retained)
  BY <1>2, <1>3, <1>5 DEF IsTable
<1>7. IsTable(db) /\ IsTable(ToSet(pending))
  BY <1>6, SubTable DEF Retained
<1>8. ASSUME NEW e \in ToSet(pending), NEW f \in db PROVE e.seq > f.seq
  <2>1. f.seq < e.seq /\ e.seq \in Nat /\ f.seq \in Nat
    BY <1>7 DEF LogIInv, BufferAfterRows, IsTable, Entry
  <2> QED
    BY <2>1
<1> QED
  BY <1>1, <1>6, <1>7, <1>8

\* A page that starts at the end of the log, or below a number, holds the newest
\* entries there, of the buffer and of the rows.
LEMMA PageFacts ==
    ASSUME LogIInv, NEW limit \in Nat, NEW before \in Nat \cup {-1}
    PROVE  /\ IsTop(Page(limit, before), Below(Retained, before), limit)
           /\ IsTable(Below(Retained, before))
           /\ before = -1 => Page(limit, before) = Recent(limit)
<1> DEFINE P == Below(ToSet(pending), before)
           Q == Below(db, before)
           b == FirstOf(NewestFirst(P), limit)
           cursor == IF b = <<>> THEN before ELSE Last(b).seq
           d == FirstOf(NewestFirst(Q), limit - Len(b))
<1>1. P \subseteq ToSet(pending) /\ Q \subseteq db
  BY DEF Below
<1>2. IsTable(P) /\ IsTable(Q)
  BY <1>1, LogFacts, SubTable
<1>3. IsTop(b, P, limit)
  BY <1>2, FirstFacts
<1>4. b \in Seq(Entry) /\ limit - Len(b) \in Nat
  <2> HIDE DEF b
  <2> QED
    BY <1>3, LenProperties DEF IsTop
<1>5. Below(db, cursor) = Q
  <2> HIDE DEF P, b
  <2>1. CASE b = <<>>
    BY <2>1
  <2>2. CASE b # <<>>
    <3>1. Last(b) \in ToSet(b) /\ Last(b) \in P
      BY <1>3, <1>4, <2>2, ToSetFacts DEF IsTop
    <3>2. Last(b) \in ToSet(pending) /\ Last(b).seq \in Nat
      BY <1>1, <1>2, <3>1 DEF IsTable, Entry
    <3>3. \A e \in db : e.seq < Last(b).seq /\ e.seq \in Nat
      BY <3>2, LogFacts DEF IsTable, Entry
    <3>4. before # -1 => before \in Nat /\ Last(b).seq < before
      BY <3>1 DEF P, Below
    <3>5. \A e \in db : before # -1 => e.seq < before
      BY <3>2, <3>3, <3>4
    <3>6. Below(db, Last(b).seq) = db
      BY <3>2, <3>3 DEF Below
    <3>7. Q = db
      BY <3>5 DEF Below
    <3> QED
      BY <2>2, <3>6, <3>7
  <2> QED
    BY <2>1, <2>2
<1>6. Page(limit, before) = b \o d
  BY <1>5 DEF Page
<1>7. IsTop(d, Q, limit - Len(b))
  <2> HIDE DEF Q, b
  <2> QED
    BY <1>2, <1>4, FirstFacts
<1>8. \A e \in P, f \in Q : e.seq > f.seq
  BY <1>1, LogFacts
<1>9. P \cup Q = Below(Retained, before)
  BY DEF Below, Retained
<1>10. IsTop(b \o d, P \cup Q, limit)
  <2> HIDE DEF P, Q, b, d
  <2> QED
    BY <1>2, <1>3, <1>7, <1>8, AppendTop
<1>11. IsTable(P \cup Q)
  BY <1>9, LogFacts, SubTable DEF Below
<1>12. before = -1 => Page(limit, before) = Recent(limit)
  BY <1>6 DEF Recent, Below
<1> QED
  BY <1>6, <1>9, <1>10, <1>11, <1>12

\* What only takes entries out of the log disturbs neither its numbering nor
\* what readers were given.
LEMMA ShrinkKeeps ==
    ASSUME LogIInv, Retained' \subseteq Retained, reader' = reader, added' = added
    PROVE  /\ \A e, f \in Retained' : e.seq < f.seq <=> e.id < f.id
           /\ IdsTellApart' /\ PagesDescend' /\ ReadDownToCursor' /\ ShowsAllRetained'
<1>1. \A e, f \in Retained' : e.seq < f.seq <=> e.id < f.id
  BY DEF LogIInv, LogInv, SeqsInOrder
<1>2. IdsTellApart'
  <2>1. Known' \subseteq Known
    BY DEF Known
  <2> QED
    BY <2>1 DEF LogIInv, IdsTellApart
<1>3. PagesDescend'
  BY DEF LogIInv, PagesDescend
<1>4. ReadDownToCursor'
  BY DEF LogIInv, ReadDownToCursor
<1>5. ShowsAllRetained'
  BY DEF LogIInv, ShowsAllRetained
<1> QED
  BY <1>1, <1>2, <1>3, <1>4, <1>5

\* The entries of each status
Passed(S) == {e \in S : e.ok}
Failed(S) == {e \in S : ~e.ok}

\* A part of the log holds no more entries of a status than the whole.
LEMMA CountOfStatus ==
    ASSUME NEW rows, IsFiniteSet(rows), NEW part \in SUBSET rows
    PROVE  /\ IsFiniteSet(Passed(part)) /\ IsFiniteSet(Failed(part))
           /\ Cardinality(Passed(part)) \in Nat /\ Cardinality(Failed(part)) \in Nat
           /\ Cardinality(Passed(rows)) \in Nat /\ Cardinality(Failed(rows)) \in Nat
           /\ Cardinality(Passed(part)) <= Cardinality(Passed(rows))
           /\ Cardinality(Failed(part)) <= Cardinality(Failed(rows))
<1>1. /\ Passed(part) \in SUBSET Passed(rows) /\ Failed(part) \in SUBSET Failed(rows)
      /\ Passed(rows) \in SUBSET rows /\ Failed(rows) \in SUBSET rows
  BY DEF Passed, Failed
<1> QED
  BY <1>1, FS_Subset, FS_CardinalityType

LEMMA Covered ==
    CountersCoverLog <=> (mode # "down" =>
                             /\ stats.success >= Cardinality(Passed(Retained))
                             /\ stats.failed >= Cardinality(Failed(Retained)))
  BY DEF CountersCoverLog, Passed, Failed

LEMMA CoveredNext ==
    CountersCoverLog' <=> (mode' # "down" =>
                              /\ stats'.success >= Cardinality(Passed(Retained'))
                              /\ stats'.failed >= Cardinality(Failed(Retained')))
  BY DEF CountersCoverLog, Passed, Failed

LEMMA FewerCovered ==
    ASSUME LogIInv, mode # "down", Retained' \subseteq Retained, stats' = stats
    PROVE  CountersCoverLog'
<1>1. IsFiniteSet(Retained)
  BY LogFacts DEF IsTable
<1>2. stats.success \in Nat /\ stats.failed \in Nat
  BY DEF LogIInv, LogInv, TypeOK
<1>3. /\ stats.success >= Cardinality(Passed(Retained))
      /\ stats.failed >= Cardinality(Failed(Retained))
  BY Covered DEF LogIInv, LogInv
<1> QED
  BY <1>1, <1>2, <1>3, CountOfStatus, CoveredNext

\* What a flush leaves in the log.
LEMMA FlushedFacts ==
    ASSUME LogIInv, Flushed
    PROVE  /\ pending' = <<>> /\ ToSet(pending') = {}
           /\ Retained' = db' /\ db' \subseteq Retained
           /\ IsFiniteSet(db') /\ Cardinality(db') <= MaxLogEntries
           /\ \A e \in Retained \ db' : Cardinality(Newer(db', e)) = MaxLogEntries
<1>1. pending' = <<>> /\ ToSet(pending') = {}
  BY DEF Flushed, ToSet
<1>2. CASE pending = <<>>
  <2>1. db' = db /\ Retained = db
    BY <1>2 DEF Flushed, Retained, ToSet
  <2> QED
    BY <1>1, <2>1 DEF Retained, LogIInv, LogInv, TypeOK, BufferAfterRows
<1>3. CASE pending # <<>>
  <2>1. db' = Pruned(Retained)
    <3>1. db \cup ToSet(pending) = Retained
      BY DEF Retained
    <3> QED
      BY <1>3, <3>1 DEF Flushed
  <2> QED
    BY <1>1, <2>1, LogFacts, PrunedFacts DEF Retained
<1> QED
  BY <1>2, <1>3

\* Steps that leave the log, or part of it, and what is in no transaction.
LEMMA LessMemory ==
    ASSUME LogIInv,
           mode' \in {"up", "draining", "down"}, mode' = "up" => mode = "up",
           mode' # "down" => mode # "down",
           flying' \in 0 .. MaxFlying, pending' \in {<<>>, pending},
           mode' = "down" => pending' = <<>>,
           Retained' \subseteq Retained, IsFiniteSet(db'), db' \subseteq Retained,
           Cardinality(db') <= MaxLogEntries, pending' = pending => db' = db,
           UNCHANGED <<nextSeq, stats, reader, added, boots>>
    PROVE  LogIInv'
<1>1. /\ \A e, f \in Retained' : e.seq < f.seq <=> e.id < f.id
      /\ IdsTellApart' /\ PagesDescend' /\ ReadDownToCursor' /\ ShowsAllRetained'
  BY ShrinkKeeps
<1>2. TypeOK'
  <2>1. pending' \in Seq(Entry) /\ Len(pending') <= MaxLogEntries
    <3>1. CASE pending' = pending
      BY <3>1 DEF LogIInv, LogInv, TypeOK
    <3>2. CASE pending' = <<>>
      BY <3>2, EmptySeq, RequestLogAssumption
    <3> QED
      BY <3>1, <3>2
  <2>2. db' \subseteq Entry
    BY LogFacts DEF IsTable
  <2> QED
    BY <2>1, <2>2 DEF LogIInv, LogInv, TypeOK
<1>3. SeqsInOrder'
  BY <1>1 DEF LogIInv, LogInv, SeqsInOrder
<1>4. CountersCoverLog'
  BY FewerCovered DEF CountersCoverLog
<1>5. BufferAfterRows'
  <2>1. CASE pending' = pending
    BY <2>1 DEF LogIInv, BufferAfterRows
  <2>2. CASE pending' = <<>>
    <3>1. DOMAIN pending' = {} /\ ToSet(pending') = {}
      BY <2>2 DEF ToSet
    <3> QED
      BY <2>2, <3>1 DEF BufferAfterRows
  <2> QED
    BY <2>1, <2>2
<1> QED
  BY <1>1, <1>2, <1>3, <1>4, <1>5 DEF LogIInv, LogInv

LEMMA FlushKeeps ==
    ASSUME LogIInv, Flush \/ Sigterm \/ Exit \/ Crash \/ Arrive
    PROVE  LogIInv'
<1>1. TypeOK /\ IsFiniteSet(db) /\ db \subseteq Retained
  BY DEF LogIInv, LogInv, BufferAfterRows, Retained
<1>2. CASE pending' = <<>> /\ db' = db
  <2>1. Retained' \subseteq Retained
    BY <1>2 DEF Retained, ToSet
  <2> QED
    BY <1>1, <1>2, <2>1, LessMemory, RequestLogAssumption
       DEF Flush, Sigterm, Exit, Crash, Arrive, Stopped, TypeOK
<1>3. CASE Flushed /\ ~Exit /\ ~Crash /\ ~Arrive
  <2>1. /\ pending' = <<>> /\ Retained' \subseteq Retained /\ IsFiniteSet(db')
        /\ db' \subseteq Retained /\ Cardinality(db') <= MaxLogEntries
    BY <1>3, FlushedFacts
  <2>2. pending' = pending => db' = db
    BY <1>3, <2>1 DEF Flushed
  <2> QED
    BY <1>1, <1>3, <2>1, <2>2, LessMemory DEF Flush, Sigterm, TypeOK
<1>4. CASE Arrive
  <2>1. Retained' = Retained
    BY <1>4 DEF Arrive, Retained
  <2>2. flying' \in 0 .. MaxFlying
    BY <1>1, <1>4, RequestLogAssumption DEF Arrive, TypeOK
  <2> QED
    BY <1>1, <1>4, <2>1, <2>2, LessMemory DEF Arrive, TypeOK
<1> QED
  BY <1>2, <1>3, <1>4 DEF Flush, Sigterm, Exit, Crash, Stopped

\* The buffer takes the new entry, the newest of all, and drops its oldest when
\* that makes it too long.
LEMMA AddFacts ==
    ASSUME LogIInv, NEW ok \in BOOLEAN, Add(ok)
    PROVE  LET entry == [id |-> added + 1, seq |-> nextSeq, ok |-> ok]
           IN  /\ entry \in Entry
               /\ \A e \in Retained : e.seq < entry.seq
               /\ pending' \in Seq(Entry) /\ Len(pending') <= MaxLogEntries
               /\ \A i, j \in DOMAIN pending' : i < j => pending'[i].seq < pending'[j].seq
               /\ ToSet(pending') \subseteq ToSet(pending) \cup {entry}
               /\ \A e \in ToSet(pending) \ ToSet(pending') :
                     /\ Len(pending') = MaxLogEntries
                     /\ \A f \in ToSet(pending') : f.seq > e.seq
<1> DEFINE entry == [id |-> added + 1, seq |-> nextSeq, ok |-> ok]
           longer == Append(pending, entry)
           n == Len(pending)
           off == IF n + 1 > MaxLogEntries THEN 1 ELSE 0
<1>1. /\ TypeOK /\ mode # "down" /\ pending \in Seq(Entry) /\ n \in Nat
      /\ MaxLogEntries \in Nat /\ MaxLogEntries > 0 /\ n <= MaxLogEntries
  <2>1. TypeOK /\ mode # "down"
    BY DEF LogIInv, LogInv, Add
  <2>2. pending \in Seq(Entry) /\ n <= MaxLogEntries
    BY <2>1 DEF TypeOK
  <2>3. n \in Nat
    BY <2>2, LenProperties
  <2> QED
    BY <2>1, <2>2, <2>3, RequestLogAssumption
<1>2. entry \in Entry
  BY <1>1 DEF TypeOK, Entry
<1>3. \A e \in Retained : e.seq < entry.seq
  BY <1>1 DEF LogIInv, LogInv, SeqsInOrder
<1>4. /\ longer \in Seq(Entry) /\ longer # <<>> /\ Len(longer) = n + 1
      /\ \A i \in 1 .. n : longer[i] = pending[i]
      /\ longer[n + 1] = entry
  <2> HIDE DEF entry
  <2> QED
    BY <1>1, <1>2, AppendProperties
<1>5. pending' = IF Len(longer) > MaxLogEntries THEN Tail(longer) ELSE longer
  BY DEF Add
<1> HIDE DEF longer, entry, n
<1>6. /\ pending' \in Seq(Entry) /\ Len(pending') = n + 1 - off
      /\ \A i \in 1 .. n + 1 - off : pending'[i] = longer[i + off]
  <2>1. CASE n + 1 > MaxLogEntries
    BY <1>1, <1>4, <1>5, <2>1, HeadTailProperties
  <2>2. CASE ~(n + 1 > MaxLogEntries)
    BY <1>1, <1>4, <1>5, <2>2
  <2> QED
    BY <2>1, <2>2
<1>7. off \in {0, 1} /\ n + 1 - off <= MaxLogEntries
  BY <1>1
<1>8. ASSUME NEW i \in 1 .. n + 1, NEW j \in 1 .. n + 1, i < j
      PROVE  longer[i].seq < longer[j].seq
  <2>1. i \in 1 .. n /\ longer[i] = pending[i] /\ pending[i] \in Retained
    <3>1. i \in 1 .. n
      BY <1>1, <1>8
    <3> QED
      BY <1>1, <1>4, <3>1, ToSetFacts DEF Retained, n
  <2>2. CASE j = n + 1
    BY <1>3, <1>4, <2>1, <2>2
  <2>3. CASE j # n + 1
    <3>1. j \in 1 .. n /\ longer[j] = pending[j] /\ DOMAIN pending = 1 .. n
      BY <1>1, <1>4, <2>3, ToSetFacts DEF n
    <3> QED
      BY <1>8, <2>1, <3>1 DEF LogIInv, BufferAfterRows
  <2> QED
    BY <2>2, <2>3
<1> HIDE DEF off
<1>9. DOMAIN pending' = 1 .. n + 1 - off
  BY <1>6, LenProperties
<1>10. ASSUME NEW i \in DOMAIN pending', NEW j \in DOMAIN pending', i < j
       PROVE  pending'[i].seq < pending'[j].seq
  <2>1. /\ i + off \in 1 .. n + 1 /\ j + off \in 1 .. n + 1 /\ i + off < j + off
        /\ pending'[i] = longer[i + off] /\ pending'[j] = longer[j + off]
    <3>1. i \in 1 .. n + 1 - off /\ j \in 1 .. n + 1 - off
      BY <1>9
    <3>2. i + off \in 1 .. n + 1 /\ j + off \in 1 .. n + 1 /\ i + off < j + off
      BY <1>1, <1>7, <1>10, <3>1
    <3> QED
      BY <1>6, <3>1, <3>2
  <2> QED
    BY <1>8, <2>1
<1>11. ASSUME NEW e \in ToSet(pending') PROVE e \in ToSet(pending) \cup {entry}
  <2>1. PICK i \in 1 .. n + 1 - off : pending'[i] = e
    BY <1>6, ToSetFacts
  <2>2. i + off \in 1 .. n + 1 /\ longer[i + off] = e
    BY <1>1, <1>6, <1>7, <2>1
  <2>3. CASE i + off \in 1 .. n
    BY <1>1, <1>4, <2>2, <2>3, ToSetFacts DEF n
  <2>4. CASE i + off = n + 1
    BY <1>4, <2>2, <2>4
  <2> QED
    BY <1>1, <1>7, <2>2, <2>3, <2>4
<1>12. ASSUME NEW e \in ToSet(pending) \ ToSet(pending')
       PROVE  /\ Len(pending') = MaxLogEntries
              /\ \A f \in ToSet(pending') : f.seq > e.seq
  <2>1. PICK k \in 1 .. n : pending[k] = e
    BY <1>1, ToSetFacts DEF n
  <2>2. k = 1 /\ off = 1
    <3>1. ~(k - off \in 1 .. n + 1 - off)
      <4>1. SUFFICES ASSUME k - off \in 1 .. n + 1 - off PROVE FALSE
        OBVIOUS
      <4>2. pending'[k - off] = longer[(k - off) + off] /\ (k - off) + off = k
        BY <1>6, <1>7, <4>1
      <4>3. pending'[k - off] = e
        BY <1>4, <2>1, <4>2
      <4>4. pending'[k - off] \in ToSet(pending')
        BY <1>6, <4>1, ToSetFacts
      <4> QED
        BY <1>12, <4>3, <4>4
    <3> QED
      BY <1>1, <1>7, <2>1, <3>1
  <2>3. Len(pending') = MaxLogEntries
    BY <1>1, <1>6, <2>2 DEF off
  <2>4. ASSUME NEW f \in ToSet(pending') PROVE f.seq > e.seq
    <3>1. PICK i \in 1 .. n + 1 - off : pending'[i] = f
      BY <1>6, ToSetFacts
    <3>2. i + 1 \in 1 .. n + 1 /\ 1 < i + 1 /\ 1 \in 1 .. n + 1 /\ longer[i + 1] = f
      BY <1>1, <1>6, <2>2, <3>1
    <3>3. longer[1] = e
      BY <1>4, <2>1, <2>2
    <3>4. longer[1].seq < longer[i + 1].seq
      BY <1>8, <3>2
    <3>5. e.seq \in Nat /\ f.seq \in Nat
      BY <1>1, <1>6, ToSetFacts DEF Entry
    <3> QED
      BY <3>2, <3>3, <3>4, <3>5
  <2> QED
    BY <2>3, <2>4
<1>13. ToSet(pending') \subseteq ToSet(pending) \cup {entry}
  BY <1>11
<1>14. Len(pending') <= MaxLogEntries
  BY <1>6, <1>7
<1> QED
  BY <1>2, <1>3, <1>6, <1>10, <1>12, <1>13, <1>14 DEF entry

LEMMA AddKeeps ==
    ASSUME LogIInv, NEW ok \in BOOLEAN, Add(ok)
    PROVE  LogIInv'
<1> DEFINE entry == [id |-> added + 1, seq |-> nextSeq, ok |-> ok]
<1>1. TypeOK /\ added \in Nat /\ nextSeq \in Nat /\ mode # "down"
  BY DEF LogIInv, LogInv, TypeOK, Add
<1>2. /\ entry \in Entry /\ \A e \in Retained : e.seq < entry.seq
      /\ pending' \in Seq(Entry) /\ Len(pending') <= MaxLogEntries
      /\ \A i, j \in DOMAIN pending' : i < j => pending'[i].seq < pending'[j].seq
      /\ ToSet(pending') \subseteq ToSet(pending) \cup {entry}
  BY AddFacts
<1>3. /\ entry.id = added + 1 /\ entry.seq = nextSeq /\ entry.ok = ok
      /\ mode' = mode /\ db' = db /\ reader' = reader /\ boots' = boots
      /\ added' = added + 1 /\ nextSeq' = nextSeq + 1
      /\ flying > 0 /\ flying' = flying - 1
      /\ stats' = IF ok THEN [stats EXCEPT !.success = @ + 1]
                  ELSE [stats EXCEPT !.failed = @ + 1]
  BY DEF Add
<1> HIDE DEF entry
<1>4. Retained' \subseteq Retained \cup {entry}
  BY <1>2, <1>3 DEF Retained
<1>5. \A e \in Known : e.id <= added /\ e.id \in Nat
  <2>1. Known \subseteq Entry
    <3>1. Retained \subseteq Entry /\ ToSet(reader.got) \subseteq Entry
      BY LogFacts, ToSetFacts DEF IsTable
    <3> QED
      BY <1>1, <3>1 DEF Known, TypeOK
  <2> QED
    BY <2>1 DEF LogIInv, IdsTellApart, Entry
<1>6. Known' \subseteq Known \cup {entry}
  BY <1>3, <1>4 DEF Known
<1>7. \A e \in Retained : e.id < entry.id /\ e.seq < entry.seq
  BY <1>1, <1>2, <1>3, <1>5 DEF Known
<1>8. TypeOK'
  <2>1. flying' \in 0 .. MaxFlying
    <3>1. flying \in 0 .. MaxFlying /\ MaxFlying \in Nat
      BY <1>1, RequestLogAssumption DEF TypeOK
    <3> QED
      BY <1>3, <3>1
  <2>2. stats' \in [success : Nat, failed : Nat]
    BY <1>1, <1>3 DEF TypeOK
  <2>3. added' \in Nat /\ nextSeq' \in Nat
    BY <1>1, <1>3
  <2> QED
    BY <1>1, <1>2, <1>3, <2>1, <2>2, <2>3 DEF TypeOK
<1>9. SeqsInOrder'
  <2>1. \A e, f \in Retained : e.seq < f.seq <=> e.id < f.id
    BY DEF LogIInv, LogInv, SeqsInOrder
  <2>2. /\ \A e \in Retained : ~(entry.seq < e.seq) /\ ~(entry.id < e.id)
        /\ ~(entry.seq < entry.seq) /\ ~(entry.id < entry.id)
    <3>1. \A e \in Retained : e.seq \in Nat /\ e.id \in Nat
      BY LogFacts DEF IsTable, Entry
    <3> QED
      BY <1>1, <1>3, <1>7, <3>1
  <2>3. \A e, f \in Retained' : e.seq < f.seq <=> e.id < f.id
    BY <1>4, <1>7, <2>1, <2>2
  <2>4. \A e \in Retained' : e.seq < nextSeq + 1
    <3>1. \A e \in Retained : e.seq \in Nat
      BY LogFacts DEF IsTable, Entry
    <3> QED
      BY <1>1, <1>3, <1>4, <1>7, <3>1
  <2> QED
    BY <1>3, <2>3, <2>4 DEF SeqsInOrder
<1>10. CountersCoverLog'
  <2> DEFINE C == Retained \cup {entry}
  <2>1. IsFiniteSet(Retained) /\ IsFiniteSet(C) /\ Retained \subseteq C
    BY LogFacts, FS_AddElement DEF IsTable
  <2>2. /\ IsFiniteSet(Passed(Retained)) /\ IsFiniteSet(Failed(Retained))
        /\ Cardinality(Passed(Retained)) \in Nat /\ Cardinality(Failed(Retained)) \in Nat
    BY <2>1, CountOfStatus
  <2>3. /\ Cardinality(Passed(Retained')) <= Cardinality(Passed(C))
        /\ Cardinality(Failed(Retained')) <= Cardinality(Failed(C))
        /\ Cardinality(Passed(Retained')) \in Nat /\ Cardinality(Failed(Retained')) \in Nat
        /\ Cardinality(Passed(C)) \in Nat /\ Cardinality(Failed(C)) \in Nat
    <3> HIDE DEF C
    <3> QED
      BY <1>4, <2>1, CountOfStatus DEF C
  <2>4. /\ stats.success >= Cardinality(Passed(Retained))
        /\ stats.failed >= Cardinality(Failed(Retained))
        /\ stats.success \in Nat /\ stats.failed \in Nat
    BY <1>1, Covered DEF LogIInv, LogInv, TypeOK
  <2>5. CASE ok
    <3>1. Passed(C) = Passed(Retained) \cup {entry} /\ Failed(C) = Failed(Retained)
      BY <1>3, <2>5 DEF Passed, Failed
    <3>2. Cardinality(Passed(C)) \in {Cardinality(Passed(Retained)),
                                       Cardinality(Passed(Retained)) + 1}
      BY <2>2, <3>1, FS_AddElement
    <3>3. stats'.success = stats.success + 1 /\ stats'.failed = stats.failed
      BY <1>1, <1>3, <2>5 DEF TypeOK
    <3> HIDE DEF C
    <3> QED
      BY <2>2, <2>3, <2>4, <3>1, <3>2, <3>3, CoveredNext
  <2>6. CASE ~ok
    <3>1. Failed(C) = Failed(Retained) \cup {entry} /\ Passed(C) = Passed(Retained)
      BY <1>3, <2>6 DEF Passed, Failed
    <3>2. Cardinality(Failed(C)) \in {Cardinality(Failed(Retained)),
                                       Cardinality(Failed(Retained)) + 1}
      BY <2>2, <3>1, FS_AddElement
    <3>3. stats'.failed = stats.failed + 1 /\ stats'.success = stats.success
      BY <1>1, <1>3, <2>6 DEF TypeOK
    <3> HIDE DEF C
    <3> QED
      BY <2>2, <2>3, <2>4, <3>1, <3>2, <3>3, CoveredNext
  <2> QED
    BY <2>5, <2>6
<1>11. BufferAfterRows'
  <2>1. \A e \in db, f \in ToSet(pending') : e.seq < f.seq
    BY <1>2 DEF LogIInv, BufferAfterRows, Retained
  <2> QED
    BY <1>1, <1>2, <1>3, <2>1 DEF LogIInv, BufferAfterRows
<1>12. IdsTellApart'
  <2>1. \A e \in Known : e.id # entry.id
    BY <1>1, <1>3, <1>5
  <2>2. \A e, f \in Known' : e.id = f.id => e = f
    BY <1>6, <2>1 DEF LogIInv, IdsTellApart
  <2>3. \A e \in Known' : e.id <= added + 1
    BY <1>1, <1>3, <1>5, <1>6
  <2> QED
    BY <1>3, <2>2, <2>3 DEF IdsTellApart
<1>13. reader.start \cap Retained' \subseteq reader.start \cap Retained
  <2>1. entry \notin reader.start
    BY <1>1, <1>3, <1>5 DEF Known
  <2> QED
    BY <1>4, <2>1
<1>14. PagesDescend' /\ ReadDownToCursor' /\ ShowsAllRetained'
  BY <1>3, <1>13 DEF LogIInv, PagesDescend, ReadDownToCursor, ShowsAllRetained
<1> QED
  BY <1>8, <1>9, <1>10, <1>11, <1>12, <1>14 DEF LogIInv, LogInv

\* The number after the newest row's is above them all.
LEMMA SeqAfterFacts ==
    ASSUME NEW rows, IsTable(rows)
    PROVE  SeqAfter(rows) \in Nat /\ \A e \in rows : e.seq < SeqAfter(rows)
<1>1. CASE rows = {}
  BY <1>1 DEF SeqAfter
<1>2. CASE rows # {}
  <2> DEFINE s == NewestFirst(rows)
             top == CHOOSE e \in rows : \A f \in rows : f.seq <= e.seq
  <2>1. s \in Seq(Entry) /\ ToSet(s) = rows /\ Descends(s)
    BY SortFacts
  <2>2. \A e \in rows : e.seq \in Nat
    BY DEF IsTable, Entry
  <2> HIDE DEF s
  <2>3. s[1] \in rows /\ DOMAIN s = 1 .. Len(s) /\ Len(s) \in Nat /\ Len(s) > 0
    BY <1>2, <2>1, ToSetFacts
  <2>4. ASSUME NEW f \in rows PROVE f.seq <= s[1].seq
    <3>1. PICK i \in 1 .. Len(s) : s[i] = f
      BY <2>1, ToSetFacts
    <3>2. i = 1 \/ s[1].seq > s[i].seq
      BY <2>1, <2>3, <3>1 DEF Descends
    <3> QED
      BY <2>2, <2>3, <3>1, <3>2
  <2>5. top \in rows /\ \A f \in rows : f.seq <= top.seq
    BY <2>3, <2>4
  <2>6. SeqAfter(rows) = top.seq + 1
    BY <1>2 DEF SeqAfter
  <2> HIDE DEF top
  <2> QED
    BY <2>2, <2>5, <2>6
<1> QED
  BY <1>1, <1>2

LEMMA BootKeeps ==
    ASSUME LogIInv, Boot
    PROVE  LogIInv'
<1>1. /\ TypeOK /\ mode' = "up" /\ db' = db /\ reader' = reader /\ added' = added
      /\ nextSeq' = SeqAfter(db) /\ stats' = Hydrated(db) /\ boots' = boots + 1
      /\ flying' = flying /\ pending' = <<>> /\ pending = <<>>
  BY DEF LogIInv, LogInv, BufferAfterRows, Boot
<1>2. Retained' = db /\ Retained = db /\ ToSet(pending') = {} /\ DOMAIN pending' = {}
  BY <1>1 DEF Retained, ToSet
<1>3. IsTable(db)
  BY LogFacts
<1>4. /\ \A e, f \in Retained' : e.seq < f.seq <=> e.id < f.id
      /\ IdsTellApart' /\ PagesDescend' /\ ReadDownToCursor' /\ ShowsAllRetained'
  BY <1>1, <1>2, ShrinkKeeps
<1>5. stats' = [success |-> Cardinality(Passed(db)), failed |-> Cardinality(Failed(db))]
  BY <1>1 DEF Hydrated, Passed, Failed
<1>6. Cardinality(Passed(db)) \in Nat /\ Cardinality(Failed(db)) \in Nat
  BY <1>3, CountOfStatus DEF IsTable
<1>7. TypeOK'
  <2>1. stats' \in [success : Nat, failed : Nat]
    BY <1>5, <1>6
  <2>2. nextSeq' \in Nat
    BY <1>1, <1>3, SeqAfterFacts
  <2>3. boots' \in Nat
    BY <1>1 DEF TypeOK
  <2> QED
    BY <1>1, <2>1, <2>2, <2>3 DEF TypeOK
<1>8. SeqsInOrder'
  BY <1>1, <1>2, <1>3, <1>4, SeqAfterFacts DEF SeqsInOrder
<1>9. CountersCoverLog'
  <2>1. stats'.success = Cardinality(Passed(db)) /\ stats'.failed = Cardinality(Failed(db))
    BY <1>5
  <2> QED
    BY <1>2, <1>6, <2>1, CoveredNext
<1>10. BufferAfterRows'
  BY <1>1, <1>2 DEF LogIInv, BufferAfterRows
<1> QED
  BY <1>4, <1>7, <1>8, <1>9, <1>10 DEF LogIInv, LogInv

\* Following nextBefore from page to page.
LEMMA ReadPageKeeps ==
    ASSUME LogIInv, ReadPage
    PROVE  LogIInv'
<1> DEFINE from == IF reader.reading THEN reader ELSE [NoReader EXCEPT !.start = Retained]
           page == Page(PageLimit, from.before)
<1>1. /\ TypeOK /\ UNCHANGED <<mode, flying, pending, db, nextSeq, stats, added, boots>>
      /\ reader' = [reading |-> Len(page) = PageLimit,
                    before  |-> IF page = <<>> THEN from.before ELSE Last(page).seq,
                    got     |-> from.got \o page,
                    start   |-> from.start]
  BY DEF LogIInv, LogInv, ReadPage
<1>2. IsTable(Retained) /\ PageLimit \in Nat /\ PageLimit > 0
  BY LogFacts, RequestLogAssumption
<1>3. Retained' = Retained
  BY <1>1 DEF Retained
<1>4. /\ from.before \in Nat \cup {-1} /\ from.got \in Seq(Entry) /\ from.start \subseteq Entry
      /\ ToSet(from.got) \cup from.start \subseteq Known
      /\ \A i, j \in DOMAIN from.got :
            i < j => /\ from.got[i].seq > from.got[j].seq
                     /\ from.got[i].id # from.got[j].id
      /\ \/ from.before = -1 /\ from.got = <<>>
         \/ from.got # <<>> /\ from.before = Last(from.got).seq
      /\ \A e \in from.start \cap Retained :
            from.before = -1 \/ e.seq < from.before \/ e \in ToSet(from.got)
  <2>1. CASE reader.reading
    <3>1. from = reader
      BY <2>1
    <3>2. \A e \in reader.start \cap Retained :
             e.seq < reader.before \/ e \in ToSet(reader.got)
      <4>1. reader.before \in Nat \cup {-1} /\ \A e \in Retained : e.seq \in Nat
        BY <1>1, <1>2 DEF TypeOK, IsTable, Entry
      <4> QED
        BY <2>1, <4>1 DEF LogIInv, ReadDownToCursor
    <3> HIDE DEF from
    <3> QED
      BY <1>1, <2>1, <3>1, <3>2
         DEF TypeOK, LogIInv, PagesDescend, ReadDownToCursor, Known
  <2>2. CASE ~reader.reading
    <3>1. from = [reading |-> FALSE, before |-> -1, got |-> <<>>, start |-> Retained]
      BY <2>2 DEF NoReader
    <3>2. from.before = -1 /\ from.got = <<>> /\ from.start = Retained
      BY <3>1
    <3> HIDE DEF from
    <3>3. DOMAIN from.got = {} /\ ToSet(from.got) = {}
      BY <3>2 DEF ToSet
    <3> QED
      BY <1>2, <3>2, <3>3, EmptySeq DEF IsTable, Known
  <2> QED
    BY <2>1, <2>2
<1> HIDE DEF from
<1>5. /\ IsTop(page, Below(Retained, from.before), PageLimit)
      /\ page \in Seq(Entry) /\ Len(page) \in Nat
  BY <1>2, <1>4, PageFacts, LenProperties DEF IsTop
<1> HIDE DEF page
<1>6. /\ reader'.got = from.got \o page /\ reader'.start = from.start
      /\ reader'.reading = (Len(page) = PageLimit)
      /\ reader'.before = IF page = <<>> THEN from.before ELSE Last(page).seq
  BY <1>1
<1>7. /\ reader'.got \in Seq(Entry) /\ Len(reader'.got) = Len(from.got) + Len(page)
      /\ \A i \in 1 .. Len(from.got) + Len(page) :
            reader'.got[i] = IF i <= Len(from.got) THEN from.got[i]
                             ELSE page[i - Len(from.got)]
      /\ Len(from.got) \in Nat
  BY <1>4, <1>5, <1>6, ConcatProperties, LenProperties
<1>8. ToSet(reader'.got) = ToSet(from.got) \cup ToSet(page)
  <2>1. ASSUME NEW e \in ToSet(reader'.got) PROVE e \in ToSet(from.got) \cup ToSet(page)
    <3>1. PICK i \in 1 .. Len(from.got) + Len(page) : reader'.got[i] = e
      BY <1>7, ToSetFacts
    <3>2. CASE i <= Len(from.got)
      BY <1>4, <1>7, <3>1, <3>2, ToSetFacts
    <3>3. CASE i > Len(from.got)
      <4>1. i - Len(from.got) \in 1 .. Len(page) /\ page[i - Len(from.got)] = e
        BY <1>5, <1>7, <3>1, <3>3
      <4> QED
        BY <1>5, <4>1, ToSetFacts
    <3> QED
      BY <1>5, <1>7, <3>1, <3>2, <3>3
  <2>2. ASSUME NEW e \in ToSet(from.got) PROVE e \in ToSet(reader'.got)
    <3>1. PICK i \in 1 .. Len(from.got) : from.got[i] = e
      BY <1>4, ToSetFacts
    <3>2. i \in 1 .. Len(reader'.got) /\ reader'.got[i] = e
      BY <1>5, <1>7, <3>1
    <3> QED
      BY <1>7, <3>2, ToSetFacts
  <2>3. ASSUME NEW e \in ToSet(page) PROVE e \in ToSet(reader'.got)
    <3>1. PICK i \in 1 .. Len(page) : page[i] = e
      BY <1>5, ToSetFacts
    <3>2. Len(from.got) + i \in 1 .. Len(from.got) + Len(page) /\ Len(from.got) + i > Len(from.got)
      BY <1>5, <1>7
    <3>3. /\ reader'.got[Len(from.got) + i] = page[(Len(from.got) + i) - Len(from.got)]
          /\ (Len(from.got) + i) - Len(from.got) = i
      BY <1>5, <1>7, <3>2
    <3> QED
      BY <1>7, <3>1, <3>2, <3>3, ToSetFacts
  <2> QED
    BY <2>1, <2>2, <2>3
<1>9. ToSet(page) \subseteq Retained
  BY <1>5 DEF IsTop, Below
<1>10. page # <<>> => Last(page) \in ToSet(page) /\ Last(page) = page[Len(page)] /\ Len(page) > 0
  BY <1>5, ToSetFacts
<1>11. TypeOK'
  <2>1. reader'.before \in Nat \cup {-1}
    <3>1. page # <<>> => Last(page).seq \in Nat
      BY <1>2, <1>9, <1>10 DEF IsTable, Entry
    <3> QED
      BY <1>4, <1>6, <3>1
  <2>2. reader' \in [reading : BOOLEAN, before : Nat \cup {-1}, got : Seq(Entry),
                     start : SUBSET Entry]
    <3>1. (Len(page) = PageLimit) \in BOOLEAN
      OBVIOUS
    <3> QED
      BY <1>1, <1>4, <1>6, <1>7, <2>1, <3>1
  <2> QED
    BY <1>1, <2>2 DEF TypeOK
<1>12. IdsTellApart'
  <2>1. Known' \subseteq Known
    <3>1. ToSet(reader'.got) \cup reader'.start \subseteq Known
      BY <1>4, <1>6, <1>8, <1>9 DEF Known
    <3> QED
      BY <1>3, <3>1 DEF Known
  <2> QED
    BY <1>1, <2>1 DEF LogIInv, IdsTellApart
<1>13. PagesDescend'
  <2>1. ASSUME NEW i \in DOMAIN reader'.got, NEW j \in DOMAIN reader'.got, i < j
        PROVE  /\ reader'.got[i].seq > reader'.got[j].seq
               /\ reader'.got[i].id # reader'.got[j].id
    <3> DEFINE m == Len(from.got)
               e == reader'.got[i]
               f == reader'.got[j]
    <3>1. /\ i \in 1 .. m + Len(page) /\ j \in 1 .. m + Len(page) /\ m \in Nat
          /\ DOMAIN from.got = 1 .. m /\ DOMAIN page = 1 .. Len(page)
      BY <1>4, <1>5, <1>7, LenProperties
    <3> HIDE DEF m
    <3>2. CASE j <= m
      <4>1. i \in DOMAIN from.got /\ j \in DOMAIN from.got /\ e = from.got[i] /\ f = from.got[j]
        BY <1>5, <1>7, <2>1, <3>1, <3>2 DEF m
      <4> QED
        BY <1>4, <2>1, <4>1
    <3>3. CASE j > m
      <4>1. j - m \in DOMAIN page /\ f = page[j - m]
        <5>1. j - m \in 1 .. Len(page) /\ ~(j <= m)
          BY <1>5, <3>1, <3>3
        <5>2. f = IF j <= m THEN from.got[j] ELSE page[j - m]
          BY <1>7, <3>1 DEF m
        <5> QED
          BY <3>1, <5>1, <5>2
      <4>2. f \in ToSet(page) /\ f \in Retained
        BY <1>5, <1>9, <3>1, <4>1, ToSetFacts
      <4>3. e.seq > f.seq
        <5>1. CASE i > m
          <6>1. i - m \in DOMAIN page /\ e = page[i - m] /\ i - m < j - m
            BY <1>5, <1>7, <2>1, <3>1, <3>3, <5>1 DEF m
          <6> QED
            BY <1>5, <4>1, <6>1 DEF IsTop, Descends
        <5>2. CASE i <= m
          <6>1. i \in DOMAIN from.got /\ e = from.got[i] /\ e \in Entry
            BY <1>4, <1>5, <1>7, <3>1, <5>2, ElementOfSeq DEF m
          <6>2. from.got # <<>> /\ m > 0 /\ Last(from.got) = from.got[m] /\ from.before = from.got[m].seq
            BY <1>4, <3>1, <5>2, <6>1, ToSetFacts DEF m
          <6>3. e.seq >= from.before /\ from.before # -1
            <7>1. i = m \/ from.got[i].seq > from.got[m].seq
              BY <1>4, <3>1, <5>2, <6>1, <6>2
            <7>2. from.got[m] \in Entry
              BY <1>4, <3>1, <6>2, ElementOfSeq DEF m
            <7> QED
              BY <6>1, <6>2, <7>1, <7>2 DEF Entry
          <6>4. f \in Below(Retained, from.before)
            BY <1>5, <4>2 DEF IsTop
          <6>5. f.seq < from.before
            BY <6>3, <6>4 DEF Below
          <6>6. f.seq \in Nat /\ e.seq \in Nat /\ from.before \in Int
            BY <1>2, <1>4, <4>2, <6>1 DEF IsTable, Entry
          <6> QED
            BY <6>3, <6>5, <6>6
        <5> QED
          BY <3>1, <5>1, <5>2
      <4>4. e \in Known /\ f \in Known
        <5>1. e \in ToSet(reader'.got)
          BY <1>7, <3>1, ToSetFacts DEF m
        <5> QED
          BY <1>4, <1>8, <1>9, <4>2, <5>1 DEF Known
      <4>5. e # f
        <5>1. f.seq \in Nat
          BY <1>2, <4>2 DEF IsTable, Entry
        <5> QED
          BY <4>3, <5>1
      <4> QED
        BY <4>3, <4>4, <4>5 DEF LogIInv, IdsTellApart
    <3> QED
      BY <3>1, <3>2, <3>3
  <2> QED
    BY <2>1 DEF PagesDescend
<1>14. ASSUME NEW e \in reader'.start \cap Retained, e \notin ToSet(reader'.got)
       PROVE  Len(page) = PageLimit /\ \A f \in ToSet(page) : f.seq > e.seq
  <2>1. e \in Below(Retained, from.before) \ ToSet(page)
    BY <1>4, <1>6, <1>8, <1>14 DEF Below
  <2> QED
    BY <1>5, <2>1 DEF IsTop
<1>15. ReadDownToCursor'
  <2>1. SUFFICES ASSUME Len(page) = PageLimit
                 PROVE  /\ reader'.got # <<>>
                        /\ reader'.before = Last(reader'.got).seq
                        /\ \A e \in reader'.start \cap Retained :
                              e.seq >= reader'.before => e \in ToSet(reader'.got)
    BY <1>3, <1>6 DEF ReadDownToCursor
  <2>2. page # <<>> /\ Len(page) > 0
    BY <1>2, <1>5, <2>1
  <2>3. reader'.got # <<>>
    BY <1>7, <2>2
  <2>4. Last(reader'.got) = Last(page)
    <3>1. Last(reader'.got) = reader'.got[Len(from.got) + Len(page)]
      BY <1>7, <2>3, ToSetFacts
    <3>2. Len(from.got) + Len(page) > Len(from.got)
      BY <1>5, <1>7, <2>2
    <3>3. /\ Last(reader'.got) = page[(Len(from.got) + Len(page)) - Len(from.got)]
          /\ (Len(from.got) + Len(page)) - Len(from.got) = Len(page)
      BY <1>5, <1>7, <2>2, <3>1, <3>2
    <3> QED
      BY <1>10, <2>2, <3>3
  <2>5. reader'.before = Last(page).seq
    BY <1>6, <2>2
  <2>6. ASSUME NEW e \in reader'.start \cap Retained, e.seq >= reader'.before
        PROVE  e \in ToSet(reader'.got)
    <3>1. Last(page).seq \in Nat /\ e.seq \in Nat
      BY <1>2, <1>9, <1>10, <2>2 DEF IsTable, Entry
    <3>2. ~(Last(page).seq > e.seq)
      BY <2>5, <2>6, <3>1
    <3> QED
      BY <1>10, <1>14, <2>2, <3>2
  <2> QED
    BY <2>3, <2>4, <2>5, <2>6
<1>16. ShowsAllRetained'
  BY <1>3, <1>6, <1>14 DEF ShowsAllRetained
<1>17. SeqsInOrder' /\ CountersCoverLog' /\ BufferAfterRows'
  <2>1. SeqsInOrder'
    BY <1>1, <1>3 DEF LogIInv, LogInv, SeqsInOrder
  <2>2. CountersCoverLog'
    BY <1>1, <1>3, Covered, CoveredNext DEF LogIInv, LogInv
  <2>3. BufferAfterRows'
    BY <1>1 DEF LogIInv, BufferAfterRows
  <2> QED
    BY <2>1, <2>2, <2>3
<1> QED
  BY <1>11, <1>12, <1>13, <1>15, <1>16, <1>17 DEF LogIInv, LogInv

LEMMA LogInit == Init => LogIInv
<1> SUFFICES ASSUME Init PROVE LogIInv
  OBVIOUS
<1>1. /\ Retained = {} /\ Known = {} /\ ToSet(pending) = {} /\ DOMAIN pending = {}
      /\ DOMAIN reader.got = {} /\ reader.reading = FALSE
  BY DEF Init, Retained, Known, ToSet, NoReader
<1>2. IsFiniteSet({}) /\ Cardinality({}) = 0 /\ Passed({}) = {} /\ Failed({}) = {}
  BY FS_EmptySet DEF Passed, Failed
<1>3. stats = [success |-> 0, failed |-> 0]
  BY <1>2 DEF Init, Hydrated
<1>4. TypeOK
  <2>1. pending \in Seq(Entry) /\ Len(pending) = 0
    BY EmptySeq DEF Init
  <2>2. reader \in [reading : BOOLEAN, before : Nat \cup {-1}, got : Seq(Entry),
                    start : SUBSET Entry]
    <3>1. <<>> \in Seq(Entry) /\ {} \in SUBSET Entry /\ -1 \in Nat \cup {-1}
      BY EmptySeq
    <3> QED
      BY <3>1 DEF Init, NoReader
  <2> QED
    BY <1>2, <1>3, <2>1, <2>2, RequestLogAssumption DEF Init, TypeOK
<1>5. SeqsInOrder /\ IdsTellApart /\ ReadDownToCursor /\ ShowsAllRetained /\ PagesDescend
  BY <1>1 DEF SeqsInOrder, IdsTellApart, ReadDownToCursor, ShowsAllRetained, PagesDescend
<1>6. CountersCoverLog
  BY DEF CountersCoverLog, Init
<1>7. BufferAfterRows
  BY <1>1, <1>2 DEF BufferAfterRows, Init
<1> QED
  BY <1>4, <1>5, <1>6, <1>7 DEF LogIInv, LogInv

LEMMA LogSafe == Spec => []LogIInv
<1>1. LogIInv /\ [Next]_vars => LogIInv'
  <2> SUFFICES ASSUME LogIInv, [Next]_vars PROVE LogIInv'
    OBVIOUS
  <2>1. CASE Arrive \/ Flush \/ Sigterm \/ Exit \/ Crash
    BY <2>1, FlushKeeps
  <2>2. ASSUME NEW ok \in BOOLEAN, Add(ok) PROVE LogIInv'
    BY <2>2, AddKeeps
  <2>3. CASE Boot
    BY <2>3, BootKeeps
  <2>4. CASE ReadPage
    BY <2>4, ReadPageKeeps
  <2>5. CASE UNCHANGED vars
    <3>1. Retained' = Retained /\ Known' = Known
      BY <2>5 DEF vars, Retained, Known
    <3> QED
      BY <2>5, <3>1
         DEF vars, LogIInv, LogInv, TypeOK, SeqsInOrder, CountersCoverLog, BufferAfterRows,
             IdsTellApart, PagesDescend, ReadDownToCursor, ShowsAllRetained
  <2> QED
    BY <2>1, <2>2, <2>3, <2>4, <2>5 DEF Next
<1> QED
  BY <1>1, LogInit, PTL DEF Spec

\* Across restarts that lose the end of the log the numbers stay unique, follow the
\* order of the requests and are never given twice to entries that are left, and the
\* counters cover the log (nextSeq, add, flush, hydrateStats), for every size of the log.
THEOREM NumberingHolds == Spec => []LogInv
  BY LogSafe, PTL DEF LogIInv

\* Whoever pages through the log gets its entries in order, none twice, and all that
\* stayed in it meanwhile; the status page shows its first page (getPage, getRecent),
\* whatever is added, flushed, pruned or lost between two pages.
THEOREM PagesAreFaithful == Spec => []PagesFaithful
<1>1. LogIInv => PagesFaithful
  <2> SUFFICES ASSUME LogIInv, NEW limit \in 1 .. MaxLogEntries
               PROVE  Recent(limit) = Page(limit, -1)
    BY DEF LogIInv, PagesFaithful, RecentIsFirstPage
  <2>1. limit \in Nat /\ -1 \in Nat \cup {-1}
    BY RequestLogAssumption
  <2> QED
    BY <2>1, PageFacts
<1> QED
  BY <1>1, LogSafe, PTL

\* As many entries of a part that are newer are newer in the whole.
LEMMA NewerInMore ==
    ASSUME NEW rows, IsFiniteSet(rows), NEW part \in SUBSET rows, NEW e,
           Cardinality(Newer(part, e)) = MaxLogEntries
    PROVE  Cardinality(Newer(rows, e)) >= MaxLogEntries
<1>1. Newer(part, e) \in SUBSET Newer(rows, e) /\ Newer(rows, e) \in SUBSET rows
  BY DEF Newer
<1>2. IsFiniteSet(Newer(rows, e)) /\ IsFiniteSet(Newer(part, e))
  BY <1>1, FS_Subset
<1>3. /\ Cardinality(Newer(part, e)) <= Cardinality(Newer(rows, e))
      /\ Cardinality(Newer(rows, e)) \in Nat
  BY <1>1, <1>2, FS_Subset, FS_CardinalityType
<1> QED
  BY <1>3, RequestLogAssumption

\* While the process runs the log forgets its oldest entries only, and only for
\* MaxLogEntries newer ones (add, flush, pruneStmt).
THEOREM ForgetsOldestOnly == Spec => LosesOldest
<1>1. LogIInv /\ LogIInv' /\ [Next]_vars =>
         [mode' = mode => \A e \in Retained \ Retained' :
             Cardinality(Newer(Retained', e)) >= MaxLogEntries]_vars
  <2> SUFFICES ASSUME LogIInv, LogIInv', Next, mode' = mode, NEW e \in Retained \ Retained'
               PROVE  Cardinality(Newer(Retained', e)) >= MaxLogEntries
    OBVIOUS
  <2>1. IsTable(Retained') /\ IsFiniteSet(Retained')
    <3>1. LogIInv' => IsTable(Retained)'
      BY LogFacts, PTL
    <3> QED
      BY <3>1 DEF IsTable
  <2>2. CASE Flush
    <3>1. Retained' = db' /\ Cardinality(Newer(db', e)) = MaxLogEntries
      BY <2>2, FlushedFacts DEF Flush
    <3> QED
      BY <2>1, <3>1, NewerInMore
  <2>3. ASSUME NEW ok \in BOOLEAN, Add(ok)
        PROVE  Cardinality(Newer(Retained', e)) >= MaxLogEntries
    <3>1. e \in ToSet(pending) \ ToSet(pending')
      <4>1. db' = db
        BY <2>3 DEF Add
      <4> QED
        BY <4>1 DEF Retained
    <3>2. /\ Len(pending') = MaxLogEntries /\ \A f \in ToSet(pending') : f.seq > e.seq
          /\ pending' \in Seq(Entry)
          /\ \A i, j \in DOMAIN pending' : i < j => pending'[i].seq < pending'[j].seq
      BY <2>3, <3>1, AddFacts
    <3>3. ASSUME NEW i \in DOMAIN pending', NEW j \in DOMAIN pending', i # j
          PROVE  pending'[i] # pending'[j]
      <4>1. DOMAIN pending' = 1 .. Len(pending') /\ Len(pending') \in Nat
        BY <3>2, LenProperties
      <4>2. pending'[i] \in Entry /\ pending'[j] \in Entry
        BY <3>2, <4>1, ElementOfSeq
      <4>3. i < j \/ j < i
        BY <3>3, <4>1
      <4> QED
        BY <3>2, <4>2, <4>3 DEF Entry
    <3>4. Cardinality(ToSet(pending')) = MaxLogEntries
      BY <3>2, <3>3, CountOfList
    <3>5. Newer(ToSet(pending'), e) = ToSet(pending')
      BY <3>2 DEF Newer
    <3>6. ToSet(pending') \in SUBSET Retained'
      BY DEF Retained
    <3> QED
      BY <2>1, <3>4, <3>5, <3>6, NewerInMore
  <2>4. CASE Arrive \/ Boot \/ ReadPage \/ Sigterm \/ Exit \/ Crash
    <3>1. CASE Arrive \/ ReadPage
      BY <3>1 DEF Arrive, ReadPage, Retained
    <3>2. CASE Boot \/ Sigterm \/ Exit \/ Crash
      BY <3>2 DEF Boot, Sigterm, Exit, Crash, Stopped
    <3> QED
      BY <2>4, <3>1, <3>2
  <2> QED
    BY <2>2, <2>3, <2>4 DEF Next
<1> QED
  BY <1>1, LogSafe, PTL DEF Spec, LosesOldest
=============================================================================
