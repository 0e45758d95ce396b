----------------------------- MODULE BooksProofs ----------------------------
(***************************************************************************)
(* What holds of every accounting book, for any calendar, scenario, number *)
(* of documents and of closes: its periods never overlap, what is posted   *)
(* lies in its period, what is closed stays as it was, and a document is   *)
(* taken back once.  The first part is about the operators of Ledger,      *)
(* Documents and Closing, each of which takes a sound book to a later one; *)
(* the second about the operations of Books, which combine them.           *)
(***************************************************************************)
EXTENDS Books, FiniteSetTheorems, SequenceTheorems, WellFoundedInduction, TLAPS

-----------------------------------------------------------------------------
(* Sequences, and largest elements *)

IsSeq(s) == s \in Seq(Range(s))

LEMMA InRange ==
  ASSUME NEW T, NEW s \in Seq(T) PROVE IsSeq(s)
<1>1. Len(s) \in Nat /\ s \in [1 .. Len(s) -> T]
  BY LenProperties
<1>2. s \in [1 .. Len(s) -> Range(s)]
  BY <1>1 DEF Range
<1> QED BY <1>1, <1>2, SeqDef DEF IsSeq

LEMMA SeqFact ==
  ASSUME NEW s, IsSeq(s) PROVE Len(s) \in Nat /\ DOMAIN s = 1 .. Len(s)
BY LenProperties DEF IsSeq

LEMMA ConcatFact ==
  ASSUME NEW s, NEW t, IsSeq(s), IsSeq(t)
  PROVE  /\ IsSeq(s \o t) /\ Len(s \o t) = Len(s) + Len(t)
         /\ DOMAIN (s \o t) = 1 .. Len(s) + Len(t)
         /\ \A i \in 1 .. Len(s) : (s \o t)[i] = s[i]
         /\ \A i \in 1 .. Len(t) : (s \o t)[Len(s) + i] = t[i]
<1> DEFINE T == Range(s) \cup Range(t)
<1>1. s \in Seq(T) /\ t \in Seq(T)
  BY DEF IsSeq
<1> HIDE DEF T
<1>2. s \o t \in Seq(T) /\ Len(s \o t) = Len(s) + Len(t) /\ Len(s) \in Nat /\ Len(t) \in Nat
  BY <1>1
<1>3. \A i \in 1 .. Len(s) : (s \o t)[i] = s[i]
  BY <1>1
<1>4. \A i \in 1 .. Len(t) : (s \o t)[Len(s) + i] = t[i]
  BY <1>1
<1>5. IsSeq(s \o t)
  BY <1>2, InRange
<1>6. DOMAIN (s \o t) = 1 .. Len(s) + Len(t)
  BY <1>2, LenProperties
<1> QED BY <1>2, <1>3, <1>4, <1>5, <1>6

LEMMA OneFact ==
  ASSUME NEW e PROVE IsSeq(<<e>>) /\ Len(<<e>>) = 1 /\ <<e>>[1] = e /\ IsSeq(<<>>) /\ Len(<<>>) = 0
<1>1. <<e>> \in Seq({e}) /\ <<>> \in Seq({e})
  OBVIOUS
<1> QED BY <1>1, InRange

LEMMA AppendFact ==
  ASSUME NEW s, NEW e, IsSeq(s)
  PROVE  /\ IsSeq(Append(s, e)) /\ Len(Append(s, e)) = Len(s) + 1
         /\ DOMAIN Append(s, e) = 1 .. Len(s) + 1
         /\ \A i \in 1 .. Len(s) : Append(s, e)[i] = s[i]
         /\ Append(s, e)[Len(s) + 1] = e
<1>1. Append(s, e) = s \o <<e>>
  BY DEF IsSeq
<1> QED BY <1>1, OneFact, ConcatFact

LEMMA Largest ==
  ASSUME NEW S, S # {}, NEW f \in [S -> Int], NEW m \in Int, \A x \in S : f[x] <= m
  PROVE  \E x \in S : \A y \in S : f[y] <= f[x]
<1> DEFINE T == {m - f[x] : x \in S}
<1>1. \A x \in S : f[x] \in Int /\ m - f[x] \in Nat
  OBVIOUS
<1>2. T \subseteq Nat /\ T # {}
  BY <1>1
<1>3. PICK k \in T : \A j \in T : ~ <<j, k>> \in OpToRel(<, Nat)
  <2> HIDE DEF T
  <2> QED BY <1>2, NatLessThanWellFounded, WFMin
<1>4. \A j \in T : ~ j < k
  BY <1>2, <1>3 DEF OpToRel
<1>5. PICK x \in S : k = m - f[x]
  OBVIOUS
<1>6. ASSUME NEW y \in S PROVE f[y] <= f[x]
  <2>1. ~ m - f[y] < m - f[x]
    BY <1>4, <1>5
  <2> QED BY <1>1, <2>1
<1> QED BY <1>6

LEMMA Smallest ==
  ASSUME NEW S, S # {}, NEW f \in [S -> Int], NEW m \in Int, \A x \in S : m <= f[x]
  PROVE  \E x \in S : \A y \in S : f[x] <= f[y]
<1> DEFINE g == [x \in S |-> -f[x]]
<1>1. g \in [S -> Int] /\ -m \in Int /\ \A x \in S : g[x] <= -m
  OBVIOUS
<1>2. \E x \in S : \A y \in S : g[y] <= g[x]
  <2> HIDE DEF g
  <2> QED BY <1>1, Largest
<1>3. PICK x \in S : \A y \in S : g[y] <= g[x]
  BY <1>2
<1>4. \A y \in S : -f[y] <= -f[x] /\ f[x] \in Int /\ f[y] \in Int
  BY <1>3
<1> QED BY <1>4

\* The largest date of a set, by the operator of the community modules.
LEMMA MaxFact ==
  ASSUME NEW S, S # {}, NEW n \in Int, \A x \in S : x \in Int /\ x <= n
  PROVE  Max(S) \in S /\ \A x \in S : x <= Max(S)
<1> DEFINE f == [x \in S |-> x]
<1>1. f \in [S -> Int] /\ \A x \in S : f[x] <= n
  OBVIOUS
<1> HIDE DEF f
<1>2. PICK x \in S : \A y \in S : f[y] <= f[x]
  BY <1>1, Largest
<1>3. \E z \in S : \A y \in S : z >= y
  BY <1>2 DEF f
<1>4. Max(S) \in S /\ \A y \in S : Max(S) >= y
  BY <1>3 DEF Max
<1> QED BY <1>4

-----------------------------------------------------------------------------
(* Sound books *)

BookRecord(b) ==
  b = [periods |-> b.periods, sources |-> b.sources, journals |-> b.journals,
       allocs |-> b.allocs, counts |-> b.counts, moves |-> b.moves, qty |-> b.qty,
       perpetual |-> b.perpetual, fixed |-> b.fixed, members |-> b.members,
       closes |-> b.closes, capital |-> b.capital]

\* A row of the sources table, whose references are to other rows.
SourceRow(b, doc) ==
  /\ doc = [type |-> doc.type, op |-> doc.op, of |-> doc.of, date |-> doc.date,
            total |-> doc.total, tax |-> doc.tax, party |-> doc.party, cash |-> doc.cash,
            link |-> doc.link, account |-> doc.account, units |-> doc.units,
            reversed |-> doc.reversed]
  /\ doc.type \in SourceTypes /\ doc.date \in Dates
  /\ doc.of \in 0 .. Len(b.sources) /\ doc.link \in 0 .. Len(b.sources)

JournalRow(b, j) ==
  /\ j = [period |-> j.period, source |-> j.source, date |-> j.date, lines |-> j.lines,
          reversalOf |-> j.reversalOf]
  /\ j.period \in DOMAIN b.periods /\ j.source \in 0 .. Len(b.sources)
  /\ j.date \in Dates /\ j.reversalOf \in 0 .. Len(b.journals)

AllocRow(b, r) ==
  /\ r = [born |-> r.born, invoice |-> r.invoice, receipt |-> r.receipt, amount |-> r.amount]
  /\ r.invoice \in DOMAIN b.sources /\ r.receipt \in Live(b, {"receipt"}) /\ r.amount > 0

Rows(b) ==
  /\ BookRecord(b) /\ b.periods \in Seq(Periods) /\ IsSeq(b.sources) /\ IsSeq(b.journals)
  /\ \A s \in DOMAIN b.sources : SourceRow(b, b.sources[s])
  /\ \A j \in DOMAIN b.journals : JournalRow(b, b.journals[j])
  /\ \A r \in b.allocs : AllocRow(b, r)
  /\ \A c \in b.counts : c.period \in DOMAIN b.periods

\* There is an open period, no two share a day, and the closed ones come first.
Calendar(b) ==
  /\ OpenPeriods(b) # {}
  /\ \A p \in DOMAIN b.periods : b.periods[p].start <= b.periods[p].end
  /\ \A p, q \in DOMAIN b.periods :
       p # q => b.periods[p].end < b.periods[q].start \/ b.periods[q].end < b.periods[p].start
  /\ \A p \in DOMAIN b.periods \ OpenPeriods(b) : \A q \in OpenPeriods(b) :
       b.periods[p].end < b.periods[q].start

Dating(b) ==
  \A j \in DOMAIN b.journals : Within(b.periods[b.journals[j].period], b.journals[j].date)

\* A journal is of a document that was taken back.
Undone(b, j) ==
  b.journals[j].source # 0 /\ b.sources[b.journals[j].source].reversed

\* Reversals and the journals they answer are in correspondence, and each is
\* the opposite of the other.
Answered(b) ==
  /\ \A k \in DOMAIN b.journals :
       b.journals[k].reversalOf # 0 =>
         /\ Undone(b, b.journals[k].reversalOf)
         /\ b.journals[k].lines = Opposite(b.journals[b.journals[k].reversalOf].lines)
  /\ \A k, l \in DOMAIN b.journals :
       b.journals[k].reversalOf # 0 /\ b.journals[k].reversalOf = b.journals[l].reversalOf => k = l
  /\ \A j \in DOMAIN b.journals :
       Undone(b, j) => \E k \in DOMAIN b.journals : b.journals[k].reversalOf = j

OpeningOnce(b) == \A s, t \in Opening(b) : s = t

Sound(b) == Rows(b) /\ Calendar(b) /\ Dating(b) /\ Answered(b) /\ OpeningOnce(b)

Frozen(b) == DOMAIN b.periods \ OpenPeriods(b)

\* A later state of a book: closed periods and what was posted stay, and what
\* is new is not in a period that was closed.
Later(b, c) ==
  /\ \A p \in Frozen(b) : p \in Frozen(c) /\ c.periods[p] = b.periods[p]
  /\ \A j \in DOMAIN b.journals : j \in DOMAIN c.journals /\ c.journals[j] = b.journals[j]
  /\ \A j \in DOMAIN c.journals \ DOMAIN b.journals : c.journals[j].period \notin Frozen(b)

LEMMA JournalFact ==
  ASSUME NEW b, Rows(b), NEW j \in DOMAIN b.journals
  PROVE  /\ Len(b.journals) \in Nat /\ DOMAIN b.journals = 1 .. Len(b.journals)
         /\ Len(b.sources) \in Nat /\ DOMAIN b.sources = 1 .. Len(b.sources)
         /\ b.journals[j].period \in DOMAIN b.periods /\ b.journals[j].date \in Dates
         /\ b.journals[j].source # 0 => b.journals[j].source \in DOMAIN b.sources
         /\ b.journals[j].reversalOf # 0 => b.journals[j].reversalOf \in DOMAIN b.journals
<1>1. /\ Len(b.journals) \in Nat /\ DOMAIN b.journals = 1 .. Len(b.journals)
      /\ Len(b.sources) \in Nat /\ DOMAIN b.sources = 1 .. Len(b.sources)
  BY SeqFact DEF Rows
<1>2. JournalRow(b, b.journals[j])
  BY DEF Rows
<1> QED BY <1>1, <1>2 DEF JournalRow

LEMMA LaterSame == ASSUME NEW b PROVE Later(b, b)
BY DEF Later

LEMMA LaterTwice ==
  ASSUME NEW b, NEW c, NEW d, Later(b, c), Later(c, d) PROVE Later(b, d)
BY DEF Later

BookInv == scenario \in DOMAIN Scenarios /\ Sound(book)

-----------------------------------------------------------------------------
(* Choosing a period *)

LEMMA PeriodFact ==
  ASSUME NEW b, Rows(b), NEW p \in DOMAIN b.periods
  PROVE  /\ b.periods[p] \in Periods /\ p \in Nat /\ DOMAIN b.periods = 1 .. Len(b.periods)
         /\ b.periods[p].start \in Int /\ 1 <= b.periods[p].start /\ b.periods[p].start <= LastDate
         /\ b.periods[p].end \in Int /\ 1 <= b.periods[p].end /\ b.periods[p].end <= LastDate
         /\ b.periods[p].open \in BOOLEAN /\ LastDate \in Int
<1>1. b.periods \in Seq(Periods)
  BY DEF Rows
<1>2. DOMAIN b.periods = 1 .. Len(b.periods) /\ Len(b.periods) \in Nat /\ b.periods[p] \in Periods
  BY <1>1, LenProperties
<1> QED BY <1>2, LastDateAssumption DEF Periods, Dates

LEMMA LastOfFact ==
  ASSUME NEW b, Rows(b), NEW ps, ps \subseteq DOMAIN b.periods, ps # {}
  PROVE  /\ LastOf(b, ps) \in ps /\ \A q \in ps : b.periods[q].start <= b.periods[LastOf(b, ps)].start
         /\ FirstOf(b, ps) \in ps /\ \A q \in ps : b.periods[FirstOf(b, ps)].start <= b.periods[q].start
<1> DEFINE f == [p \in ps |-> b.periods[p].start]
<1>1. f \in [ps -> Int] /\ \A p \in ps : 1 <= f[p] /\ f[p] <= LastDate
  BY PeriodFact
<1>2. LastDate \in Int
  BY LastDateAssumption
<1>3. (\E p \in ps : \A q \in ps : f[q] <= f[p]) /\ (\E p \in ps : \A q \in ps : f[p] <= f[q])
  <2> HIDE DEF f
  <2> QED BY <1>1, <1>2, Largest, Smallest
<1> QED BY <1>3 DEF LastOf, FirstOf

\* A change of the bounds of one open period, to dates no other period holds.
Rebooked(b, p, start, end) ==
  [b EXCEPT !.periods[p] = [@ EXCEPT !.start = start, !.end = end]]

\* Both are about documents and journals only.
LEMMA SameAnswers ==
  ASSUME NEW b, NEW c, Sound(b), c.journals = b.journals, c.sources = b.sources
  PROVE  Answered(c) /\ OpeningOnce(c)
<1>1. Answered(b) /\ \A j : Undone(c, j) <=> Undone(b, j)
  BY DEF Sound, Undone
<1>2. Answered(c)
  BY <1>1 DEF Answered
<1>3. \A types : Live(c, types) = Live(b, types)
  BY DEF Live
<1> QED BY <1>2, <1>3 DEF Sound, OpeningOnce, Opening

LEMMA RebookedFact ==
  ASSUME NEW b, Sound(b), NEW p \in OpenPeriods(b), NEW start \in Dates, NEW end \in Dates,
         start <= end, ~Overlaps(b, p, start, end),
         \A q \in Frozen(b) : b.periods[q].end < start,
         \A j \in JournalsIn(b, p) : start <= b.journals[j].date /\ b.journals[j].date <= end,
         NEW c, c = Rebooked(b, p, start, end)
  PROVE  /\ Sound(c) /\ Later(b, c)
         /\ DOMAIN c.periods = DOMAIN b.periods /\ OpenPeriods(c) = OpenPeriods(b)
         /\ c.periods[p].start = start /\ c.periods[p].end = end
         /\ \A q \in DOMAIN b.periods \ {p} : c.periods[q] = b.periods[q]
         /\ c = [b EXCEPT !.periods = c.periods]
<1>1. /\ Rows(b) /\ BookRecord(b) /\ p \in DOMAIN b.periods /\ b.periods \in Seq(Periods)
      /\ b.periods[p].open /\ b.periods[p] \in Periods
  BY DEF Sound, Rows, OpenPeriods
<1> DEFINE new == [b.periods[p] EXCEPT !.start = start, !.end = end]
<1>2. new \in Periods /\ new.start = start /\ new.end = end /\ new.open
  BY <1>1 DEF Periods
<1>3. c.periods = [b.periods EXCEPT ![p] = new] /\ c = [b EXCEPT !.periods = c.periods]
  BY <1>1, <1>2 DEF BookRecord, Rebooked
<1>4. /\ c.sources = b.sources /\ c.journals = b.journals /\ c.allocs = b.allocs /\ c.counts = b.counts
      /\ BookRecord(c)
  BY <1>1, <1>3 DEF BookRecord
<1> HIDE DEF new
<1>5. p \in 1 .. Len(b.periods)
  BY <1>1, LenProperties
<1>6. /\ c.periods \in Seq(Periods) /\ DOMAIN c.periods = DOMAIN b.periods
      /\ c.periods[p] = new /\ \A q \in DOMAIN b.periods \ {p} : c.periods[q] = b.periods[q]
  BY <1>1, <1>2, <1>3, <1>5, ExceptSeq
<1>7. OpenPeriods(c) = OpenPeriods(b)
  BY <1>1, <1>2, <1>6 DEF OpenPeriods
<1>8. Rows(c)
  BY <1>1, <1>4, <1>6 DEF Rows, SourceRow, JournalRow, AllocRow, Live
<1>9. Calendar(c)
  <2>1. c.periods[p].start = start /\ c.periods[p].end = end
    BY <1>2, <1>6
  <2>2. ASSUME NEW q \in DOMAIN b.periods \ {p}
        PROVE  /\ c.periods[q] = b.periods[q] /\ b.periods[q].start \in Int /\ b.periods[q].end \in Int
               /\ b.periods[q].end < start \/ end < b.periods[q].start
    <3>1. ~(b.periods[q].start <= end /\ b.periods[q].end >= start)
      BY DEF Overlaps
    <3> QED BY <1>1, <1>6, <3>1, PeriodFact DEF Dates
  <2>3. OpenPeriods(b) # {} /\ p \notin Frozen(b)
    BY DEF Sound, Calendar, Frozen
  <2>4. \A q \in DOMAIN b.periods \ {p} : c.periods[q].start <= c.periods[q].end
    BY <2>2 DEF Sound, Calendar
  <2>5. \A q, r \in DOMAIN b.periods \ {p} : q # r =>
          c.periods[q].end < c.periods[r].start \/ c.periods[r].end < c.periods[q].start
    BY <2>2 DEF Sound, Calendar
  <2>6. \A q \in Frozen(b) : \A r \in OpenPeriods(b) : c.periods[q].end < c.periods[r].start
    <3>1. \A q \in Frozen(b) : q \in DOMAIN b.periods \ {p} /\ c.periods[q] = b.periods[q]
      BY <2>2, <2>3 DEF Frozen
    <3>2. \A q \in Frozen(b) : \A r \in OpenPeriods(b) : b.periods[q].end < b.periods[r].start
      BY DEF Sound, Calendar, Frozen
    <3>3. \A r \in OpenPeriods(b) \ {p} : c.periods[r] = b.periods[r]
      BY <2>2 DEF OpenPeriods
    <3> QED BY <2>1, <3>1, <3>2, <3>3
  <2>7. \A q \in DOMAIN b.periods \ {p} :
          c.periods[q].end < c.periods[p].start \/ c.periods[p].end < c.periods[q].start
    BY <2>1, <2>2
  <2>8. \A q \in DOMAIN b.periods : c.periods[q].start <= c.periods[q].end
    BY <2>1, <2>4
  <2>9. \A q, r \in DOMAIN b.periods : q # r =>
          c.periods[q].end < c.periods[r].start \/ c.periods[r].end < c.periods[q].start
    BY <2>5, <2>7
  <2> QED BY <1>6, <1>7, <2>3, <2>6, <2>8, <2>9 DEF Calendar, Frozen
<1>10. Dating(c)
  <2> SUFFICES ASSUME NEW j \in DOMAIN b.journals
               PROVE  Within(c.periods[b.journals[j].period], b.journals[j].date)
    BY <1>4 DEF Dating
  <2>1. b.journals[j].period \in DOMAIN b.periods
    BY <1>1 DEF Rows, JournalRow
  <2>2. CASE b.journals[j].period = p
    BY <1>2, <1>6, <2>2 DEF JournalsIn, Within
  <2>3. CASE b.journals[j].period # p
    BY <1>6, <2>1, <2>3 DEF Sound, Dating
  <2> QED BY <2>2, <2>3
<1>11. Answered(c) /\ OpeningOnce(c)
  BY <1>4, SameAnswers
<1>12. Later(b, c)
  BY <1>4, <1>6, <1>7 DEF Later, Frozen
<1> QED BY <1>2, <1>3, <1>6, <1>7, <1>8, <1>9, <1>10, <1>11, <1>12 DEF Sound

\* The context of a posting date: an open period that holds it, which may have
\* been stretched to it.
LEMMA InContextFact ==
  ASSUME NEW b, Sound(b), NEW d \in Dates, HasContext(b, d)
  PROVE  /\ Sound(InContext(b, d)) /\ Later(b, InContext(b, d))
         /\ OpenPeriods(InContext(b, d)) = OpenPeriods(b)
         /\ DOMAIN InContext(b, d).periods = DOMAIN b.periods
         /\ \E ps : InContext(b, d) = [b EXCEPT !.periods = ps]
         /\ ContextPeriod(b, d) \in OpenPeriods(b)
         /\ Within(InContext(b, d).periods[ContextPeriod(b, d)], d)
<1> DEFINE c == InContext(b, d)
<1>1. Rows(b) /\ OpenPeriods(b) \subseteq DOMAIN b.periods /\ BookRecord(b) /\ OpenPeriods(b) # {}
  BY DEF Sound, Rows, OpenPeriods, Calendar
<1>2. /\ Sound(c) /\ Later(b, c) /\ OpenPeriods(c) = OpenPeriods(b)
      /\ DOMAIN c.periods = DOMAIN b.periods
      /\ \E ps : c = [b EXCEPT !.periods = ps] /\ OpenOn(c, d) # {}
  <2>1. CASE OpenOn(b, d) # {}
    <3>1. c = b
      BY <2>1 DEF InContext
    <3>2. b = [b EXCEPT !.periods = b.periods]
      BY <1>1 DEF BookRecord
    <3> QED BY <2>1, <3>1, <3>2, LaterSame
  <2>2. CASE OpenOn(b, d) = {}
    <3> DEFINE first == FirstOf(b, OpenPeriods(b))
               last == LastOf(b, OpenPeriods(b))
               p == Stretched(b, d).period
               start == Stretched(b, d).start
               end == Stretched(b, d).end
    <3>1. MustStretch(b, d)
      BY <2>2 DEF HasContext
    <3>2. first \in OpenPeriods(b) /\ last \in OpenPeriods(b)
      BY <1>1, LastOfFact
    <3>3. p = IF d < b.periods[first].start THEN first ELSE last
      BY DEF Stretched
    <3>4. p \in OpenPeriods(b)
      BY <3>2, <3>3
    <3>5. /\ start = IF d < b.periods[p].start THEN d ELSE b.periods[p].start
          /\ end = IF d > b.periods[p].end THEN d ELSE b.periods[p].end
      BY DEF Stretched
    <3>6. c = Rebooked(b, p, start, end)
      BY <2>2 DEF InContext, Rebooked
    <3>7. ~Overlaps(b, p, start, end)
      BY <3>1 DEF MustStretch
    <3> HIDE DEF c, first, last, p, start, end
    <3>8. /\ b.periods[p].start \in Dates /\ b.periods[p].end \in Dates
          /\ b.periods[p].start <= b.periods[p].end
      BY <1>1, <3>4, PeriodFact DEF Sound, Calendar, Dates
    <3>9. start \in Dates /\ end \in Dates /\ start <= end /\ start <= d /\ d <= end
          /\ start <= b.periods[p].start /\ b.periods[p].end <= end
      BY <3>5, <3>8 DEF Dates
    <3>10. ASSUME NEW q \in Frozen(b) PROVE b.periods[q].end < start
      <4>1. /\ b.periods[q].start \in Int /\ b.periods[q].end \in Int /\ q # p
            /\ b.periods[q].start <= b.periods[q].end /\ b.periods[q].end < b.periods[p].start
        BY <1>1, <3>4, PeriodFact DEF Frozen, Sound, Calendar
      <4>2. ~(b.periods[q].start <= end /\ b.periods[q].end >= start)
        BY <3>7, <4>1 DEF Overlaps, Frozen
      <4> QED BY <3>8, <3>9, <4>1, <4>2 DEF Dates
    <3>11. ASSUME NEW j \in JournalsIn(b, p)
           PROVE  start <= b.journals[j].date /\ b.journals[j].date <= end
      <4>1. /\ b.periods[p].start <= b.journals[j].date /\ b.journals[j].date <= b.periods[p].end
            /\ b.journals[j].date \in Dates
        BY DEF JournalsIn, Sound, Dating, Within, Rows, JournalRow
      <4> QED BY <3>8, <3>9, <4>1 DEF Dates
    <3>12. /\ Sound(c) /\ Later(b, c) /\ OpenPeriods(c) = OpenPeriods(b)
           /\ DOMAIN c.periods = DOMAIN b.periods /\ c = [b EXCEPT !.periods = c.periods]
           /\ c.periods[p].start = start /\ c.periods[p].end = end
      BY <3>4, <3>6, <3>7, <3>9, <3>10, <3>11, RebookedFact
    <3>13. p \in OpenOn(c, d)
      BY <3>4, <3>9, <3>12 DEF OpenOn, Within
    <3> QED BY <3>12, <3>13
  <2> QED BY <2>1, <2>2
<1>3. ContextPeriod(b, d) \in OpenOn(c, d)
  <2>1. Rows(c) /\ OpenOn(c, d) \subseteq DOMAIN c.periods
    BY <1>2 DEF Sound, OpenOn, OpenPeriods
  <2> HIDE DEF c
  <2>2. LastOf(c, OpenOn(c, d)) \in OpenOn(c, d)
    BY <1>2, <2>1, LastOfFact
  <2> QED BY <2>2 DEF ContextPeriod, c
<1> QED BY <1>2, <1>3 DEF OpenOn

\* Where a correction goes is an open period that holds its date.
LEMMA TargetFact ==
  ASSUME NEW b, Sound(b), NEW p \in DOMAIN b.periods, NEW d \in Dates, NEW today \in Dates
  PROVE  /\ Target(b, p, d, today).period \in OpenPeriods(b)
         /\ Target(b, p, d, today).date \in Dates
         /\ Within(b.periods[Target(b, p, d, today).period], Target(b, p, d, today).date)
<1> DEFINE qs == IF OpenOn(b, today) # {} THEN OpenOn(b, today) ELSE OpenPeriods(b)
           q == LastOf(b, qs)
<1>1. Rows(b) /\ qs \subseteq OpenPeriods(b) /\ OpenPeriods(b) \subseteq DOMAIN b.periods /\ qs # {}
  BY DEF Sound, Calendar, OpenOn, OpenPeriods
<1>2. CASE b.periods[p].open /\ Within(b.periods[p], d)
  BY <1>2 DEF Target, OpenPeriods
<1>3. CASE ~(b.periods[p].open /\ Within(b.periods[p], d))
  <2>1. Target(b, p, d, today) = [period |-> q, date |-> Clamp(b.periods[q], today)]
    BY <1>3 DEF Target
  <2> HIDE DEF qs
  <2>2. q \in qs
    BY <1>1, LastOfFact
  <2> HIDE DEF q
  <2>3. /\ b.periods[q].start \in Dates /\ b.periods[q].end \in Dates
        /\ b.periods[q].start <= b.periods[q].end
    BY <1>1, <2>2, PeriodFact DEF Sound, Calendar, Dates
  <2>4. Clamp(b.periods[q], today) \in Dates /\ Within(b.periods[q], Clamp(b.periods[q], today))
    BY <2>3 DEF Clamp, Within, Dates
  <2> QED BY <1>1, <2>1, <2>2, <2>4
<1> QED BY <1>2, <1>3

-----------------------------------------------------------------------------
(* Adding rows *)

\* Changes of stock, capital and closes, and of allocations and counts whose
\* references are to rows, leave a book sound.
Beside(b, c) ==
  /\ BookRecord(c) /\ c.periods = b.periods /\ c.sources = b.sources /\ c.journals = b.journals
  /\ \A r \in c.allocs : AllocRow(b, r)
  /\ \A n \in c.counts : n.period \in DOMAIN b.periods

LEMMA BesideFact ==
  ASSUME NEW b, NEW c, Sound(b), Beside(b, c) PROVE Sound(c) /\ Later(b, c)
<1>1. Rows(c)
  BY DEF Sound, Rows, Beside, SourceRow, JournalRow, AllocRow, Live
<1>2. OpenPeriods(c) = OpenPeriods(b)
  BY DEF Beside, OpenPeriods
<1>3. Calendar(c) /\ Dating(c)
  BY <1>2 DEF Sound, Calendar, Dating, Beside
<1>4. Answered(c) /\ OpeningOnce(c)
  BY SameAnswers DEF Beside
<1>5. Later(b, c)
  BY <1>2 DEF Later, Frozen, Beside
<1> QED BY <1>1, <1>3, <1>4, <1>5 DEF Sound

\* A new document has no journal yet.
WithSource(b, doc) == [b EXCEPT !.sources = Append(@, doc)]

LEMMA AddedSource ==
  ASSUME NEW b, Sound(b), NEW doc, SourceRow(b, doc),
         doc.type = "opening_balance" => doc.of # 0 \/ Opening(b) = {},
         NEW c, c = WithSource(b, doc)
  PROVE  /\ Sound(c) /\ Later(b, c) /\ OpenPeriods(c) = OpenPeriods(b)
         /\ c = [b EXCEPT !.sources = c.sources] /\ Len(c.sources) = Len(b.sources) + 1
         /\ c.sources[Len(b.sources) + 1] = doc /\ IsSeq(c.sources)
         /\ \A s \in DOMAIN b.sources : c.sources[s] = b.sources[s]
<1> DEFINE n == Len(b.sources)
<1>1. Rows(b) /\ BookRecord(b) /\ IsSeq(b.sources)
  BY DEF Sound, Rows
<1>2. /\ c.sources = Append(b.sources, doc) /\ c.periods = b.periods /\ c.journals = b.journals
      /\ c.allocs = b.allocs /\ c.counts = b.counts /\ BookRecord(c)
      /\ c = [b EXCEPT !.sources = c.sources]
  BY <1>1 DEF BookRecord, WithSource
<1>3. /\ IsSeq(c.sources) /\ Len(c.sources) = n + 1 /\ DOMAIN c.sources = 1 .. n + 1
      /\ DOMAIN b.sources = 1 .. n /\ n \in Nat /\ c.sources[n + 1] = doc
      /\ \A s \in 1 .. n : c.sources[s] = b.sources[s]
  BY <1>1, <1>2, AppendFact, SeqFact
<1> HIDE DEF n
<1>4. Rows(c)
  <2>1. 0 .. n \subseteq 0 .. n + 1 /\ 1 .. n \subseteq 1 .. n + 1
    BY <1>3
  <2>2. \A e : SourceRow(b, e) => SourceRow(c, e)
    BY <1>3, <2>1 DEF SourceRow, n
  <2>3. \A s \in DOMAIN c.sources : SourceRow(c, c.sources[s])
    <3> SUFFICES ASSUME NEW s \in 1 .. n + 1 PROVE SourceRow(c, c.sources[s])
      BY <1>3
    <3>1. CASE s = n + 1
      BY <1>3, <2>2, <3>1
    <3>2. CASE s \in 1 .. n
      BY <1>1, <1>3, <2>2, <3>2 DEF Rows
    <3> QED BY <1>3, <3>1, <3>2
  <2>4. \A j : JournalRow(b, j) => JournalRow(c, j)
    BY <1>2, <1>3, <2>1 DEF JournalRow, n
  <2>5. \A r : AllocRow(b, r) => AllocRow(c, r)
    BY <1>2, <1>3, <2>1 DEF AllocRow, Live
  <2> QED BY <1>1, <1>2, <1>3, <2>3, <2>4, <2>5 DEF Rows
<1>5. OpenPeriods(c) = OpenPeriods(b)
  BY <1>2 DEF OpenPeriods
<1>6. Calendar(c) /\ Dating(c)
  BY <1>2, <1>5 DEF Sound, Calendar, Dating
<1>7. \A j \in DOMAIN b.journals : Undone(c, j) <=> Undone(b, j)
  <2> SUFFICES ASSUME NEW j \in DOMAIN b.journals PROVE Undone(c, j) <=> Undone(b, j)
    OBVIOUS
  <2>1. b.journals[j].source \in 0 .. n
    BY <1>1 DEF Rows, JournalRow, n
  <2> QED BY <1>2, <1>3, <2>1 DEF Undone
<1>8. Answered(c)
  <2>1. \A k \in DOMAIN b.journals :
          b.journals[k].reversalOf # 0 => b.journals[k].reversalOf \in DOMAIN b.journals
    BY <1>1, JournalFact
  <2>2. Answered(b)
    BY DEF Sound
  <2>3. ASSUME NEW k \in DOMAIN b.journals, b.journals[k].reversalOf # 0
        PROVE  /\ Undone(c, b.journals[k].reversalOf)
               /\ b.journals[k].lines = Opposite(b.journals[b.journals[k].reversalOf].lines)
    <3>1. PICK j \in DOMAIN b.journals : j = b.journals[k].reversalOf
      BY <2>1, <2>3
    <3>2. Undone(b, j) /\ b.journals[k].lines = Opposite(b.journals[j].lines)
      BY <2>2, <2>3, <3>1 DEF Answered
    <3> QED BY <1>7, <3>1, <3>2
  <2>4. \A j \in DOMAIN b.journals :
          Undone(c, j) => \E k \in DOMAIN b.journals : b.journals[k].reversalOf = j
    BY <1>7, <2>2 DEF Answered
  <2>5. \A k, l \in DOMAIN b.journals :
       b.journals[k].reversalOf # 0 /\ b.journals[k].reversalOf = b.journals[l].reversalOf => k = l
    BY <2>2 DEF Answered
  <2>6. c.journals = b.journals
    BY <1>2
  <2>7. \A k \in DOMAIN c.journals : c.journals[k].reversalOf # 0 =>
          /\ Undone(c, c.journals[k].reversalOf)
          /\ c.journals[k].lines = Opposite(c.journals[c.journals[k].reversalOf].lines)
    BY <2>3, <2>6
  <2>8. /\ \A j \in DOMAIN c.journals :
             Undone(c, j) => \E k \in DOMAIN c.journals : c.journals[k].reversalOf = j
        /\ \A k, l \in DOMAIN c.journals :
             c.journals[k].reversalOf # 0 /\ c.journals[k].reversalOf = c.journals[l].reversalOf => k = l
    BY <2>4, <2>5, <2>6
  <2> QED BY <2>7, <2>8 DEF Answered
<1>9. OpeningOnce(c)
  <2>1. \A s \in Opening(c) : s \in Opening(b) \/ (s = n + 1 /\ doc.type = "opening_balance" /\ doc.of = 0)
    BY <1>3 DEF Opening, Live
  <2> QED BY <2>1 DEF Sound, OpeningOnce
<1>10. Later(b, c)
  BY <1>2, <1>5 DEF Later, Frozen
<1> QED BY <1>2, <1>3, <1>4, <1>5, <1>6, <1>8, <1>9, <1>10 DEF Sound, n

\* What may be posted: in an open period that holds its date, of a document in
\* force or of none.
Postable(b, j) ==
  /\ JournalRow(b, j) /\ j.reversalOf = 0
  /\ j.period \in OpenPeriods(b) /\ Within(b.periods[j.period], j.date)
  /\ j.source # 0 => ~b.sources[j.source].reversed

LEMMA WriteFact ==
  ASSUME NEW b, Sound(b), NEW js, IsSeq(js), \A i \in DOMAIN js : Postable(b, js[i])
  PROVE  /\ Sound(Write(b, js)) /\ Later(b, Write(b, js))
         /\ Write(b, js) = [b EXCEPT !.journals = b.journals \o js]
<1> DEFINE c == Write(b, js)
           n == Len(b.journals)
           m == Len(js)
<1>1. Rows(b) /\ BookRecord(b) /\ IsSeq(b.journals)
  BY DEF Sound, Rows
<1>2. /\ c.sources = b.sources /\ c.periods = b.periods /\ c.journals = b.journals \o js
      /\ c.allocs = b.allocs /\ c.counts = b.counts /\ BookRecord(c)
      /\ c = [b EXCEPT !.journals = b.journals \o js]
  <2>1. c = [b EXCEPT !.journals = b.journals \o js]
    BY DEF Write
  <2> HIDE DEF c
  <2> QED BY <1>1, <2>1 DEF BookRecord
<1>3. /\ IsSeq(c.journals) /\ Len(c.journals) = n + m /\ DOMAIN c.journals = 1 .. n + m
      /\ DOMAIN b.journals = 1 .. n /\ n \in Nat /\ m \in Nat /\ DOMAIN js = 1 .. m
      /\ \A j \in 1 .. n : c.journals[j] = b.journals[j]
      /\ \A i \in 1 .. m : c.journals[n + i] = js[i]
  BY <1>1, <1>2, ConcatFact, SeqFact
<1> HIDE DEF c, n, m
<1>4. \A j \in 1 .. n + m : j \in 1 .. n \/ (j - n \in 1 .. m /\ j = n + (j - n))
  BY <1>3
<1>5. \A j \in 1 .. n + m : \/ j \in 1 .. n /\ c.journals[j] = b.journals[j]
                            \/ j \notin 1 .. n /\ Postable(b, c.journals[j])
  <2> SUFFICES ASSUME NEW j \in 1 .. n + m, j \notin 1 .. n PROVE Postable(b, c.journals[j])
    BY <1>3
  <2>1. PICK i \in 1 .. m : j = n + i
    BY <1>4
  <2> QED BY <1>3, <2>1
<1>6. 1 .. n \subseteq 1 .. n + m /\ 0 .. n \subseteq 0 .. n + m
  BY <1>3
<1>7. Rows(c)
  <2>1. \A j : JournalRow(b, j) => JournalRow(c, j)
    BY <1>2, <1>3, <1>6 DEF JournalRow, n
  <2>2. \A j \in DOMAIN c.journals : JournalRow(c, c.journals[j])
    BY <1>1, <1>3, <1>5, <2>1 DEF Rows, Postable
  <2>3. \A s \in DOMAIN c.sources : SourceRow(c, c.sources[s])
    BY <1>1, <1>2 DEF Rows, SourceRow
  <2>4. \A r \in c.allocs : AllocRow(c, r)
    BY <1>1, <1>2 DEF Rows, AllocRow, Live
  <2> QED BY <1>1, <1>2, <1>3, <2>2, <2>3, <2>4 DEF Rows
<1>8. OpenPeriods(c) = OpenPeriods(b)
  BY <1>2 DEF OpenPeriods
<1>9. Calendar(c)
  BY <1>2, <1>8 DEF Sound, Calendar
<1>10. Dating(c)
  BY <1>2, <1>3, <1>5 DEF Sound, Dating, Postable
<1>11. Answered(c)
  <2>0. Answered(b)
    BY DEF Sound
  <2>1. \A k \in 1 .. n : b.journals[k].reversalOf # 0 => b.journals[k].reversalOf \in 1 .. n
    BY <1>1, <1>3, JournalFact
  <2>2. \A j \in 1 .. n : Undone(c, j) <=> Undone(b, j)
    BY <1>2, <1>3 DEF Undone
  <2>3. \A j \in 1 .. n + m : j \notin 1 .. n => ~Undone(c, j) /\ c.journals[j].reversalOf = 0
    BY <1>2, <1>5 DEF Undone, Postable
  <2>4. \A k \in 1 .. n + m : c.journals[k].reversalOf # 0 =>
          k \in 1 .. n /\ c.journals[k] = b.journals[k]
    BY <1>5, <2>3
  <2>5. ASSUME NEW k \in 1 .. n + m, c.journals[k].reversalOf # 0
        PROVE  /\ Undone(c, c.journals[k].reversalOf)
               /\ c.journals[k].lines = Opposite(c.journals[c.journals[k].reversalOf].lines)
    <3>1. PICK j \in 1 .. n : j = b.journals[k].reversalOf
      BY <2>1, <2>4, <2>5
    <3>2. k \in 1 .. n /\ c.journals[k] = b.journals[k] /\ c.journals[j] = b.journals[j]
      BY <1>3, <2>4, <2>5
    <3>3. Undone(b, j) /\ b.journals[k].lines = Opposite(b.journals[j].lines)
      BY <1>3, <2>0, <2>5, <3>1, <3>2 DEF Answered
    <3> QED BY <2>2, <3>1, <3>2, <3>3
  <2>6. \A k, l \in 1 .. n + m :
          c.journals[k].reversalOf # 0 /\ c.journals[k].reversalOf = c.journals[l].reversalOf => k = l
    <3>1. \A k, l \in 1 .. n :
            b.journals[k].reversalOf # 0 /\ b.journals[k].reversalOf = b.journals[l].reversalOf => k = l
      BY <1>3, <2>0 DEF Answered
    <3> QED BY <2>4, <3>1
  <2>7. \A j \in 1 .. n + m : Undone(c, j) => \E k \in 1 .. n + m : c.journals[k].reversalOf = j
    BY <1>3, <1>6, <2>0, <2>2, <2>3 DEF Answered
  <2> QED BY <1>3, <2>5, <2>6, <2>7 DEF Answered
<1>12. OpeningOnce(c)
  BY <1>2 DEF Sound, OpeningOnce, Opening, Live
<1>13. Later(b, c)
  BY <1>2, <1>3, <1>5, <1>6, <1>8 DEF Later, Frozen, Postable
<1> QED BY <1>2, <1>7, <1>9, <1>10, <1>11, <1>12, <1>13 DEF Sound, c

-----------------------------------------------------------------------------
(* Taking a document back *)

LEMMA FunctionSeq ==
  ASSUME NEW n \in Nat, NEW f, f = [i \in 1 .. n |-> f[i]]
  PROVE  IsSeq(f) /\ Len(f) = n /\ DOMAIN f = 1 .. n
<1>1. f \in [1 .. n -> Range(f)]
  BY DEF Range
<1>2. f \in Seq(Range(f))
  BY <1>1, SeqDef
<1>3. DOMAIN f = 1 .. Len(f) /\ DOMAIN f = 1 .. n /\ Len(f) \in Nat
  BY <1>1, <1>2, LenProperties
<1> QED BY <1>2, <1>3 DEF IsSeq

LEMMA ExceptFact ==
  ASSUME NEW q, IsSeq(q), NEW i \in DOMAIN q, NEW e, NEW r, r = [q EXCEPT ![i] = e]
  PROVE  /\ IsSeq(r) /\ Len(r) = Len(q) /\ DOMAIN r = DOMAIN q
         /\ r[i] = e /\ \A j \in DOMAIN q \ {i} : r[j] = q[j]
<1> DEFINE T == Range(q) \cup {e}
<1>1. q \in Seq(T) /\ e \in T /\ DOMAIN q = 1 .. Len(q)
  BY SeqFact DEF IsSeq
<1> HIDE DEF T
<1>2. /\ r \in Seq(T) /\ Len(r) = Len(q)
      /\ \A j \in 1 .. Len(q) : r[j] = IF j = i THEN e ELSE q[j]
  BY <1>1, ExceptSeq
<1>3. DOMAIN r = 1 .. Len(r)
  BY <1>2, LenProperties
<1> QED BY <1>1, <1>2, <1>3, InRange

\* A finite set, put into a sequence, once each.
LEMMA FiniteToSeq ==
  ASSUME NEW S, IsFiniteSet(S)
  PROVE  /\ IsSeq(SetToSeq(S))
         /\ \A i \in DOMAIN SetToSeq(S) : SetToSeq(S)[i] \in S
         /\ \A i, k \in DOMAIN SetToSeq(S) : SetToSeq(S)[i] = SetToSeq(S)[k] => i = k
         /\ \A x \in S : \E i \in DOMAIN SetToSeq(S) : SetToSeq(S)[i] = x
<1> DEFINE m == Cardinality(S)
           f == SetToSeq(S)
<1>1. m \in Nat /\ ExistsBijection(1 .. m, S)
  BY FS_CardinalityType
<1>2. \E g \in [1 .. m -> S] : IsInjective(g)
  <2>1. PICK g : g \in Bijection(1 .. m, S)
    BY <1>1 DEF ExistsBijection
  <2> QED BY <2>1 DEF Bijection, Injection
<1>3. f \in [1 .. m -> S] /\ IsInjective(f)
  BY <1>2 DEF SetToSeq
<1> HIDE DEF m, f
<1>4. f \in Injection(1 .. m, S)
  BY <1>3 DEF Injection
<1>5. IsFiniteSet(1 .. m) /\ Cardinality(1 .. m) = m
  BY <1>1, FS_Interval
<1>6. f \in Surjection(1 .. m, S)
  BY <1>1, <1>4, <1>5, FS_Injection DEF m
<1>7. \A x \in S : \E i \in 1 .. m : f[i] = x
  BY <1>6 DEF Surjection
<1>8. IsSeq(f) /\ DOMAIN f = 1 .. m
  BY <1>1, <1>3, FunctionSeq
<1>9. \A i, k \in 1 .. m : f[i] = f[k] => i = k
  BY <1>3, <1>8 DEF IsInjective
<1> QED BY <1>3, <1>7, <1>8, <1>9 DEF f

LEMMA SetToSeqFact ==
  ASSUME NEW n \in Nat, NEW S, S \subseteq 1 .. n
  PROVE  /\ IsSeq(SetToSeq(S))
         /\ \A i \in DOMAIN SetToSeq(S) : SetToSeq(S)[i] \in S
         /\ \A i, k \in DOMAIN SetToSeq(S) : SetToSeq(S)[i] = SetToSeq(S)[k] => i = k
         /\ \A x \in S : \E i \in DOMAIN SetToSeq(S) : SetToSeq(S)[i] = x
<1>1. IsFiniteSet(1 .. n)
  BY FS_Interval
<1>2. IsFiniteSet(S)
  BY <1>1, FS_Subset
<1> QED BY <1>2, FiniteToSeq

\* The rows of a reversal.
LEMMA ReversalFact ==
  ASSUME NEW b, Sound(b), NEW s \in DOMAIN b.sources, NEW j \in JournalsOf(b, s), NEW today \in Dates,
         NEW i \in Nat
  PROVE  LET r == Reversal(b, s, j, i, today)
             q == ReversalSource(b, s, j, today)
         IN /\ r = [period |-> r.period, source |-> r.source, date |-> r.date, lines |-> r.lines,
                    reversalOf |-> r.reversalOf]
            /\ r.period \in OpenPeriods(b) /\ r.date \in Dates /\ Within(b.periods[r.period], r.date)
            /\ r.source = Len(b.sources) + i /\ r.reversalOf = j
            /\ r.lines = Opposite(b.journals[j].lines)
            /\ SourceRow(b, q) /\ q.of = s /\ q.reversed = b.sources[s].reversed
<1> DEFINE t == ReversalDate(b, s, j, today)
           r == Reversal(b, s, j, i, today)
           q == ReversalSource(b, s, j, today)
<1>1. /\ Rows(b) /\ j \in DOMAIN b.journals /\ SourceRow(b, b.sources[s])
      /\ b.sources[s].date \in Dates /\ b.journals[j].period \in DOMAIN b.periods
  BY JournalFact DEF Sound, Rows, SourceRow, JournalsOf
<1>2. t.period \in OpenPeriods(b) /\ t.date \in Dates /\ Within(b.periods[t.period], t.date)
  BY <1>1, TargetFact DEF ReversalDate
<1>3. r = [period |-> t.period, source |-> Len(b.sources) + i, date |-> t.date,
           lines |-> Opposite(b.journals[j].lines), reversalOf |-> j]
  BY DEF Reversal, Journal
<1>4. q = [b.sources[s] EXCEPT !.of = s, !.date = t.date, !.link = 0, !.party = "none"]
  BY DEF ReversalSource
<1>5. s \in 0 .. Len(b.sources) /\ 0 \in 0 .. Len(b.sources)
  BY <1>1, SeqFact DEF Rows
<1> HIDE DEF t, r, q
<1>6. SourceRow(b, q) /\ q.of = s /\ q.reversed = b.sources[s].reversed
  BY <1>1, <1>2, <1>4, <1>5 DEF SourceRow
<1> QED BY <1>2, <1>3, <1>6 DEF r, q

LEMMA ReversedFact ==
  ASSUME NEW b, Sound(b), NEW s \in Live(b, SourceTypes), NEW today \in Dates,
         \A r \in b.allocs : r.receipt # s,
         NEW c, c = Reversed(b, s, today)
  PROVE  /\ Sound(c) /\ Later(b, c) /\ Opening(c) \subseteq Opening(b) \ {s}
         /\ c.periods = b.periods /\ c.allocs = b.allocs /\ c.counts = b.counts
         /\ Len(b.sources) <= Len(c.sources)
         /\ \A q \in DOMAIN b.sources : /\ q \in DOMAIN c.sources
                                        /\ c.sources[q].type = b.sources[q].type
                                        /\ c.sources[q].link = b.sources[q].link
         /\ \A types : Live(b, types) \ {s} \subseteq Live(c, types)
<1> DEFINE js == SetToSeq(JournalsOf(b, s))
           n == Len(b.journals)
           l == Len(b.sources)
           m == Len(js)
           R == [i \in 1 .. m |-> Reversal(b, s, js[i], i, today)]
           Q == [i \in 1 .. m |-> ReversalSource(b, s, js[i], today)]
           taken == [b.sources EXCEPT ![s].reversed = TRUE]
<1>1. /\ Rows(b) /\ BookRecord(b) /\ IsSeq(b.sources) /\ IsSeq(b.journals)
      /\ s \in DOMAIN b.sources /\ ~b.sources[s].reversed /\ b.sources[s].of = 0
      /\ n \in Nat /\ DOMAIN b.journals = 1 .. n /\ l \in Nat /\ DOMAIN b.sources = 1 .. l
  BY SeqFact DEF Sound, Rows, Live
<1>2. c = [b EXCEPT !.journals = b.journals \o R, !.sources = taken \o Q]
  BY DEF Reversed
<1>3. /\ IsSeq(js) /\ m \in Nat /\ DOMAIN js = 1 .. m
      /\ \A i \in 1 .. m : js[i] \in JournalsOf(b, s)
      /\ \A i, k \in 1 .. m : js[i] = js[k] => i = k
      /\ \A j \in JournalsOf(b, s) : \E i \in 1 .. m : js[i] = j
  <2>1. JournalsOf(b, s) \subseteq 1 .. n
    BY <1>1 DEF JournalsOf
  <2> QED BY <1>1, <2>1, SetToSeqFact, SeqFact
<1>4. IsSeq(R) /\ Len(R) = m /\ DOMAIN R = 1 .. m /\ IsSeq(Q) /\ Len(Q) = m /\ DOMAIN Q = 1 .. m
  <2>1. R = [i \in 1 .. m |-> R[i]] /\ Q = [i \in 1 .. m |-> Q[i]]
    OBVIOUS
  <2> HIDE DEF R, Q, m
  <2> QED BY <1>3, <2>1, FunctionSeq
<1>5. ASSUME NEW i \in 1 .. m
      PROVE  /\ R[i] = [period |-> R[i].period, source |-> R[i].source, date |-> R[i].date,
                        lines |-> R[i].lines, reversalOf |-> R[i].reversalOf]
             /\ R[i].period \in OpenPeriods(b) /\ R[i].date \in Dates
             /\ Within(b.periods[R[i].period], R[i].date)
             /\ R[i].source = l + i /\ R[i].reversalOf = js[i]
             /\ R[i].lines = Opposite(b.journals[js[i]].lines)
             /\ SourceRow(b, Q[i]) /\ Q[i].of = s /\ ~Q[i].reversed
  <2>1. R[i] = Reversal(b, s, js[i], i, today) /\ Q[i] = ReversalSource(b, s, js[i], today)
    OBVIOUS
  <2>2. js[i] \in JournalsOf(b, s) /\ i \in Nat
    BY <1>3
  <2> HIDE DEF R, Q, js, m
  <2> QED BY <1>1, <2>1, <2>2, ReversalFact
<1> HIDE DEF js, n, l, m, R, Q
<1>6. /\ IsSeq(taken) /\ Len(taken) = l /\ DOMAIN taken = 1 .. l
      /\ taken[s] = [b.sources[s] EXCEPT !.reversed = TRUE]
      /\ \A q \in 1 .. l \ {s} : taken[q] = b.sources[q]
  <2>1. taken = [b.sources EXCEPT ![s] = [b.sources[s] EXCEPT !.reversed = TRUE]]
    OBVIOUS
  <2> HIDE DEF taken
  <2> QED BY <1>1, <2>1, ExceptFact DEF l
<1>7. ASSUME NEW q \in 1 .. l
      PROVE  /\ SourceRow(b, taken[q]) /\ taken[q].type = b.sources[q].type
             /\ taken[q].link = b.sources[q].link /\ taken[q].of = b.sources[q].of
             /\ taken[q].reversed <=> q = s \/ b.sources[q].reversed
  <2>1. SourceRow(b, b.sources[q])
    BY <1>1 DEF Rows
  <2>2. CASE q # s
    BY <1>6, <2>1, <2>2
  <2>3. CASE q = s
    <3> HIDE DEF taken
    <3> QED BY <1>6, <2>1, <2>3 DEF SourceRow
  <2> QED BY <2>2, <2>3
<1> HIDE DEF taken
<1>8. /\ c.journals = b.journals \o R /\ c.sources = taken \o Q /\ BookRecord(c)
      /\ c.periods = b.periods /\ c.allocs = b.allocs /\ c.counts = b.counts
  BY <1>1, <1>2 DEF BookRecord
<1>9. /\ IsSeq(c.sources) /\ Len(c.sources) = l + m /\ DOMAIN c.sources = 1 .. l + m
      /\ \A q \in 1 .. l : c.sources[q] = taken[q]
      /\ \A i \in 1 .. m : c.sources[l + i] = Q[i]
      /\ IsSeq(c.journals) /\ Len(c.journals) = n + m /\ DOMAIN c.journals = 1 .. n + m
      /\ \A j \in 1 .. n : c.journals[j] = b.journals[j]
      /\ \A i \in 1 .. m : c.journals[n + i] = R[i]
  <2>1. /\ IsSeq(taken \o Q) /\ Len(taken \o Q) = l + m /\ DOMAIN (taken \o Q) = 1 .. l + m
        /\ \A q \in 1 .. l : (taken \o Q)[q] = taken[q]
        /\ \A i \in 1 .. m : (taken \o Q)[l + i] = Q[i]
    <3>1. /\ IsSeq(taken) /\ Len(taken) = l /\ IsSeq(Q) /\ Len(Q) = m
      BY <1>4, <1>6
    <3> QED BY <3>1, ConcatFact
  <2>2. /\ IsSeq(b.journals \o R) /\ Len(b.journals \o R) = n + m /\ DOMAIN (b.journals \o R) = 1 .. n + m
        /\ \A j \in 1 .. n : (b.journals \o R)[j] = b.journals[j]
        /\ \A i \in 1 .. m : (b.journals \o R)[n + i] = R[i]
    <3> DEFINE J == b.journals
    <3>1. IsSeq(J) /\ Len(J) = n /\ IsSeq(R) /\ Len(R) = m
      BY <1>1, <1>4 DEF n
    <3> HIDE DEF J
    <3>2. /\ IsSeq(J \o R) /\ Len(J \o R) = n + m /\ DOMAIN (J \o R) = 1 .. n + m
          /\ \A j \in 1 .. n : (J \o R)[j] = J[j]
          /\ \A i \in 1 .. m : (J \o R)[n + i] = R[i]
      BY <3>1, ConcatFact
    <3> QED BY <3>2 DEF J
  <2> QED BY <1>8, <2>1, <2>2
<1>10. /\ \A j \in 1 .. n + m : j \in 1 .. n \/ \E i \in 1 .. m : j = n + i
       /\ \A q \in 1 .. l + m : q \in 1 .. l \/ \E i \in 1 .. m : q = l + i
       /\ \A i \in 1 .. m : n + i \in 1 .. n + m /\ l + i \in 1 .. l + m /\ n + i \notin 1 .. n /\ l + i \notin 1 .. l
       /\ 1 .. n \subseteq 1 .. n + m /\ 1 .. l \subseteq 1 .. l + m
       /\ 0 .. n \subseteq 0 .. n + m /\ 0 .. l \subseteq 0 .. l + m
  <2>1. \A j \in 1 .. n + m : j \notin 1 .. n => j - n \in 1 .. m /\ j = n + (j - n)
    BY <1>1, <1>3
  <2>2. \A q \in 1 .. l + m : q \notin 1 .. l => q - l \in 1 .. m /\ q = l + (q - l)
    BY <1>1, <1>3
  <2> QED BY <1>1, <1>3, <2>1, <2>2
<1>11. OpenPeriods(c) = OpenPeriods(b) /\ OpenPeriods(b) \subseteq DOMAIN b.periods
  BY <1>8 DEF OpenPeriods
<1>12. ASSUME NEW types PROVE Live(b, types) \ {s} \subseteq Live(c, types)
  <2> SUFFICES ASSUME NEW q \in Live(b, types), q # s PROVE q \in Live(c, types)
    OBVIOUS
  <2>1. q \in 1 .. l /\ b.sources[q].type \in types /\ b.sources[q].of = 0 /\ ~b.sources[q].reversed
    BY <1>1 DEF Live
  <2>2. c.sources[q] = b.sources[q] /\ q \in DOMAIN c.sources
    BY <1>6, <1>9, <1>10, <2>1
  <2> QED BY <2>1, <2>2 DEF Live
<1>13. Rows(c)
  <2>1. \A e : SourceRow(b, e) => SourceRow(c, e)
    BY <1>9, <1>10 DEF SourceRow, l
  <2>2. \A q \in DOMAIN c.sources : SourceRow(c, c.sources[q])
    <3>1. \A q \in 1 .. l : SourceRow(c, c.sources[q])
      BY <1>7, <1>9, <2>1
    <3>2. \A i \in 1 .. m : SourceRow(c, c.sources[l + i])
      BY <1>5, <1>9, <2>1
    <3> QED BY <1>9, <1>10, <3>1, <3>2
  <2>3. \A j : JournalRow(b, j) => JournalRow(c, j)
    BY <1>8, <1>9, <1>10 DEF JournalRow, l, n
  <2>4. \A j \in 1 .. n : JournalRow(c, c.journals[j])
    BY <1>1, <1>9, <2>3 DEF Rows
  <2>5. ASSUME NEW i \in 1 .. m PROVE JournalRow(c, c.journals[n + i])
    <3>1. js[i] \in 0 .. n + m
      <4>1. js[i] \in 1 .. n
        BY <1>1, <1>3 DEF JournalsOf
      <4> QED BY <1>10, <4>1
    <3>2. l + i \in 0 .. l + m /\ R[i].period \in DOMAIN c.periods
      <4>1. R[i].period \in OpenPeriods(b)
        BY <1>5
      <4>2. R[i].period \in DOMAIN c.periods
        BY <1>8, <1>11, <4>1
      <4> QED BY <1>1, <1>3, <4>2
    <3> QED BY <1>5, <1>9, <3>1, <3>2 DEF JournalRow
  <2>6. \A j \in DOMAIN c.journals : JournalRow(c, c.journals[j])
    BY <1>9, <1>10, <2>4, <2>5
  <2>7. \A r \in b.allocs : AllocRow(c, r)
    <3>1. \A r \in b.allocs : AllocRow(b, r)
      BY <1>1 DEF Rows
    <3>2. ASSUME NEW r \in b.allocs PROVE AllocRow(c, r)
      <4>1. r.receipt \in Live(b, {"receipt"}) \ {s}
        BY <3>1 DEF AllocRow
      <4>2. r.receipt \in Live(c, {"receipt"})
        BY <1>12, <4>1
      <4>3. r.invoice \in DOMAIN c.sources
        BY <1>1, <1>9, <1>10, <3>1 DEF AllocRow
      <4> QED BY <3>1, <4>2, <4>3 DEF AllocRow
    <3> QED BY <3>2
  <2> QED BY <1>1, <1>8, <1>9, <2>2, <2>6, <2>7 DEF Rows
<1>14. Calendar(c)
  BY <1>8, <1>11 DEF Sound, Calendar
<1>15. Dating(c)
  <2>1. Dating(b)
    BY DEF Sound
  <2>2. \A j \in 1 .. n : Within(c.periods[c.journals[j].period], c.journals[j].date)
    BY <1>1, <1>8, <1>9, <2>1 DEF Dating
  <2>3. \A i \in 1 .. m : Within(c.periods[c.journals[n + i].period], c.journals[n + i].date)
    BY <1>5, <1>8, <1>9
  <2> QED BY <1>9, <1>10, <2>2, <2>3 DEF Dating
<1>16. Answered(c)
  <2>1. Answered(b)
    BY DEF Sound
  <2>2. ASSUME NEW j \in 1 .. n PROVE Undone(c, j) <=> j \in JournalsOf(b, s) \/ Undone(b, j)
    <3>1. b.journals[j].source # 0 => b.journals[j].source \in 1 .. l
      BY <1>1, JournalFact
    <3>2. s # 0
      BY <1>1
    <3>3. c.journals[j] = b.journals[j]
      BY <1>9
    <3>4. \A q \in 1 .. l : c.sources[q].reversed <=> q = s \/ b.sources[q].reversed
      BY <1>7, <1>9
    <3>5. CASE b.journals[j].source = 0
      BY <3>2, <3>3, <3>5 DEF Undone, JournalsOf
    <3>6. CASE b.journals[j].source \in 1 .. l
      <4>1. b.journals[j].source # 0
        BY <1>1, <3>6
      <4> QED BY <1>1, <3>3, <3>4, <3>6, <4>1 DEF Undone, JournalsOf
    <3> QED BY <3>1, <3>5, <3>6
  <2>3. ASSUME NEW i \in 1 .. m PROVE ~Undone(c, n + i)
    <3>1. c.journals[n + i] = R[i] /\ c.sources[l + i] = Q[i]
      BY <1>9
    <3>2. R[i].source = l + i /\ ~Q[i].reversed
      BY <1>5
    <3> QED BY <3>1, <3>2 DEF Undone
  <2>4. \A j \in JournalsOf(b, s) : j \in 1 .. n /\ ~Undone(b, j)
    BY <1>1 DEF Undone, JournalsOf
  <2>5. ASSUME NEW k \in 1 .. n + m, c.journals[k].reversalOf # 0
        PROVE  /\ Undone(c, c.journals[k].reversalOf)
               /\ c.journals[k].lines = Opposite(c.journals[c.journals[k].reversalOf].lines)
    <3>1. CASE k \in 1 .. n
      <4>1. PICK j \in 1 .. n : j = b.journals[k].reversalOf
        BY <1>1, <1>9, <2>5, <3>1, JournalFact
      <4>2. k \in DOMAIN b.journals /\ b.journals[k].reversalOf # 0
        BY <1>1, <1>9, <2>5, <3>1
      <4>3. Undone(b, j) /\ b.journals[k].lines = Opposite(b.journals[j].lines)
        BY <2>1, <4>1, <4>2 DEF Answered
      <4> QED BY <1>9, <2>2, <3>1, <4>1, <4>3
    <3>2. ASSUME NEW i \in 1 .. m, k = n + i PROVE
               /\ Undone(c, c.journals[k].reversalOf)
               /\ c.journals[k].lines = Opposite(c.journals[c.journals[k].reversalOf].lines)
      <4>1. js[i] \in JournalsOf(b, s) /\ js[i] \in 1 .. n
        BY <1>3, <2>4
      <4>2. c.journals[k] = R[i] /\ c.journals[js[i]] = b.journals[js[i]]
        BY <1>9, <3>2, <4>1
      <4>3. R[i].reversalOf = js[i] /\ R[i].lines = Opposite(b.journals[js[i]].lines)
        BY <1>5
      <4>4. Undone(c, js[i])
        BY <2>2, <4>1
      <4> QED BY <4>2, <4>3, <4>4
    <3> QED BY <1>10, <3>1, <3>2
  <2>6. ASSUME NEW k \in 1 .. n + m, NEW h \in 1 .. n + m, c.journals[k].reversalOf # 0,
               c.journals[k].reversalOf = c.journals[h].reversalOf
        PROVE  k = h
    <3>1. \A g \in 1 .. n : c.journals[g].reversalOf # 0 => Undone(b, c.journals[g].reversalOf)
      <4> SUFFICES ASSUME NEW g \in 1 .. n, c.journals[g].reversalOf # 0
                   PROVE  Undone(b, c.journals[g].reversalOf)
        OBVIOUS
      <4>1. c.journals[g] = b.journals[g] /\ g \in DOMAIN b.journals
        BY <1>1, <1>9
      <4> QED BY <2>1, <4>1 DEF Answered
    <3>2. \A i \in 1 .. m : c.journals[n + i].reversalOf = js[i] /\ ~Undone(b, js[i])
      <4> SUFFICES ASSUME NEW i \in 1 .. m
                   PROVE  c.journals[n + i].reversalOf = js[i] /\ ~Undone(b, js[i])
        OBVIOUS
      <4>1. c.journals[n + i] = R[i] /\ js[i] \in JournalsOf(b, s)
        BY <1>3, <1>9
      <4>2. R[i].reversalOf = js[i]
        BY <1>5
      <4> QED BY <2>4, <4>1, <4>2
    <3>3. CASE k \in 1 .. n /\ h \in 1 .. n
      <4>1. c.journals[k] = b.journals[k] /\ c.journals[h] = b.journals[h]
        BY <1>9, <3>3
      <4> QED BY <1>1, <2>1, <2>6, <3>3, <4>1 DEF Answered
    <3>4. CASE k \notin 1 .. n /\ h \notin 1 .. n
      <4>1. PICK i \in 1 .. m, g \in 1 .. m : k = n + i /\ h = n + g
        BY <1>10, <3>4
      <4>2. js[i] = js[g]
        BY <2>6, <3>2, <4>1
      <4> QED BY <1>3, <4>1, <4>2
    <3> QED BY <1>10, <2>6, <3>1, <3>2, <3>3, <3>4
  <2>7. ASSUME NEW j \in 1 .. n + m, Undone(c, j)
        PROVE  \E k \in 1 .. n + m : c.journals[k].reversalOf = j
    <3>1. j \in 1 .. n
      BY <1>10, <2>3, <2>7
    <3>2. CASE Undone(b, j)
      <4>1. PICK k \in 1 .. n : b.journals[k].reversalOf = j
        BY <1>1, <2>1, <3>1, <3>2 DEF Answered
      <4>2. c.journals[k] = b.journals[k]
        BY <1>9
      <4> QED BY <1>10, <4>1, <4>2
    <3>3. CASE j \in JournalsOf(b, s)
      <4>1. PICK i \in 1 .. m : js[i] = j
        BY <1>3, <3>3
      <4>2. c.journals[n + i] = R[i] /\ n + i \in 1 .. n + m
        BY <1>9, <1>10
      <4>3. R[i].reversalOf = j
        BY <1>5, <4>1
      <4> QED BY <4>2, <4>3
    <3> QED BY <2>2, <2>7, <3>1, <3>2, <3>3
  <2> QED BY <1>9, <2>5, <2>6, <2>7 DEF Answered
<1>17. Opening(c) \subseteq Opening(b) \ {s}
  <2>1. \A q \in 1 .. l : q \in Opening(c) => q \in Opening(b) \ {s}
    BY <1>1, <1>7, <1>9 DEF Opening, Live
  <2>2. ASSUME NEW i \in 1 .. m PROVE c.sources[l + i].of # 0
    <3>1. c.sources[l + i] = Q[i] /\ Q[i].of = s
      BY <1>5, <1>9
    <3> QED BY <1>1, <3>1
  <2> QED BY <1>9, <1>10, <2>1, <2>2 DEF Opening, Live
<1>18. OpeningOnce(c)
  BY <1>17 DEF Sound, OpeningOnce
<1>19. Later(b, c)
  <2>1. \A j \in 1 .. n : j \in 1 .. n + m /\ c.journals[j] = b.journals[j]
    BY <1>9, <1>10
  <2>2. \A i \in 1 .. m : c.journals[n + i].period \in OpenPeriods(b)
    BY <1>5, <1>9
  <2>3. \A j \in 1 .. n + m : j \notin 1 .. n => c.journals[j].period \notin Frozen(b)
    BY <1>10, <2>2 DEF Frozen
  <2> QED BY <1>1, <1>8, <1>9, <1>11, <2>1, <2>3 DEF Later, Frozen
<1>20. Len(b.sources) <= Len(c.sources)
  BY <1>1, <1>3, <1>9 DEF l
<1>21. \A q \in DOMAIN b.sources : /\ q \in DOMAIN c.sources
                                    /\ c.sources[q].type = b.sources[q].type
                                    /\ c.sources[q].link = b.sources[q].link
  BY <1>1, <1>7, <1>9, <1>10
<1>22. Sound(c)
  BY <1>13, <1>14, <1>15, <1>16, <1>18 DEF Sound
<1> QED BY <1>8, <1>12, <1>17, <1>19, <1>20, <1>21, <1>22

\* Deleting a document: its allocations are dropped, and it is reversed.
LEMMA ReverseSourceFact ==
  ASSUME NEW b, Sound(b), NEW s \in Live(b, SourceTypes), NEW today \in Dates,
         NEW c, c = ReverseSource(b, s, today)
  PROVE  /\ Sound(c) /\ Later(b, c) /\ Opening(c) \subseteq Opening(b) \ {s}
         /\ c.periods = b.periods /\ c.allocs \subseteq b.allocs
         /\ Len(b.sources) <= Len(c.sources)
         /\ \A q \in DOMAIN b.sources : q \in DOMAIN c.sources /\ c.sources[q].type = b.sources[q].type
         /\ \A types : Live(b, types) \ {s} \subseteq Live(c, types)
<1> DEFINE d == DropRows(b, s)
<1>1. c = Reversed(d, s, today)
  BY DEF ReverseSource, ReverseMoves
<1>2. BookRecord(b) /\ \A r \in b.allocs : AllocRow(b, r)
  BY DEF Sound, Rows
<1>3. /\ BookRecord(d) /\ d.allocs \subseteq b.allocs /\ d.sources = b.sources
      /\ d.journals = b.journals /\ d.periods = b.periods /\ d.counts = b.counts
  <2>1. d = b \/ \E rows : rows \subseteq b.allocs /\ d = [b EXCEPT !.allocs = rows]
    <3>1. b.allocs \ AdvanceRows(b, s) \subseteq b.allocs /\ {r \in b.allocs : r.receipt # s} \subseteq b.allocs
      OBVIOUS
    <3> QED BY <3>1 DEF DropRows
  <2> HIDE DEF d
  <2>2. ASSUME NEW rows, rows \subseteq b.allocs, d = [b EXCEPT !.allocs = rows]
        PROVE  /\ BookRecord(d) /\ d.allocs \subseteq b.allocs /\ d.sources = b.sources
               /\ d.journals = b.journals /\ d.periods = b.periods /\ d.counts = b.counts
    BY <1>2, <2>2 DEF BookRecord
  <2> QED BY <1>2, <2>1, <2>2
<1>4. \A r \in d.allocs : r.receipt # s
  <2>1. CASE b.sources[s].type = "receipt"
    <3>1. d = [b EXCEPT !.allocs = {r \in b.allocs : r.receipt # s}]
      BY <2>1 DEF DropRows
    <3>2. d.allocs = {r \in b.allocs : r.receipt # s}
      BY <1>2, <3>1 DEF BookRecord
    <3> QED BY <3>2
  <2>2. CASE b.sources[s].type # "receipt"
    <3> HIDE DEF d
    <3> QED BY <1>2, <1>3, <2>2 DEF AllocRow, Live
  <2> QED BY <2>1, <2>2
<1> HIDE DEF d
<1>5. Sound(d) /\ Later(b, d)
  <2>1. Beside(b, d)
    BY <1>2, <1>3 DEF Beside, Sound, Rows
  <2> QED BY <2>1, BesideFact
<1>6. s \in Live(d, SourceTypes) /\ Opening(d) = Opening(b) /\ \A types : Live(d, types) = Live(b, types)
  BY <1>3 DEF Live, Opening
<1>7. /\ Sound(c) /\ Later(d, c) /\ Opening(c) \subseteq Opening(d) \ {s}
      /\ c.periods = d.periods /\ c.allocs = d.allocs /\ Len(d.sources) <= Len(c.sources)
      /\ \A q \in DOMAIN d.sources : q \in DOMAIN c.sources /\ c.sources[q].type = d.sources[q].type
      /\ \A types : Live(d, types) \ {s} \subseteq Live(c, types)
  BY <1>1, <1>4, <1>5, <1>6, ReversedFact
<1>8. Later(b, c)
  BY <1>5, <1>7, LaterTwice
<1> QED BY <1>3, <1>6, <1>7, <1>8

-----------------------------------------------------------------------------
(* Issuing a document *)

\* A document that may be issued: not a reversal and not reversed, and an opening
\* balance only when none is in force.
Issuable(b, doc) ==
  /\ SourceRow(b, doc) /\ ~doc.reversed /\ doc.of = 0
  /\ doc.type = "opening_balance" => Opening(b) = {}

LEMMA PostFact ==
  ASSUME NEW b, Sound(b), NEW doc, Issuable(b, doc), NEW p \in OpenPeriods(b),
         Within(b.periods[p], doc.date), NEW lines, NEW c, c = PostSource(b, doc, p, lines)
  PROVE  /\ Sound(c) /\ Later(b, c) /\ BookRecord(c)
         /\ c.periods = b.periods /\ c.allocs = b.allocs /\ c.counts = b.counts
         /\ Len(c.sources) = Len(b.sources) + 1 /\ c.sources[Len(b.sources) + 1] = doc
         /\ DOMAIN c.sources = 1 .. Len(b.sources) + 1 /\ Len(b.sources) \in Nat
         /\ DOMAIN b.sources = 1 .. Len(b.sources)
         /\ \A q \in DOMAIN b.sources : c.sources[q] = b.sources[q]
<1> DEFINE n == Len(b.sources)
           d == WithSource(b, doc)
           j == Journal(p, n + 1, doc.date, lines)
<1>1. /\ Sound(d) /\ Later(b, d) /\ OpenPeriods(d) = OpenPeriods(b) /\ d = [b EXCEPT !.sources = d.sources]
      /\ Len(d.sources) = n + 1 /\ d.sources[n + 1] = doc /\ IsSeq(d.sources)
      /\ \A q \in DOMAIN b.sources : d.sources[q] = b.sources[q]
  <2>1. d = WithSource(b, doc)
    OBVIOUS
  <2>2. SourceRow(b, doc) /\ (doc.type = "opening_balance" => doc.of # 0 \/ Opening(b) = {})
    BY DEF Issuable
  <2> HIDE DEF d
  <2> QED BY <2>1, <2>2, AddedSource
<1>2. c = Write(d, <<j>>)
  BY DEF PostSource, WithSource
<1>3. BookRecord(b) /\ IsSeq(b.sources) /\ n \in Nat /\ DOMAIN b.sources = 1 .. n
      /\ OpenPeriods(b) \subseteq DOMAIN b.periods
  BY SeqFact DEF Sound, Rows, OpenPeriods
<1> HIDE DEF d, n
<1>4. d.periods = b.periods /\ d.allocs = b.allocs /\ d.counts = b.counts /\ BookRecord(d)
  BY <1>1, <1>3 DEF BookRecord
<1>5. Postable(d, j)
  <2>1. n + 1 \in 0 .. Len(d.sources) /\ n + 1 # 0 /\ 0 \in 0 .. Len(d.journals)
    BY <1>1, <1>3, SeqFact DEF Sound, Rows
  <2>2. doc.date \in Dates /\ ~doc.reversed
    BY DEF Issuable, SourceRow
  <2>3. j = [period |-> p, source |-> n + 1, date |-> doc.date, lines |-> lines, reversalOf |-> 0]
    BY DEF Journal
  <2> HIDE DEF j
  <2> QED BY <1>1, <1>3, <1>4, <2>1, <2>2, <2>3 DEF Postable, JournalRow
<1> DEFINE js == <<j>>
<1> HIDE DEF j
<1>6. IsSeq(js) /\ \A i \in DOMAIN js : Postable(d, js[i])
  BY <1>5, OneFact
<1> HIDE DEF js
<1>7. Sound(c) /\ Later(d, c) /\ c = [d EXCEPT !.journals = d.journals \o js]
  <2>1. c = Write(d, js)
    BY <1>2 DEF js
  <2>2. Sound(Write(d, js)) /\ Later(d, Write(d, js))
        /\ Write(d, js) = [d EXCEPT !.journals = d.journals \o js]
    BY <1>1, <1>6, WriteFact
  <2> QED BY <2>1, <2>2
<1>8. c.sources = d.sources /\ c.periods = b.periods /\ c.allocs = b.allocs /\ c.counts = b.counts
      /\ BookRecord(c)
  BY <1>4, <1>7 DEF BookRecord
<1>9. Later(b, c)
  BY <1>1, <1>7, LaterTwice
<1>10. DOMAIN c.sources = 1 .. n + 1
  BY <1>1, <1>8, SeqFact
<1> QED BY <1>1, <1>3, <1>7, <1>8, <1>9, <1>10 DEF n

\* The allocations a receipt is entered with are of positive amounts, to documents.
Applying(b, apply) == \A a \in apply : a.invoice \in DOMAIN b.sources /\ a.amount > 0

LEMMA RowsOfFact ==
  ASSUME NEW b, Sound(b), NEW doc, NEW apply, Applying(b, apply), NEW c,
         Len(b.sources) + 1 \in Live(c, {doc.type}), DOMAIN b.sources \subseteq DOMAIN c.sources,
         \A types : Live(b, types) \subseteq Live(c, types)
  PROVE  \A r \in RowsOf(b, doc, apply) : AllocRow(c, r)
<1>1. \A invoice, receipt, amount :
        /\ Row(invoice, receipt, amount).invoice = invoice /\ Row(invoice, receipt, amount).receipt = receipt
        /\ Row(invoice, receipt, amount).amount = amount
        /\ Row(invoice, receipt, amount) =
             [born |-> Row(invoice, receipt, amount).born, invoice |-> Row(invoice, receipt, amount).invoice,
              receipt |-> Row(invoice, receipt, amount).receipt, amount |-> Row(invoice, receipt, amount).amount]
  BY DEF Row
<1>2. CASE doc.type = "invoice"
  <2>1. RowsOf(b, doc, apply) = {Row(Len(b.sources) + 1, r, Take(b, doc, r)) :
                                   r \in {q \in Advances(b, doc.party) : Take(b, doc, q) > 0}}
    BY <1>2 DEF RowsOf
  <2>2. Advances(b, doc.party) \subseteq Live(c, {"receipt"}) /\ Len(b.sources) + 1 \in DOMAIN c.sources
    BY DEF Advances, Live
  <2>3. ASSUME NEW r \in Advances(b, doc.party), Take(b, doc, r) > 0
        PROVE  AllocRow(c, Row(Len(b.sources) + 1, r, Take(b, doc, r)))
    BY <1>1, <2>2, <2>3 DEF AllocRow
  <2> QED BY <2>1, <2>3
<1>3. CASE doc.type = "receipt"
  <2>1. RowsOf(b, doc, apply) = {Row(a.invoice, Len(b.sources) + 1, a.amount) : a \in apply}
    BY <1>3 DEF RowsOf
  <2>2. ASSUME NEW a \in apply PROVE AllocRow(c, Row(a.invoice, Len(b.sources) + 1, a.amount))
    BY <1>1, <1>3 DEF AllocRow, Applying
  <2> QED BY <2>1, <2>2
<1>4. CASE doc.type \notin {"invoice", "receipt"}
  <2>1. RowsOf(b, doc, apply) = {}
    BY <1>4 DEF RowsOf
  <2> QED BY <2>1
<1> QED BY <1>2, <1>3, <1>4

\* The moves of stock, and the journal of the cost of a sale.
LEMMA StockedFact ==
  ASSUME NEW b, Sound(b), NEW doc, doc.date \in Dates, NEW p \in OpenPeriods(b),
         Within(b.periods[p], doc.date), Len(b.sources) \in DOMAIN b.sources,
         ~b.sources[Len(b.sources)].reversed, NEW c, c = Stocked(b, doc, p)
  PROVE  /\ Sound(c) /\ Later(b, c) /\ BookRecord(c) /\ c.periods = b.periods
         /\ c.sources = b.sources /\ c.allocs = b.allocs /\ c.counts = b.counts
<1> DEFINE s == Len(b.sources)
           lines == CogsLines(doc.units)
           js == IF lines = <<>> THEN <<>> ELSE <<Journal(p, s, doc.date, lines)>>
           moved == Moved(b, s, "sale", doc.units, -doc.units)
<1>1. Rows(b) /\ BookRecord(b) /\ OpenPeriods(b) \subseteq DOMAIN b.periods
  BY DEF Sound, Rows, OpenPeriods
<1>2. ASSUME NEW kind, NEW units, NEW delta, NEW d, d = Moved(b, s, kind, units, delta)
      PROVE  /\ Sound(d) /\ Later(b, d) /\ BookRecord(d) /\ d.periods = b.periods
             /\ d.sources = b.sources /\ d.allocs = b.allocs /\ d.counts = b.counts
             /\ d.journals = b.journals
  <2>1. d = [b EXCEPT !.qty = @ + delta, !.moves = @ \cup {Move(s, kind, units)}]
    BY <1>2 DEF Moved
  <2>2. /\ d.sources = b.sources /\ d.periods = b.periods /\ d.journals = b.journals
        /\ d.allocs = b.allocs /\ d.counts = b.counts /\ BookRecord(d)
    BY <1>1, <2>1 DEF BookRecord
  <2>3. Beside(b, d)
    BY <1>1, <2>2 DEF Beside, Rows
  <2> QED BY <2>2, <2>3, BesideFact
<1> HIDE DEF lines, moved
<1>3. /\ Sound(moved) /\ Later(b, moved) /\ BookRecord(moved) /\ moved.periods = b.periods
      /\ moved.sources = b.sources /\ moved.allocs = b.allocs /\ moved.counts = b.counts
      /\ moved.journals = b.journals
  BY <1>2 DEF moved
<1>4. OpenPeriods(moved) = OpenPeriods(b)
  BY <1>3 DEF OpenPeriods
<1>5. IsSeq(js) /\ \A i \in DOMAIN js : Postable(moved, js[i])
  <2> DEFINE j == Journal(p, s, doc.date, lines)
  <2>1. j = [period |-> p, source |-> s, date |-> doc.date, lines |-> lines, reversalOf |-> 0]
    BY DEF Journal
  <2>2. s \in 0 .. Len(moved.sources) /\ 0 \in 0 .. Len(moved.journals)
    BY <1>1, <1>3, SeqFact DEF Rows
  <2> HIDE DEF j
  <2>3. Postable(moved, j)
    BY <1>1, <1>3, <1>4, <2>1, <2>2 DEF Postable, JournalRow
  <2> QED BY <2>3, OneFact DEF j
<1> HIDE DEF js
<1>6. /\ Sound(Write(moved, js)) /\ Later(moved, Write(moved, js))
      /\ Write(moved, js) = [moved EXCEPT !.journals = moved.journals \o js]
  BY <1>3, <1>5, WriteFact
<1>7. CASE c = Write(moved, js)
  <2>1. /\ c.sources = b.sources /\ c.periods = b.periods /\ c.allocs = b.allocs
        /\ c.counts = b.counts /\ BookRecord(c)
    BY <1>3, <1>6, <1>7 DEF BookRecord
  <2> QED BY <1>3, <1>6, <1>7, <2>1, LaterTwice
<1>8. \/ c = b \/ c = Write(moved, js)
      \/ c = Moved(b, s, "purchase", doc.units, doc.units)
      \/ c = Moved(b, s, "adjust", doc.units, doc.units)
  <2> USE DEF moved, js, lines
  <2>1. c = CASE ~b.perpetual \/ doc.units = 0 -> b
              [] doc.type \in {"cash_sale", "invoice"} -> Write(moved, js)
              [] doc.type \in Purchases -> Moved(b, s, "purchase", doc.units, doc.units)
              [] OTHER -> Moved(b, s, "adjust", doc.units, doc.units)
    BY DEF Stocked
  <2> HIDE DEF moved, js, lines, s
  <2> QED BY <2>1
<1> QED BY <1>1, <1>2, <1>7, <1>8, LaterSame

\* A document is posted, its allocations are written, and its stock is moved.
LEMMA IssuedFact ==
  ASSUME NEW b, Sound(b), NEW doc, Issuable(b, doc), NEW p \in OpenPeriods(b),
         Within(b.periods[p], doc.date), NEW apply, Applying(b, apply),
         NEW c, c = Issued(b, doc, apply, p)
  PROVE  /\ Sound(c) /\ Later(b, c) /\ BookRecord(c) /\ c.periods = b.periods
         /\ Len(b.sources) + 1 \in DOMAIN c.sources /\ DOMAIN b.sources \subseteq DOMAIN c.sources
         /\ \A types : Live(b, types) \subseteq Live(c, types)
<1> DEFINE n == Len(b.sources)
           posted == PostSource(b, doc, p, LinesOf(b, doc, apply))
           written == Written(b, doc, apply, p)
<1>1. /\ Sound(posted) /\ Later(b, posted) /\ BookRecord(posted)
      /\ posted.periods = b.periods /\ posted.allocs = b.allocs /\ posted.counts = b.counts
      /\ Len(posted.sources) = n + 1 /\ posted.sources[n + 1] = doc
      /\ DOMAIN posted.sources = 1 .. n + 1 /\ n \in Nat /\ DOMAIN b.sources = 1 .. n
      /\ \A q \in DOMAIN b.sources : posted.sources[q] = b.sources[q]
  <2> HIDE DEF posted
  <2> QED BY PostFact DEF posted
<1>2. written = [posted EXCEPT !.allocs = posted.allocs \cup RowsOf(b, doc, apply)]
  BY DEF Written
<1>3. c = Stocked(written, doc, p)
  BY DEF Issued
<1> HIDE DEF posted, written
<1>4. /\ n + 1 \in Live(posted, {doc.type}) /\ DOMAIN b.sources \subseteq DOMAIN posted.sources
      /\ \A types : Live(b, types) \subseteq Live(posted, types)
  BY <1>1 DEF Live, Issuable
<1>5. \A r \in RowsOf(b, doc, apply) : AllocRow(posted, r)
  BY <1>4, RowsOfFact
<1>6. /\ written.sources = posted.sources /\ written.periods = b.periods /\ BookRecord(written)
      /\ written.journals = posted.journals /\ written.counts = posted.counts
      /\ written.allocs = posted.allocs \cup RowsOf(b, doc, apply)
  BY <1>1, <1>2 DEF BookRecord
<1>7. Beside(posted, written)
  BY <1>1, <1>5, <1>6 DEF Beside, Sound, Rows
<1>8. Sound(written) /\ Later(b, written)
  BY <1>1, <1>7, BesideFact, LaterTwice
<1>9. OpenPeriods(written) = OpenPeriods(b)
  BY <1>6 DEF OpenPeriods
<1>10. doc.date \in Dates /\ ~doc.reversed
  BY DEF Issuable, SourceRow
<1>11. Len(written.sources) \in DOMAIN written.sources /\ ~written.sources[Len(written.sources)].reversed
  BY <1>1, <1>6, <1>10
<1>12. /\ Sound(c) /\ Later(written, c) /\ BookRecord(c) /\ c.periods = written.periods
       /\ c.sources = written.sources
  BY <1>3, <1>6, <1>8, <1>9, <1>10, <1>11, StockedFact
<1>13. Later(b, c)
  BY <1>8, <1>12, LaterTwice
<1>14. c.sources = posted.sources
  BY <1>6, <1>12
<1>15. \A types : Live(b, types) \subseteq Live(c, types)
  BY <1>4, <1>14 DEF Live
<1> QED BY <1>1, <1>6, <1>12, <1>13, <1>14, <1>15

\* ... into the period of its own date.
LEMMA CreateFact ==
  ASSUME NEW b, Sound(b), NEW doc, Issuable(b, doc), HasContext(b, doc.date),
         NEW apply, Applying(b, apply), NEW c, c = Create(b, doc, apply)
  PROVE  /\ Sound(c) /\ Later(b, c) /\ BookRecord(c)
         /\ Len(b.sources) + 1 \in DOMAIN c.sources /\ DOMAIN b.sources \subseteq DOMAIN c.sources
         /\ \A types : Live(b, types) \subseteq Live(c, types)
<1> DEFINE d == InContext(b, doc.date)
           p == ContextPeriod(b, doc.date)
<1>1. doc.date \in Dates /\ BookRecord(b)
  BY DEF Issuable, SourceRow, Sound, Rows
<1>2. /\ Sound(d) /\ Later(b, d) /\ OpenPeriods(d) = OpenPeriods(b)
      /\ \E ps : d = [b EXCEPT !.periods = ps]
      /\ p \in OpenPeriods(d) /\ Within(d.periods[p], doc.date)
  BY <1>1, InContextFact
<1> HIDE DEF d, p
<1>3. d.sources = b.sources
  BY <1>1, <1>2 DEF BookRecord
<1>4. Issuable(d, doc) /\ Applying(d, apply)
  BY <1>3 DEF Issuable, Applying, SourceRow, Opening, Live
<1>5. c = Issued(d, doc, apply, p)
  BY DEF Create, d, p
<1>6. /\ Sound(c) /\ Later(d, c) /\ BookRecord(c)
      /\ Len(d.sources) + 1 \in DOMAIN c.sources /\ DOMAIN d.sources \subseteq DOMAIN c.sources
      /\ \A types : Live(d, types) \subseteq Live(c, types)
  <2>1. Sound(d) /\ p \in OpenPeriods(d) /\ Within(d.periods[p], doc.date)
    BY <1>2
  <2> QED BY <2>1, <1>4, <1>5, IssuedFact
<1>7. \A types : Live(d, types) = Live(b, types)
  BY <1>3 DEF Live
<1> QED BY <1>2, <1>3, <1>6, <1>7, LaterTwice

-----------------------------------------------------------------------------
(* Editing a document *)

\* A document as it is entered or edited: a row, not a reversal, not reversed.
Fresh(b, doc) == SourceRow(b, doc) /\ ~doc.reversed /\ doc.of = 0

LEMMA DatedFact ==
  ASSUME NEW b, Sound(b), NEW doc, Fresh(b, doc), NEW today \in Dates
  PROVE  LET d == Dated(b, doc, today)
         IN Fresh(b, d) /\ d.type = doc.type
<1> DEFINE e == EditDate(b, doc.date, today)
           q == LastOf(b, OpenPeriods(b))
<1>1. doc.date \in Dates
  BY DEF Fresh, SourceRow
<1>2. e \in Dates
  <2>1. Rows(b) /\ q \in OpenPeriods(b) /\ q \in DOMAIN b.periods
    <3>1. Rows(b) /\ OpenPeriods(b) \subseteq DOMAIN b.periods /\ OpenPeriods(b) # {}
      BY DEF Sound, Calendar, OpenPeriods
    <3> QED BY <3>1, LastOfFact
  <2> HIDE DEF q
  <2>2. b.periods[q].start \in Dates /\ b.periods[q].end \in Dates
    BY <2>1, PeriodFact DEF Dates
  <2>3. Clamp(b.periods[q], today) \in Dates
    BY <2>2 DEF Clamp
  <2> QED BY <1>1, <2>3 DEF EditDate, q
<1> HIDE DEF e
<1>3. Dated(b, doc, today) = doc \/ Dated(b, doc, today) = [doc EXCEPT !.date = e]
  BY DEF Dated, e
<1>4. ASSUME NEW d, d = [doc EXCEPT !.date = e] PROVE Fresh(b, d) /\ d.type = doc.type
  BY <1>2, <1>4 DEF Fresh, SourceRow
<1> QED BY <1>3, <1>4

LEMMA FreshKept ==
  ASSUME NEW b, Sound(b), NEW c, Sound(c), Len(b.sources) <= Len(c.sources), NEW doc, Fresh(b, doc)
  PROVE  Fresh(c, doc)
<1>1. Len(b.sources) \in Nat /\ Len(c.sources) \in Nat
  BY SeqFact DEF Sound, Rows
<1>2. 0 .. Len(b.sources) \subseteq 0 .. Len(c.sources)
  BY <1>1
<1> QED BY <1>2 DEF Fresh, SourceRow

LEMMA ReplacedFact ==
  ASSUME NEW b, Sound(b), NEW s \in Live(b, SourceTypes), NEW today \in Dates,
         NEW doc, Fresh(b, doc), doc.type # "opening_balance",
         NEW a, a = ReverseSource(b, s, today), NEW d, d = Dated(b, doc, today),
         HasContext(a, d.date), NEW c, c = Create(a, d, {})
  PROVE  /\ Sound(c) /\ Later(b, c) /\ BookRecord(c)
         /\ Len(a.sources) + 1 \in DOMAIN c.sources
         /\ \A types : Live(b, types) \ {s} \subseteq Live(c, types)
<1>1. /\ Sound(a) /\ Later(b, a) /\ Len(b.sources) <= Len(a.sources)
      /\ \A types : Live(b, types) \ {s} \subseteq Live(a, types)
  BY ReverseSourceFact
<1>2. Fresh(b, d) /\ d.type = doc.type
  BY DatedFact
<1>3. Issuable(a, d)
  BY <1>1, <1>2, FreshKept DEF Fresh, Issuable
<1>4. Applying(a, {})
  BY DEF Applying
<1>5. /\ Sound(c) /\ Later(a, c) /\ BookRecord(c)
      /\ Len(a.sources) + 1 \in DOMAIN c.sources /\ \A types : Live(a, types) \subseteq Live(c, types)
  BY <1>1, <1>3, <1>4, CreateFact
<1> QED BY <1>1, <1>5, LaterTwice

\* The rows of receipts that paid an invoice go to its replacement.
LEMMA RepointedFact ==
  ASSUME NEW b, Sound(b), NEW c, Sound(c), NEW rows, rows \subseteq b.allocs,
         \A r \in rows : r.receipt \in Live(c, {"receipt"}), NEW i \in DOMAIN c.sources,
         NEW d, d = Repointed(c, rows, i)
  PROVE  Sound(d) /\ Later(c, d)
<1>1. BookRecord(c) /\ \A r \in rows : AllocRow(b, r)
  BY DEF Sound, Rows
<1>2. ASSUME NEW r \in rows PROVE AllocRow(c, [r EXCEPT !.invoice = i])
  <2> DEFINE q == [r EXCEPT !.invoice = i]
  <2>1. r = [born |-> r.born, invoice |-> r.invoice, receipt |-> r.receipt, amount |-> r.amount]
    BY <1>1 DEF AllocRow
  <2>2. q = [born |-> r.born, invoice |-> i, receipt |-> r.receipt, amount |-> r.amount]
    BY <2>1
  <2>3. r.receipt \in Live(c, {"receipt"}) /\ r.amount > 0
    BY <1>1 DEF AllocRow
  <2> HIDE DEF q
  <2>4. AllocRow(c, q)
    BY <2>2, <2>3 DEF AllocRow
  <2> QED BY <2>4 DEF q
<1> DEFINE moved == {[r EXCEPT !.invoice = i] : r \in rows}
<1>3. \A r \in moved : AllocRow(c, r)
  BY <1>2
<1>4. d = [c EXCEPT !.allocs = (c.allocs \ rows) \cup moved]
  BY DEF Repointed
<1> HIDE DEF moved
<1>5. /\ d.allocs = (c.allocs \ rows) \cup moved /\ BookRecord(d) /\ d.sources = c.sources
      /\ d.journals = c.journals /\ d.periods = c.periods /\ d.counts = c.counts
  BY <1>1, <1>4 DEF BookRecord
<1>6. Beside(c, d)
  BY <1>3, <1>5 DEF Beside, Sound, Rows
<1> QED BY <1>6, BesideFact

LEMMA ReplacedPaidFact ==
  ASSUME NEW b, Sound(b), NEW s \in Live(b, {"invoice"}), NEW today \in Dates,
         NEW doc, Fresh(b, doc), doc.type # "opening_balance",
         HasContext(ReverseSource(b, s, today), Dated(b, doc, today).date),
         NEW c, c = ReplacedPaid(b, s, doc, today)
  PROVE  Sound(c) /\ Later(b, c)
<1> DEFINE a == ReverseSource(b, s, today)
           d == Dated(b, doc, today)
           e == Create(a, d, {})
           rows == DirectRows(b, s)
<1>1. c = Repointed(e, rows, Len(a.sources) + 1)
  BY DEF ReplacedPaid
<1>2. rows \subseteq b.allocs
  BY DEF DirectRows, RowsTo
<1>3. a = ReverseSource(b, s, today) /\ d = Dated(b, doc, today) /\ e = Create(a, d, {})
      /\ HasContext(a, d.date)
  OBVIOUS
<1> HIDE DEF a, d, e, rows
<1>4. s \in Live(b, SourceTypes)
  BY DEF Live, SourceTypes
<1>5. /\ Sound(e) /\ Later(b, e) /\ Len(a.sources) + 1 \in DOMAIN e.sources
      /\ \A types : Live(b, types) \ {s} \subseteq Live(e, types)
  BY <1>3, <1>4, ReplacedFact
<1>6. \A r \in rows : r.receipt \in Live(b, {"receipt"}) \ {s}
  <2>1. \A r \in rows : r.receipt \in Live(b, {"receipt"})
    BY <1>2 DEF Sound, Rows, AllocRow
  <2> QED BY <2>1 DEF Live
<1>7. Sound(c) /\ Later(e, c)
  BY <1>1, <1>2, <1>5, <1>6, RepointedFact
<1> QED BY <1>5, <1>7, LaterTwice

LEMMA EditedReceiptFact ==
  ASSUME NEW b, Sound(b), NEW s \in Live(b, SourceTypes), NEW today \in Dates,
         NEW doc, Fresh(b, doc), doc.type # "opening_balance",
         HasContext(b, doc.date), NEW apply, Applying(b, apply),
         NEW c, c = EditedReceipt(b, s, doc, apply, today)
  PROVE  Sound(c) /\ Later(b, c)
<1> DEFINE d == InContext(b, doc.date)
           p == ContextPeriod(b, doc.date)
           a == ReverseSource(d, s, today)
           to == Target(a, p, doc.date, today)
           new == [doc EXCEPT !.date = to.date]
<1>1. c = Issued(a, new, apply, to.period)
  BY DEF EditedReceipt
<1>2. doc.date \in Dates /\ BookRecord(b)
  BY DEF Fresh, SourceRow, Sound, Rows
<1>3. /\ Sound(d) /\ Later(b, d) /\ OpenPeriods(d) = OpenPeriods(b)
      /\ \E ps : d = [b EXCEPT !.periods = ps] /\ p \in OpenPeriods(d)
  BY <1>2, InContextFact
<1>4. a = ReverseSource(d, s, today) /\ to = Target(a, p, doc.date, today) /\ new = [doc EXCEPT !.date = to.date]
  OBVIOUS
<1> HIDE DEF d, p, a, to, new
<1>5. d.sources = b.sources
  BY <1>2, <1>3 DEF BookRecord
<1>6. s \in Live(d, SourceTypes)
  BY <1>5 DEF Live
<1>7. /\ Sound(a) /\ Later(d, a) /\ a.periods = d.periods /\ Len(d.sources) <= Len(a.sources)
      /\ DOMAIN d.sources \subseteq DOMAIN a.sources
  BY <1>3, <1>4, <1>6, ReverseSourceFact
<1>8. p \in DOMAIN a.periods
  BY <1>3, <1>7 DEF OpenPeriods
<1>9. to.period \in OpenPeriods(a) /\ to.date \in Dates /\ Within(a.periods[to.period], to.date)
  BY <1>2, <1>4, <1>7, <1>8, TargetFact
<1>10. Fresh(a, doc)
  <2>1. Fresh(d, doc)
    BY <1>5 DEF Fresh, SourceRow
  <2> QED BY <1>3, <1>7, <2>1, FreshKept
<1>11. new.date = to.date /\ Issuable(a, new)
  BY <1>4, <1>9, <1>10 DEF Fresh, SourceRow, Issuable
<1>12. Applying(a, apply)
  BY <1>5, <1>7 DEF Applying
<1>13. Sound(c) /\ Later(a, c)
  BY <1>1, <1>7, <1>9, <1>11, <1>12, IssuedFact
<1> QED BY <1>3, <1>7, <1>13, LaterTwice

\* The opening balance in force is taken back before another is posted.
LEMMA ReopenedFact ==
  ASSUME NEW b, Sound(b), NEW today \in Dates,
         NEW doc, Fresh(b, doc), HasContext(b, doc.date),
         NEW c, c = Reopened(b, doc, today)
  PROVE  Sound(c) /\ Later(b, c)
<1> DEFINE a == InContext(b, doc.date)
           p == ContextPeriod(b, doc.date)
           s == CHOOSE t \in Opening(b) : TRUE
           d == IF Opening(b) = {} THEN a ELSE ReverseSource(a, s, today)
<1>1. doc.date \in Dates /\ BookRecord(b) /\ OpeningOnce(b)
  BY DEF Fresh, SourceRow, Sound, Rows
<1>2. /\ Sound(a) /\ Later(b, a) /\ \E ps : a = [b EXCEPT !.periods = ps]
      /\ p \in OpenPeriods(a) /\ Within(a.periods[p], doc.date)
  BY <1>1, InContextFact
<1>3. c = IF doc.total = 0 THEN d ELSE Issued(d, doc, {}, p)
  BY DEF Reopened
<1> HIDE DEF a, p
<1>4. a.sources = b.sources
  BY <1>1, <1>2 DEF BookRecord
<1>5. Opening(a) = Opening(b) /\ Fresh(a, doc)
  BY <1>4 DEF Opening, Live, Fresh, SourceRow
<1>6. /\ Sound(d) /\ Later(a, d) /\ d.periods = a.periods /\ Opening(d) = {} /\ Fresh(d, doc)
  <2>1. CASE Opening(b) = {}
    BY <1>2, <1>5, <2>1, LaterSame
  <2>2. CASE Opening(b) # {}
    <3>1. d = ReverseSource(a, s, today)
      BY <2>2
    <3>2. s \in Opening(b)
      BY <2>2
    <3> HIDE DEF d, s
    <3>3. Opening(b) = {s}
      BY <1>1, <3>2 DEF OpeningOnce
    <3>4. s \in Live(a, SourceTypes)
      BY <1>5, <3>2 DEF Opening, Live, SourceTypes
    <3>5. /\ Sound(d) /\ Later(a, d) /\ Opening(d) \subseteq Opening(a) \ {s}
          /\ d.periods = a.periods /\ Len(a.sources) <= Len(d.sources)
      BY <1>2, <3>1, <3>4, ReverseSourceFact
    <3>6. Fresh(d, doc)
      BY <1>2, <1>5, <3>5, FreshKept
    <3> QED BY <1>5, <3>3, <3>5, <3>6
  <2> QED BY <2>1, <2>2
<1> HIDE DEF d
<1>7. Issuable(d, doc) /\ Applying(d, {})
  BY <1>6 DEF Issuable, Fresh, Applying
<1>8. p \in OpenPeriods(d) /\ Within(d.periods[p], doc.date)
  BY <1>2, <1>6 DEF OpenPeriods
<1>9. Sound(c) /\ Later(d, c)
  <2>1. CASE doc.total = 0
    BY <1>3, <1>6, <2>1, LaterSame
  <2>2. CASE doc.total # 0
    <3>1. c = Issued(d, doc, {}, p)
      BY <1>3, <2>2
    <3> QED BY <1>6, <1>7, <1>8, <3>1, IssuedFact
  <2> QED BY <2>1, <2>2
<1> QED BY <1>2, <1>6, <1>9, LaterTwice

-----------------------------------------------------------------------------
(* Counting stock *)

LEMMA CountsFact ==
  ASSUME NEW b, Sound(b), NEW counts, \A n \in counts : n.period \in DOMAIN b.periods,
         NEW c, c = [b EXCEPT !.counts = counts]
  PROVE  Sound(c) /\ Later(b, c)
<1>1. BookRecord(b) /\ \A r \in b.allocs : AllocRow(b, r)
  BY DEF Sound, Rows
<1>2. /\ c.counts = counts /\ BookRecord(c) /\ c.sources = b.sources /\ c.allocs = b.allocs
      /\ c.journals = b.journals /\ c.periods = b.periods
  BY <1>1 DEF BookRecord
<1>3. Beside(b, c)
  BY <1>1, <1>2 DEF Beside
<1> QED BY <1>3, BesideFact

LEMMA RecordedCountFact ==
  ASSUME NEW b, Sound(b), NEW d \in Dates, HasContext(b, d), NEW value,
         NEW c, c = RecordedCount(b, d, value)
  PROVE  Sound(c) /\ Later(b, c)
<1> DEFINE a == InContext(b, d)
           n == Count(Taken, ContextPeriod(b, d), d, value)
           counts == {m \in a.counts : ~SameCount(n, m)} \cup {n}
<1>1. Sound(a) /\ Later(b, a) /\ OpenPeriods(a) = OpenPeriods(b) /\ ContextPeriod(b, d) \in OpenPeriods(b)
  BY InContextFact
<1>2. n.period = ContextPeriod(b, d)
  BY DEF Count
<1>3. c = PutCount(a, n)
  BY DEF RecordedCount
<1> HIDE DEF n, a
<1>4. c = [a EXCEPT !.counts = counts]
  BY <1>3 DEF PutCount
<1>5. \A m \in counts : m.period \in DOMAIN a.periods
  BY <1>1, <1>2 DEF Sound, Rows, OpenPeriods
<1> HIDE DEF counts
<1>6. Sound(c) /\ Later(a, c)
  BY <1>1, <1>4, <1>5, CountsFact
<1> QED BY <1>1, <1>6, LaterTwice

LEMMA DeletedCountFact ==
  ASSUME NEW b, Sound(b), NEW n \in b.counts, NEW c, c = DeletedCount(b, n)
  PROVE  Sound(c) /\ Later(b, c)
<1> DEFINE counts == b.counts \ {n}
<1>1. c = [b EXCEPT !.counts = counts]
  BY DEF DeletedCount
<1>2. \A m \in counts : m.period \in DOMAIN b.periods
  BY DEF Sound, Rows
<1> HIDE DEF counts
<1> QED BY <1>1, <1>2, CountsFact

-----------------------------------------------------------------------------
(* Closing a period *)

\* The first open period, which is the one that closes.
LEMMA FirstOpen ==
  ASSUME NEW b, Sound(b), NEW p, p = ClosingPeriod(b)
  PROVE  /\ p \in OpenPeriods(b) /\ p \in DOMAIN b.periods
         /\ \A q \in OpenPeriods(b) \ {p} : b.periods[p].end < b.periods[q].start
<1>1. Rows(b) /\ OpenPeriods(b) \subseteq DOMAIN b.periods /\ OpenPeriods(b) # {}
  BY DEF Sound, Calendar, OpenPeriods
<1>2. p \in OpenPeriods(b) /\ \A q \in OpenPeriods(b) : b.periods[p].start <= b.periods[q].start
  BY <1>1, LastOfFact DEF ClosingPeriod
<1>3. ASSUME NEW q \in OpenPeriods(b) \ {p} PROVE b.periods[p].end < b.periods[q].start
  <2>1. /\ b.periods[p].start \in Int /\ b.periods[p].end \in Int
        /\ b.periods[q].start \in Int /\ b.periods[q].end \in Int
    BY <1>1, <1>2, PeriodFact
  <2>2. /\ b.periods[q].start <= b.periods[q].end /\ b.periods[p].start <= b.periods[q].start
        /\ b.periods[p].end < b.periods[q].start \/ b.periods[q].end < b.periods[p].start
    BY <1>1, <1>2 DEF Sound, Calendar
  <2> QED BY <2>1, <2>2
<1> QED BY <1>1, <1>2, <1>3

LEMMA CountedFact ==
  ASSUME NEW b, Sound(b), NEW date \in Dates, NEW explicit, NEW opening, NEW actual,
         CanClose(b, date, explicit, opening, actual),
         NEW p, p = ClosingPeriod(b), NEW c, c = Counted(b, p, date, opening, actual)
  PROVE  /\ Sound(c) /\ Later(b, c) /\ OpenPeriods(c) = OpenPeriods(b)
         /\ c.periods[p].end = date /\ c.periods[p].start <= date
         /\ \A q \in OpenPeriods(c) \ {p} : date < c.periods[q].start
<1> DEFINE start == b.periods[p].start
           a == Rebooked(b, p, start, date)
<1>1. /\ p \in OpenPeriods(b) /\ p \in DOMAIN b.periods /\ Rows(b) /\ BookRecord(b)
      /\ \A q \in OpenPeriods(b) \ {p} : b.periods[p].end < b.periods[q].start
  BY FirstOpen DEF Sound, Rows
<1>2. /\ date >= start /\ ~Overlaps(b, p, start, date)
      /\ ~\E j \in JournalsIn(b, p) : b.journals[j].date > date
  BY DEF CanClose
<1>3. start \in Dates /\ b.periods[p].end \in Dates /\ start <= b.periods[p].end /\ start <= date
  BY <1>1, <1>2, PeriodFact DEF Dates, Sound, Calendar
<1>4. \A q \in Frozen(b) : b.periods[q].end < start
  BY <1>1 DEF Frozen, Sound, Calendar
<1>5. ASSUME NEW j \in JournalsIn(b, p) PROVE start <= b.journals[j].date /\ b.journals[j].date <= date
  <2>1. b.journals[j].date \in Dates /\ j \in DOMAIN b.journals /\ b.journals[j].period = p
    BY <1>1, JournalFact DEF JournalsIn
  <2>2. start <= b.journals[j].date
    BY <2>1 DEF Sound, Dating, Within
  <2>3. ~(b.journals[j].date > date)
    BY <1>2
  <2> QED BY <2>1, <2>2, <2>3 DEF Dates
<1>6. /\ Sound(a) /\ Later(b, a) /\ DOMAIN a.periods = DOMAIN b.periods /\ OpenPeriods(a) = OpenPeriods(b)
      /\ a.periods[p].start = start /\ a.periods[p].end = date
      /\ \A q \in DOMAIN b.periods \ {p} : a.periods[q] = b.periods[q]
      /\ a = [b EXCEPT !.periods = a.periods]
  <2>1. a = Rebooked(b, p, start, date)
    OBVIOUS
  <2> HIDE DEF a, start
  <2> QED BY <1>1, <1>2, <1>3, <1>4, <1>5, <2>1, RebookedFact
<1>7. a.periods = [b.periods EXCEPT ![p] = [b.periods[p] EXCEPT !.end = date]]
  <2> DEFINE old == b.periods[p]
  <2>1. old = [start |-> old.start, end |-> old.end, open |-> old.open]
    BY <1>1, PeriodFact DEF Periods
  <2> HIDE DEF old
  <2>2. [old EXCEPT !.start = old.start, !.end = date] = [old EXCEPT !.end = date]
    BY <2>1
  <2>3. a.periods = [b.periods EXCEPT ![p] = [old EXCEPT !.start = old.start, !.end = date]]
    BY <1>1 DEF Rebooked, BookRecord, old
  <2> QED BY <2>2, <2>3 DEF old
<1> HIDE DEF a
<1>8. \E new : /\ c = [b EXCEPT !.periods[p].end = date, !.counts = b.counts \cup new]
               /\ \A n \in new : n.period = p
  <2> DEFINE none(d) == ~\E n \in CountsIn(b, p) : n.date = d
             new == {n \in {Count(Entered, p, start, opening)} : none(start)}
                    \cup {n \in {Count(Entered, p, date, actual)} : none(date)}
  <2>1. c = [b EXCEPT !.periods[p].end = date, !.counts = b.counts \cup new]
    BY DEF Counted
  <2>2. \A n \in new : n.period = p
    BY DEF Count
  <2> HIDE DEF new
  <2> QED BY <2>1, <2>2
<1>9. PICK new : /\ c = [b EXCEPT !.periods[p].end = date, !.counts = b.counts \cup new]
                 /\ \A n \in new : n.period = p
  BY <1>8
<1>10. /\ BookRecord(c) /\ c.periods = [b.periods EXCEPT ![p] = [b.periods[p] EXCEPT !.end = date]]
       /\ c.sources = b.sources /\ c.journals = b.journals /\ c.allocs = b.allocs
       /\ c.counts = b.counts \cup new
  BY <1>1, <1>9 DEF BookRecord
<1>11. c.periods = a.periods
  BY <1>7, <1>10
<1>12. a.sources = b.sources /\ a.journals = b.journals /\ a.allocs = b.allocs /\ a.counts = b.counts
  BY <1>1, <1>6 DEF BookRecord
<1>13. Beside(a, c)
  <2>1. (\A r \in a.allocs : AllocRow(a, r)) /\ (\A n \in a.counts : n.period \in DOMAIN a.periods)
    BY <1>6 DEF Sound, Rows
  <2>2. p \in DOMAIN a.periods
    BY <1>1, <1>6
  <2> QED BY <1>9, <1>10, <1>11, <1>12, <2>1, <2>2 DEF Beside
<1>14. Sound(c) /\ Later(b, c)
  BY <1>6, <1>13, BesideFact, LaterTwice
<1>15. OpenPeriods(c) = OpenPeriods(b)
  BY <1>6, <1>11 DEF OpenPeriods
<1>16. ASSUME NEW q \in OpenPeriods(c) \ {p} PROVE date < c.periods[q].start
  <2>1. q \in DOMAIN b.periods \ {p} /\ c.periods[q] = b.periods[q] /\ b.periods[q].start \in Dates
    BY <1>1, <1>6, <1>11, <1>15, PeriodFact DEF OpenPeriods, Dates
  <2>2. start <= b.periods[q].start
    BY <1>1, <1>3, <1>15, <2>1 DEF Dates
  <2>3. ~(b.periods[q].start <= date /\ b.periods[q].end >= start)
    BY <1>2, <2>1 DEF Overlaps
  <2>4. b.periods[q].end \in Dates /\ b.periods[q].start <= b.periods[q].end
    BY <1>1, <2>1, PeriodFact DEF Sound, Calendar, Dates
  <2> QED BY <1>3, <2>1, <2>2, <2>3, <2>4 DEF Dates
<1> QED BY <1>3, <1>6, <1>11, <1>14, <1>15, <1>16

LEMMA MinFact ==
  ASSUME NEW m \in Int, NEW n \in Int
  PROVE  Min({m, n}) \in {m, n} /\ Min({m, n}) <= m /\ Min({m, n}) <= n
<1>1. \E x \in {m, n} : \A y \in {m, n} : x <= y
  OBVIOUS
<1> QED BY <1>1 DEF Min

\* The next period ends on a date after its start.
LEMMA NextEndFact ==
  ASSUME NEW b, Sound(b), NEW p \in DOMAIN b.periods, b.periods[p].end < LastDate, NEW explicit
  PROVE  NextEnd(b, p, explicit) \in Dates /\ b.periods[p].end + 1 <= NextEnd(b, p, explicit)
<1> DEFINE start == b.periods[p].start
           end == b.periods[p].end
<1>1. start \in Dates /\ end \in Dates /\ start <= end /\ LastDate \in Nat
  BY PeriodFact, LastDateAssumption DEF Sound, Rows, Calendar, Dates
<1> HIDE DEF start, end
<1>2. end + 1 \in Dates /\ LastDate \in Dates /\ end + 1 <= LastDate
  BY <1>1 DEF Dates, end
<1>3. NextFixedEnd(start, end) \in Dates /\ end + 1 <= NextFixedEnd(start, end)
  <2>1. CASE MonthAligned(start, end)
    <3> DEFINE S == {end + 1} \cup {d \in end + 1 .. LastDate : MonthsOf(end + 1, d) <= MonthsOf(start, end)}
    <3>1. S # {} /\ end + 1 \in S /\ \A x \in S : x \in Dates /\ x <= LastDate
      BY <1>1, <1>2 DEF Dates
    <3>2. NextFixedEnd(start, end) = Max(S)
      BY <2>1 DEF NextFixedEnd
    <3> HIDE DEF S
    <3>3. LastDate \in Int /\ \A x \in S : x \in Int /\ x <= LastDate
      BY <1>1, <3>1 DEF Dates
    <3>4. Max(S) \in S /\ \A x \in S : x <= Max(S)
      BY <3>1, <3>3, MaxFact
    <3> QED BY <3>1, <3>2, <3>4
  <2>2. CASE ~MonthAligned(start, end)
    <3>1. NextFixedEnd(start, end) = Min({LastDate, 2 * end + 1 - start})
      BY <2>2 DEF NextFixedEnd
    <3>2. 2 * end + 1 - start \in Int /\ end + 1 <= 2 * end + 1 - start /\ LastDate \in Int
      BY <1>1 DEF Dates
    <3> DEFINE m == 2 * end + 1 - start
    <3> HIDE DEF m
    <3>3. Min({LastDate, m}) \in {LastDate, m} /\ Min({LastDate, m}) <= LastDate /\ m \in Int
      BY <3>2, MinFact DEF m
    <3>4. Min({LastDate, m}) \in Int /\ end + 1 <= Min({LastDate, m})
      BY <1>2, <3>2, <3>3 DEF m
    <3> QED BY <1>1, <3>1, <3>3, <3>4 DEF Dates, m
  <2> QED BY <2>1, <2>2
<1>4. MonthEnd[end + 1] \in Dates /\ end + 1 <= MonthEnd[end + 1]
  BY <1>2, MonthEndAssumption
<1>5. NextEnd(b, p, explicit) \in {NextFixedEnd(start, end), LastDate, MonthEnd[end + 1]}
  BY DEF NextEnd, start, end
<1> QED BY <1>2, <1>3, <1>4, <1>5 DEF end

\* A period after all the others.
WithPeriod(b, new) == [b EXCEPT !.periods = Append(@, new)]

LEMMA WithPeriodFact ==
  ASSUME NEW b, Sound(b), NEW start \in Dates, NEW end \in Dates, start <= end,
         \A q \in DOMAIN b.periods : b.periods[q].end < start,
         NEW new \in Periods, new.start = start, new.end = end, new.open,
         NEW c, c = WithPeriod(b, new)
  PROVE  /\ Sound(c) /\ Later(b, c) /\ \A q \in DOMAIN b.periods : c.periods[q] = b.periods[q]
         /\ OpenPeriods(b) \subseteq OpenPeriods(c) /\ Len(b.periods) + 1 \in OpenPeriods(c)
         /\ Len(b.periods) + 1 \notin DOMAIN b.periods
         /\ \A q \in OpenPeriods(c) : q \in OpenPeriods(b) \/ c.periods[q] = new
<1> DEFINE n == Len(b.periods)
<1>1. Rows(b) /\ BookRecord(b) /\ b.periods \in Seq(Periods)
  BY DEF Sound, Rows
<1>2. /\ c.periods = Append(b.periods, new) /\ BookRecord(c) /\ c.sources = b.sources
      /\ c.journals = b.journals /\ c.allocs = b.allocs /\ c.counts = b.counts
  BY <1>1 DEF BookRecord, WithPeriod
<1>3. /\ c.periods \in Seq(Periods) /\ DOMAIN c.periods = 1 .. n + 1 /\ DOMAIN b.periods = 1 .. n
      /\ n \in Nat /\ \A q \in 1 .. n : c.periods[q] = b.periods[q]
      /\ c.periods[n + 1] = new
  <2>1. IsSeq(b.periods) /\ c.periods \in Seq(Periods)
    BY <1>1, <1>2, InRange
  <2> QED BY <1>2, <2>1, AppendFact, SeqFact
<1> HIDE DEF n
<1>4. \A q \in 1 .. n + 1 : q = n + 1 \/ q \in 1 .. n
  BY <1>3
<1>5. 1 .. n \subseteq 1 .. n + 1 /\ n + 1 \in 1 .. n + 1 /\ n + 1 \notin 1 .. n
  BY <1>3
<1>6. Rows(c)
  <2>1. \A j : JournalRow(b, j) => JournalRow(c, j)
    BY <1>2, <1>3, <1>5 DEF JournalRow
  <2>2. \A r : AllocRow(b, r) => AllocRow(c, r)
    BY <1>2 DEF AllocRow, Live
  <2>3. \A s : SourceRow(b, s) => SourceRow(c, s)
    BY <1>2 DEF SourceRow
  <2> QED BY <1>1, <1>2, <1>3, <1>5, <2>1, <2>2, <2>3 DEF Rows
<1>7. Frozen(c) = Frozen(b) /\ OpenPeriods(c) = OpenPeriods(b) \cup {n + 1}
  <2>1. c.periods[n + 1].open /\ \A q \in 1 .. n : c.periods[q].open <=> b.periods[q].open
    BY <1>3
  <2> QED BY <1>3, <1>4, <1>5, <2>1 DEF Frozen, OpenPeriods
<1>8. Calendar(c)
  <2>1. c.periods[n + 1].start = start /\ c.periods[n + 1].end = end
    BY <1>3
  <2>2. \A q \in 1 .. n + 1 : c.periods[q].start <= c.periods[q].end
    BY <1>3, <1>4, <2>1 DEF Sound, Calendar
  <2>3. \A q, r \in 1 .. n : q # r =>
          c.periods[q].end < c.periods[r].start \/ c.periods[r].end < c.periods[q].start
    BY <1>3 DEF Sound, Calendar
  <2>4. \A q \in 1 .. n : c.periods[q].end < c.periods[n + 1].start
    BY <1>3, <2>1
  <2>5. \A q, r \in 1 .. n + 1 : q # r =>
          c.periods[q].end < c.periods[r].start \/ c.periods[r].end < c.periods[q].start
    BY <1>4, <2>3, <2>4
  <2>6. \A q \in Frozen(b) : \A r \in OpenPeriods(b) : c.periods[q].end < c.periods[r].start
    BY <1>3 DEF Sound, Calendar, Frozen, OpenPeriods
  <2>7. \A q \in Frozen(c) : \A r \in OpenPeriods(c) : c.periods[q].end < c.periods[r].start
    BY <1>3, <1>7, <2>4, <2>6 DEF Frozen
  <2> QED BY <1>3, <1>7, <2>2, <2>5, <2>7 DEF Calendar, Frozen
<1>9. Dating(c)
  <2>1. \A j \in DOMAIN b.journals : b.journals[j].period \in 1 .. n
    BY <1>1, <1>3, JournalFact
  <2> QED BY <1>2, <1>3, <2>1 DEF Sound, Dating
<1>10. Answered(c) /\ OpeningOnce(c)
  BY <1>2, SameAnswers
<1>11. Later(b, c)
  BY <1>2, <1>3, <1>7 DEF Later, Frozen
<1> QED BY <1>3, <1>5, <1>6, <1>7, <1>8, <1>9, <1>10, <1>11 DEF Sound, n

\* The book on which a close is computed: the period ends on its date, and all
\* other open periods come after it; there is one.
LEMMA PreparedFact ==
  ASSUME NEW b, Sound(b), NEW date \in Dates, NEW explicit, NEW opening, NEW actual,
         CanClose(b, date, explicit, opening, actual),
         NEW p, p = ClosingPeriod(b), NEW c, c = Prepared(b, date, explicit, opening, actual)
  PROVE  /\ Sound(c) /\ Later(b, c) /\ p \in OpenPeriods(c) /\ Within(c.periods[p], date)
         /\ c.periods[p].end = date /\ LaterOpen(c, p) # {}
         /\ \A q \in OpenPeriods(c) \ {p} : date < c.periods[q].start
<1> DEFINE a == Counted(b, p, date, opening, actual)
<1>1. p \in OpenPeriods(b) /\ p \in DOMAIN b.periods
  BY FirstOpen
<1>2. /\ Sound(a) /\ Later(b, a) /\ OpenPeriods(a) = OpenPeriods(b)
      /\ a.periods[p].end = date /\ a.periods[p].start <= date
      /\ \A q \in OpenPeriods(a) \ {p} : date < a.periods[q].start
  <2>1. a = Counted(b, p, date, opening, actual)
    OBVIOUS
  <2> HIDE DEF a
  <2> QED BY <2>1, CountedFact
<1>3. c = WithNext(a, p, explicit)
  BY DEF Prepared
<1> HIDE DEF a
<1>4. p \in OpenPeriods(a) /\ p \in DOMAIN a.periods /\ Rows(a) /\ date \in Int
  BY <1>1, <1>2 DEF OpenPeriods, Sound, Dates
<1>5. CASE LaterOpen(a, p) # {}
  <2>1. c = a
    BY <1>3, <1>5 DEF WithNext
  <2> QED BY <1>2, <1>4, <1>5, <2>1 DEF Within
<1>6. CASE LaterOpen(a, p) = {}
  <2> DEFINE new == [start |-> a.periods[p].end + 1, end |-> NextEnd(a, p, explicit), open |-> TRUE]
             n == Len(a.periods) + 1
  <2>1. c = WithPeriod(a, new)
    BY <1>3, <1>6 DEF WithNext, WithPeriod
  <2>2. date < LastDate
    BY DEF CanClose
  <2>3. NextEnd(a, p, explicit) \in Dates /\ date + 1 <= NextEnd(a, p, explicit)
    BY <1>2, <1>4, <2>2, NextEndFact
  <2>4. date + 1 \in Dates
    BY <2>2, LastDateAssumption DEF Dates
  <2>5. new \in Periods /\ new.start = date + 1 /\ new.end = NextEnd(a, p, explicit) /\ new.open
    BY <1>2, <2>3, <2>4 DEF Periods
  <2> HIDE DEF new, n
  <2>6. \A q \in OpenPeriods(a) : q = p
    <3>1. \A q \in OpenPeriods(a) \ {p} : a.periods[q].start > a.periods[p].end
      <4>1. \A q \in OpenPeriods(a) \ {p} : q \in DOMAIN a.periods
        BY DEF OpenPeriods
      <4> QED BY <1>2, <1>4, <4>1, PeriodFact
    <3> QED BY <1>6, <3>1 DEF LaterOpen
  <2>7. ASSUME NEW q \in DOMAIN a.periods PROVE a.periods[q].end < date + 1
    <3>1. CASE q = p
      BY <1>2, <1>4, <3>1
    <3>2. CASE q # p
      <4>1. q \in Frozen(a)
        BY <2>6, <3>2 DEF Frozen
      <4>2. a.periods[q].end < a.periods[p].start
        BY <1>2, <1>4, <4>1 DEF Sound, Calendar, Frozen
      <4>3. a.periods[q].end \in Int /\ a.periods[p].start \in Int
        BY <1>4, PeriodFact
      <4> QED BY <1>2, <1>4, <4>2, <4>3
    <3> QED BY <3>1, <3>2
  <2>8. /\ Sound(c) /\ Later(a, c) /\ \A q \in DOMAIN a.periods : c.periods[q] = a.periods[q]
        /\ OpenPeriods(a) \subseteq OpenPeriods(c) /\ n \in OpenPeriods(c) /\ n \notin DOMAIN a.periods
        /\ \A q \in OpenPeriods(c) : q \in OpenPeriods(a) \/ c.periods[q] = new
    BY <1>2, <2>1, <2>3, <2>4, <2>5, <2>7, WithPeriodFact DEF n
  <2>9. p \in OpenPeriods(c) /\ c.periods[p] = a.periods[p]
    BY <1>4, <2>8
  <2>10. \A q \in OpenPeriods(c) \ {p} : c.periods[q].start = date + 1
    BY <2>5, <2>6, <2>8
  <2>11. n \in OpenPeriods(c) \ {p}
    BY <1>4, <2>8
  <2>12. LaterOpen(c, p) # {}
    <3>1. c.periods[n].start > c.periods[p].end
      BY <1>2, <1>4, <2>9, <2>10, <2>11
    <3> QED BY <2>11, <3>1 DEF LaterOpen
  <2>13. \A q \in OpenPeriods(c) \ {p} : date < c.periods[q].start
    BY <1>4, <2>10
  <2> QED BY <1>2, <1>4, <2>8, <2>9, <2>12, <2>13, LaterTwice DEF Within
<1> QED BY <1>5, <1>6

\* Closing a period that comes before the other open ones.
Shut(b, c, p) ==
  /\ BookRecord(c) /\ c.periods = [b.periods EXCEPT ![p] = [b.periods[p] EXCEPT !.open = FALSE]]
  /\ c.sources = b.sources /\ c.journals = b.journals /\ c.allocs = b.allocs
  /\ \A n \in c.counts : n.period \in DOMAIN b.periods

LEMMA ShutFact ==
  ASSUME NEW b, Sound(b), NEW p \in OpenPeriods(b), OpenPeriods(b) # {p},
         \A q \in OpenPeriods(b) \ {p} : b.periods[p].end < b.periods[q].start,
         NEW c, Shut(b, c, p)
  PROVE  Sound(c) /\ Later(b, c)
<1> DEFINE new == [b.periods[p] EXCEPT !.open = FALSE]
<1>1. /\ Rows(b) /\ p \in DOMAIN b.periods /\ b.periods \in Seq(Periods) /\ b.periods[p] \in Periods
  BY PeriodFact DEF Sound, Rows, OpenPeriods
<1>2. /\ new \in Periods /\ new.start = b.periods[p].start /\ new.end = b.periods[p].end /\ ~new.open
  BY <1>1 DEF Periods
<1>3. c.periods = [b.periods EXCEPT ![p] = new]
  BY DEF Shut
<1> HIDE DEF new
<1>4. /\ c.periods \in Seq(Periods) /\ DOMAIN c.periods = DOMAIN b.periods
      /\ c.periods[p] = new /\ \A q \in DOMAIN b.periods \ {p} : c.periods[q] = b.periods[q]
  <2>1. p \in 1 .. Len(b.periods)
    BY <1>1, LenProperties
  <2> QED BY <1>1, <1>2, <1>3, <2>1, ExceptSeq
<1>5. OpenPeriods(c) = OpenPeriods(b) \ {p} /\ Frozen(c) = Frozen(b) \cup {p}
  BY <1>1, <1>2, <1>4 DEF OpenPeriods, Frozen
<1>6. \A q \in DOMAIN b.periods : /\ c.periods[q].start = b.periods[q].start
                                  /\ c.periods[q].end = b.periods[q].end
  BY <1>2, <1>4
<1>7. Rows(c)
  BY <1>1, <1>4 DEF Rows, Shut, SourceRow, JournalRow, AllocRow, Live
<1>8. Calendar(c)
  <2>1. OpenPeriods(c) # {}
    BY <1>5
  <2>2. /\ \A q \in DOMAIN b.periods : c.periods[q].start <= c.periods[q].end
        /\ \A q, r \in DOMAIN b.periods : q # r =>
             c.periods[q].end < c.periods[r].start \/ c.periods[r].end < c.periods[q].start
    BY <1>6 DEF Sound, Calendar
  <2>3. \A q \in Frozen(b) : \A r \in OpenPeriods(b) : b.periods[q].end < b.periods[r].start
    BY DEF Sound, Calendar, Frozen
  <2>4. \A q \in Frozen(c) : \A r \in OpenPeriods(c) : b.periods[q].end < b.periods[r].start
    BY <1>5, <2>3
  <2>5. \A q \in Frozen(c) : \A r \in OpenPeriods(c) : c.periods[q].end < c.periods[r].start
    BY <1>4, <1>6, <2>4 DEF Frozen, OpenPeriods
  <2> QED BY <1>4, <2>1, <2>2, <2>5 DEF Calendar, Frozen
<1>9. Dating(c)
  <2>1. \A j \in DOMAIN b.journals : b.journals[j].period \in DOMAIN b.periods
    BY <1>1, JournalFact
  <2> QED BY <1>6, <2>1 DEF Sound, Dating, Within, Shut
<1>10. Answered(c) /\ OpeningOnce(c)
  BY SameAnswers DEF Shut
<1>11. Later(b, c)
  <2>1. \A q \in Frozen(b) : q \in DOMAIN b.periods \ {p}
    BY DEF Frozen
  <2> QED BY <1>4, <1>5, <2>1 DEF Later, Shut
<1> QED BY <1>7, <1>8, <1>9, <1>10, <1>11 DEF Sound

\* The journals of a close are in its period, on its date, and of no document.
AllPostable(b, js) == IsSeq(js) /\ \A i \in DOMAIN js : Postable(b, js[i])

LEMMA ClosingJournalFact ==
  ASSUME NEW b, Sound(b), NEW p \in OpenPeriods(b), NEW date \in Dates, Within(b.periods[p], date)
  PROVE  /\ AllPostable(b, <<>>) /\ \A lines : AllPostable(b, <<Journal(p, 0, date, lines)>>)
         /\ \A js, ks : AllPostable(b, js) /\ AllPostable(b, ks) => AllPostable(b, js \o ks)
<1>1. ASSUME NEW lines PROVE Postable(b, Journal(p, 0, date, lines))
  <2> DEFINE j == Journal(p, 0, date, lines)
  <2>1. j = [period |-> p, source |-> 0, date |-> date, lines |-> lines, reversalOf |-> 0]
    BY DEF Journal
  <2>2. 0 \in 0 .. Len(b.sources) /\ 0 \in 0 .. Len(b.journals) /\ p \in DOMAIN b.periods
    BY SeqFact DEF Sound, Rows, OpenPeriods
  <2> HIDE DEF j
  <2>3. Postable(b, j)
    BY <2>1, <2>2 DEF Postable, JournalRow
  <2> QED BY <2>3 DEF j
<1>2. ASSUME NEW j, Postable(b, j) PROVE AllPostable(b, <<j>>)
  BY <1>2, OneFact DEF AllPostable
<1>3. AllPostable(b, <<>>)
  <2>1. IsSeq(<<>>) /\ DOMAIN <<>> = 1 .. 0
    BY OneFact, SeqFact
  <2>2. 1 .. 0 = {}
    OBVIOUS
  <2> QED BY <2>1, <2>2 DEF AllPostable
<1>4. ASSUME NEW js, NEW ks, AllPostable(b, js), AllPostable(b, ks) PROVE AllPostable(b, js \o ks)
  <2>1. /\ IsSeq(js \o ks) /\ DOMAIN (js \o ks) = 1 .. Len(js) + Len(ks)
        /\ \A i \in 1 .. Len(js) : (js \o ks)[i] = js[i]
        /\ \A i \in 1 .. Len(ks) : (js \o ks)[Len(js) + i] = ks[i]
    BY <1>4, ConcatFact DEF AllPostable
  <2>2. /\ Len(js) \in Nat /\ DOMAIN js = 1 .. Len(js) /\ Len(ks) \in Nat /\ DOMAIN ks = 1 .. Len(ks)
    BY <1>4, SeqFact DEF AllPostable
  <2>3. ASSUME NEW i \in 1 .. Len(js) + Len(ks) PROVE Postable(b, (js \o ks)[i])
    <3>1. CASE i \in 1 .. Len(js)
      BY <1>4, <2>1, <2>2, <3>1 DEF AllPostable
    <3>2. CASE i \notin 1 .. Len(js)
      <4>1. i - Len(js) \in 1 .. Len(ks) /\ i = Len(js) + (i - Len(js))
        BY <2>2, <3>2
      <4>2. (js \o ks)[i] = ks[i - Len(js)]
        BY <2>1, <4>1
      <4> QED BY <1>4, <2>2, <4>1, <4>2 DEF AllPostable
    <3> QED BY <3>1, <3>2
  <2> QED BY <2>1, <2>3 DEF AllPostable
<1> QED BY <1>1, <1>2, <1>3, <1>4

LEMMA AdjustedFact ==
  ASSUME NEW b, Sound(b), NEW p \in OpenPeriods(b), NEW date \in Dates, Within(b.periods[p], date),
         NEW r, r.period = p, NEW c, c = Adjusted(b, r, date)
  PROVE  Sound(c) /\ Later(b, c) /\ \E js : c = [b EXCEPT !.journals = b.journals \o js]
<1> DEFINE js == (IF b.perpetual THEN <<>>
                  ELSE AdjustmentJournals(p, date, r.cogs, "COGS", "INVENTORY"))
                 \o AdjustmentJournals(p, date, r.commission, "COMMISSION_EXPENSE", "COMMISSION_PAYABLE")
<1>1. AllPostable(b, js)
  <2>1. \A amount, debit, credit : AllPostable(b, AdjustmentJournals(p, date, amount, debit, credit))
    BY ClosingJournalFact DEF AdjustmentJournals
  <2>2. \A us, vs : AllPostable(b, us) /\ AllPostable(b, vs) => AllPostable(b, us \o vs)
    BY ClosingJournalFact
  <2>3. AllPostable(b, <<>>)
    BY ClosingJournalFact
  <2>4. AllPostable(b, IF b.perpetual THEN <<>>
                       ELSE AdjustmentJournals(p, date, r.cogs, "COGS", "INVENTORY"))
    BY <2>1, <2>3
  <2> QED BY <2>1, <2>2, <2>4
<1>2. c = Write(b, js)
  BY DEF Adjusted
<1> HIDE DEF js
<1> QED BY <1>1, <1>2, WriteFact DEF AllPostable

LEMMA SettledFact ==
  ASSUME NEW b, Sound(b), NEW p \in OpenPeriods(b), NEW date \in Dates,
         Within(b.periods[p], date), b.periods[p].end = date, LaterOpen(b, p) # {},
         \A q \in OpenPeriods(b) \ {p} : date < b.periods[q].start,
         NEW r, r.period = p, NEW c, c = Settled(b, r, date)
  PROVE  Sound(c) /\ Later(b, c)
<1> DEFINE b1 == Adjusted(b, r, date)
           ks == ClosingJournals(b1, p, date, r.net)
           b2 == Write(b1, ks)
           n == FirstOf(b, LaterOpen(b, p))
<1>1. Sound(b1) /\ Later(b, b1)
  BY AdjustedFact
<1>2. BookRecord(b) /\ p \in DOMAIN b.periods
  BY DEF Sound, Rows, OpenPeriods
<1>3. PICK js : b1 = [b EXCEPT !.journals = b.journals \o js]
  BY AdjustedFact
<1> HIDE DEF b1
<1>4. /\ b1.periods = b.periods /\ BookRecord(b1) /\ OpenPeriods(b1) = OpenPeriods(b)
  BY <1>2, <1>3 DEF BookRecord, OpenPeriods
<1>5. AllPostable(b1, ks)
  <2>1. /\ AllPostable(b1, <<>>) /\ \A lines : AllPostable(b1, <<Journal(p, 0, date, lines)>>)
    BY <1>1, <1>4, ClosingJournalFact
  <2> QED BY <2>1 DEF ClosingJournals
<1> HIDE DEF ks
<1>6. Sound(b2) /\ Later(b1, b2) /\ b2 = [b1 EXCEPT !.journals = b1.journals \o ks]
  BY <1>1, <1>5, WriteFact DEF AllPostable
<1>7. \E capital, count :
        /\ c = [b2 EXCEPT !.periods[p].open = FALSE, !.closes = Append(@, r), !.capital = capital,
                          !.counts = @ \cup {count}]
        /\ count.period = n
  <2> DEFINE capital == [m \in DOMAIN b2.capital |->
                           LET i == CHOOSE k \in DOMAIN b.members : b.members[k] = m
                           IN ClosingCapital(b, p, r.net, i)]
             count == Count(Carried, n, b.periods[n].start, ClosingStock(b, b.periods[p].start, date))
  <2>1. b1 = Adjusted(b, r, date)
    BY DEF b1
  <2>2. b2 = Write(b1, ClosingJournals(b1, p, date, r.net))
    BY DEF ks
  <2> HIDE DEF b2
  <2>3. c = [b2 EXCEPT !.periods[p].open = FALSE, !.closes = Append(@, r), !.capital = capital,
                       !.counts = @ \cup {count}]
    BY <2>1, <2>2 DEF Settled
  <2>4. count.period = n
    BY DEF Count
  <2> HIDE DEF capital, count
  <2> QED BY <2>3, <2>4
<1> HIDE DEF b2, n
<1>8. /\ b2.periods = b.periods /\ BookRecord(b2) /\ OpenPeriods(b2) = OpenPeriods(b)
  BY <1>4, <1>6 DEF BookRecord, OpenPeriods
<1>9. n \in LaterOpen(b, p)
  <2>1. Rows(b) /\ LaterOpen(b, p) \subseteq DOMAIN b.periods
    BY DEF Sound, LaterOpen, OpenPeriods
  <2> QED BY <2>1, LastOfFact DEF n
<1>10. Shut(b2, c, p)
  <2>1. PICK capital, count :
          /\ c = [b2 EXCEPT !.periods[p].open = FALSE, !.closes = Append(@, r), !.capital = capital,
                            !.counts = @ \cup {count}]
          /\ count.period = n
    BY <1>7
  <2>2. /\ BookRecord(c)
        /\ c.periods = [b2.periods EXCEPT ![p] = [b2.periods[p] EXCEPT !.open = FALSE]]
        /\ c.sources = b2.sources /\ c.journals = b2.journals /\ c.allocs = b2.allocs
        /\ c.counts = b2.counts \cup {count}
    BY <1>8, <2>1 DEF BookRecord
  <2>3. n \in DOMAIN b2.periods
    BY <1>8, <1>9 DEF LaterOpen, OpenPeriods
  <2>4. \A m \in b2.counts : m.period \in DOMAIN b2.periods
    BY <1>6 DEF Sound, Rows
  <2> QED BY <2>1, <2>2, <2>3, <2>4 DEF Shut
<1>11. OpenPeriods(b2) # {p}
  <2>1. n \in OpenPeriods(b) /\ b.periods[n].start > b.periods[p].end
    BY <1>9 DEF LaterOpen
  <2>2. b.periods[p].start <= b.periods[p].end /\ b.periods[p].start \in Int /\ b.periods[p].end \in Int
    BY <1>2, PeriodFact DEF Sound, Calendar
  <2> QED BY <1>8, <2>1, <2>2
<1>12. Sound(c) /\ Later(b2, c)
  BY <1>6, <1>8, <1>10, <1>11, ShutFact
<1> QED BY <1>1, <1>6, <1>12, LaterTwice

LEMMA ClosedFact ==
  ASSUME NEW b, Sound(b), NEW date \in Dates, NEW explicit, NEW opening, NEW actual,
         CanClose(b, date, explicit, opening, actual),
         NEW c, c = Closed(b, date, explicit, opening, actual)
  PROVE  Sound(c) /\ Later(b, c)
<1> DEFINE p == ClosingPeriod(b)
           a == Prepared(b, date, explicit, opening, actual)
<1>1. /\ Sound(a) /\ Later(b, a) /\ p \in OpenPeriods(a) /\ Within(a.periods[p], date)
      /\ a.periods[p].end = date /\ LaterOpen(a, p) # {}
      /\ \A q \in OpenPeriods(a) \ {p} : date < a.periods[q].start
  <2>1. p = ClosingPeriod(b) /\ a = Prepared(b, date, explicit, opening, actual)
    OBVIOUS
  <2> HIDE DEF a, p
  <2> QED BY <2>1, PreparedFact
<1>2. c = Settled(a, Result(a, p, date), date)
  BY DEF Closed
<1>3. Result(a, p, date).period = p
  BY DEF Result
<1> HIDE DEF a, p
<1>4. Sound(c) /\ Later(a, c)
  BY <1>1, <1>2, <1>3, SettledFact
<1> QED BY <1>1, <1>4, LaterTwice

-----------------------------------------------------------------------------
(* What a user enters *)

LEMMA NewBookFact ==
  ASSUME NEW b, NewBook(b) PROVE Sound(b)
<1>1. PICK start \in Dates, end \in Dates :
        start <= end /\ b.periods = <<[start |-> start, end |-> end, open |-> TRUE]>>
  BY DEF NewBook
<1> DEFINE p == [start |-> start, end |-> end, open |-> TRUE]
<1>2. p \in Periods /\ p.start = start /\ p.end = end /\ p.open
  BY DEF Periods
<1>3. b.periods = <<p>>
  BY <1>1
<1> HIDE DEF p
<1>4. b.periods \in Seq(Periods) /\ DOMAIN b.periods = {1} /\ b.periods[1] = p
  BY <1>2, <1>3
<1>5. /\ b.sources = <<>> /\ b.journals = <<>> /\ b.allocs = {} /\ b.counts = {} /\ BookRecord(b)
  BY DEF NewBook, BookRecord
<1>6. IsSeq(b.sources) /\ IsSeq(b.journals) /\ DOMAIN b.sources = {} /\ DOMAIN b.journals = {}
  <2>1. IsSeq(<<>>) /\ DOMAIN <<>> = 1 .. 0
    BY OneFact, SeqFact
  <2>2. 1 .. 0 = {}
    OBVIOUS
  <2> QED BY <1>5, <2>1, <2>2
<1>7. Rows(b)
  BY <1>4, <1>5, <1>6 DEF Rows
<1>8. OpenPeriods(b) = {1}
  BY <1>2, <1>4 DEF OpenPeriods
<1>9. Calendar(b)
  BY <1>1, <1>2, <1>4, <1>8 DEF Calendar
<1>10. Dating(b) /\ Answered(b)
  BY <1>6 DEF Dating, Answered
<1>11. OpeningOnce(b)
  BY <1>6 DEF OpeningOnce, Opening, Live
<1> QED BY <1>7, <1>9, <1>10, <1>11 DEF Sound

LEMMA EntryFact ==
  ASSUME NEW b, Sound(b), NEW members, NEW doc, Entry(members, doc) PROVE Fresh(b, doc) /\ doc.total \in Nat
<1>1. doc = [type |-> doc.type, op |-> 0, of |-> 0, date |-> doc.date, total |-> doc.total,
             tax |-> doc.tax, party |-> doc.party, cash |-> doc.cash, link |-> 0,
             account |-> doc.account, units |-> doc.units, reversed |-> FALSE]
  BY DEF Entry, Doc
<1>2. 0 \in 0 .. Len(b.sources)
  BY SeqFact DEF Sound, Rows
<1>3. doc.op = 0 /\ doc.of = 0 /\ doc.link = 0 /\ doc.reversed = FALSE
  BY <1>1
<1>4. doc.type \in SourceTypes /\ doc.date \in Dates /\ doc.total \in Nat
  BY DEF Entry
<1> QED BY <1>1, <1>2, <1>3, <1>4 DEF Fresh, SourceRow

LEMMA NoteFact ==
  ASSUME NEW b, NEW doc, Fresh(b, doc), NEW q \in 0 .. Len(b.sources), NEW e, e = NoteOn(b, doc, q)
  PROVE  Fresh(b, e) /\ e.type = doc.type /\ e.total = doc.total
<1> DEFINE account == IF doc.party = "supplier" /\ q # 0 THEN b.sources[q].account ELSE "INVENTORY"
<1>1. e = [doc EXCEPT !.link = q, !.account = account]
  BY DEF NoteOn
<1> HIDE DEF account
<1> QED BY <1>1 DEF Fresh, SourceRow

LEMMA EntriesFact ==
  ASSUME NEW b, Sound(b), NEW members, NEW entry, Entry(members, entry), NEW doc \in Entries(b, entry)
  PROVE  Fresh(b, doc) /\ doc.total \in Nat /\ doc.type = entry.type
<1>1. Fresh(b, entry) /\ entry.total \in Nat
  BY EntryFact
<1>2. \A q \in Links(b, entry) : q \in 0 .. Len(b.sources)
  <2>1. Len(b.sources) \in Nat /\ DOMAIN b.sources = 1 .. Len(b.sources)
    BY SeqFact DEF Sound, Rows
  <2> QED BY <2>1 DEF Links
<1>3. doc = entry \/ \E q \in Links(b, entry) : doc = NoteOn(b, entry, q)
  BY DEF Entries
<1> QED BY <1>1, <1>2, <1>3, NoteFact

LEMMA ApplicationsFact ==
  ASSUME NEW b, NEW doc, doc.total \in Nat, NEW apply \in Applications(b, doc)
  PROVE  Applying(b, apply)
<1>1. apply = {} \/ apply \subseteq [invoice : Invoices(b), amount : 1 .. doc.total]
  BY DEF Applications
<1>2. Invoices(b) \subseteq DOMAIN b.sources
  BY DEF Invoices
<1>3. ASSUME NEW a \in [invoice : Invoices(b), amount : 1 .. doc.total]
      PROVE  a.invoice \in DOMAIN b.sources /\ a.amount > 0
  BY <1>2
<1> QED BY <1>1, <1>3 DEF Applying

\* What the scenario can enter, and on what days.
LEMMA ScenarioFact ==
  ASSUME scenario \in DOMAIN Scenarios
  PROVE  /\ NewBook(Now.book) /\ \A doc \in Now.entries : Entry(Range(Now.book.members), doc)
         /\ \A date \in Now.dates : date \in Dates
BY ScenariosAssumption DEF Now

LEMMA EditsFact ==
  ASSUME scenario \in DOMAIN Scenarios, NEW b, Sound(b), NEW s \in DOMAIN b.sources, NEW doc \in EditsOf(b, s)
  PROVE  Fresh(b, doc) /\ doc.total \in Nat /\ doc.type \in SameKind(b.sources[s].type)
<1>1. PICK d \in Now.entries :
        /\ d.type \in SameKind(b.sources[s].type)
        /\ doc = IF d.type \in Notes THEN NoteOn(b, [d EXCEPT !.party = b.sources[s].party], b.sources[s].link)
                 ELSE d
  BY DEF EditsOf
<1>2. Fresh(b, d) /\ d.total \in Nat
  BY ScenarioFact, EntryFact
<1> DEFINE e == [d EXCEPT !.party = b.sources[s].party]
<1>3. Fresh(b, e) /\ e.type = d.type /\ e.total = d.total
  BY <1>2 DEF Fresh, SourceRow
<1>4. b.sources[s].link \in 0 .. Len(b.sources)
  BY DEF Sound, Rows, SourceRow
<1> HIDE DEF e
<1>5. /\ Fresh(b, NoteOn(b, e, b.sources[s].link)) /\ NoteOn(b, e, b.sources[s].link).type = d.type
      /\ NoteOn(b, e, b.sources[s].link).total = d.total
  BY <1>3, <1>4, NoteFact
<1> QED BY <1>1, <1>2, <1>5 DEF e

-----------------------------------------------------------------------------
(* Each operation takes a sound book to a later one *)

Steps == Sound(book') /\ Later(book, book')

LEMMA FreshIssuable ==
  ASSUME NEW b, NEW doc, Fresh(b, doc), doc.type # "opening_balance" PROVE Issuable(b, doc)
BY DEF Fresh, Issuable

LEMMA IssueStep == ASSUME BookInv, Issue PROVE Steps
<1>1. PICK entry \in Now.entries : \E doc \in Entries(book, entry) :
        \E apply \in Applications(book, doc) :
          doc.type # "opening_balance" /\ CanCreate(book, doc, apply) /\ book' = Create(book, doc, apply)
  BY DEF Issue
<1>2. PICK doc \in Entries(book, entry) : \E apply \in Applications(book, doc) :
        doc.type # "opening_balance" /\ CanCreate(book, doc, apply) /\ book' = Create(book, doc, apply)
  BY <1>1
<1>3. PICK apply \in Applications(book, doc) :
        doc.type # "opening_balance" /\ CanCreate(book, doc, apply) /\ book' = Create(book, doc, apply)
  BY <1>2
<1>4. Fresh(book, doc) /\ doc.total \in Nat
  BY ScenarioFact, EntriesFact DEF BookInv
<1>5. Applying(book, apply)
  BY <1>4, ApplicationsFact
<1>6. HasContext(book, doc.date)
  BY <1>3 DEF CanCreate, HasContext
<1> QED BY <1>3, <1>4, <1>5, <1>6, FreshIssuable, CreateFact DEF BookInv, Steps

LEMMA MarkPaidStep == ASSUME BookInv, MarkPaid PROVE Steps
<1>1. PICK i \in Invoices(book), date \in Now.dates :
        LET doc == Payment(book, i, date)
            apply == {[invoice |-> i, amount |-> doc.total]}
        IN /\ InvoiceOpen(book, i) > 0
           /\ CanCreate(book, doc, apply)
           /\ book' = Create(book, doc, apply)
  BY DEF MarkPaid
<1> DEFINE doc == Payment(book, i, date)
           apply == {[invoice |-> i, amount |-> doc.total]}
           total == InvoiceOpen(book, i)
<1>2. CanCreate(book, doc, apply) /\ book' = Create(book, doc, apply) /\ total > 0
  BY <1>1
<1>3. /\ doc.type = "receipt" /\ doc.date = date /\ doc.total = total /\ doc.of = 0 /\ doc.link = 0
      /\ doc.reversed = FALSE
      /\ doc = [type |-> doc.type, op |-> doc.op, of |-> doc.of, date |-> doc.date,
                total |-> doc.total, tax |-> doc.tax, party |-> doc.party, cash |-> doc.cash,
                link |-> doc.link, account |-> doc.account, units |-> doc.units,
                reversed |-> doc.reversed]
  <2> DEFINE party == book.sources[i].party
  <2>1. doc = [Doc("receipt", date, total) EXCEPT !.party = party, !.cash = "CASH"]
    BY DEF Payment
  <2> HIDE DEF doc, total, party
  <2>2. doc = [type |-> "receipt", op |-> 0, of |-> 0, date |-> date, total |-> total, tax |-> 0,
               party |-> party, cash |-> "CASH", link |-> 0, account |-> "none",
               units |-> 0, reversed |-> FALSE]
    BY <2>1 DEF Doc
  <2> QED BY <2>2
<1>4. date \in Dates /\ Sound(book) /\ i \in DOMAIN book.sources
  BY ScenarioFact DEF BookInv, Invoices
<1>5. 0 \in 0 .. Len(book.sources)
  BY <1>4, SeqFact DEF Sound, Rows
<1> HIDE DEF doc, total
<1>6. Issuable(book, doc)
  BY <1>3, <1>4, <1>5 DEF Issuable, SourceRow, SourceTypes
<1>7. Applying(book, apply)
  BY <1>2, <1>3, <1>4 DEF Applying
<1>8. HasContext(book, doc.date)
  BY <1>2 DEF CanCreate, HasContext
<1> QED BY <1>2, <1>4, <1>6, <1>7, <1>8, CreateFact DEF Steps

LEMMA DeleteStep == ASSUME BookInv, Delete PROVE Steps
<1>1. PICK s \in DOMAIN book.sources, today \in Now.dates :
        CanReverse(book, s) /\ book' = ReverseSource(book, s, today)
  BY DEF Delete
<1>2. s \in Live(book, SourceTypes) /\ today \in Dates /\ Sound(book)
  BY <1>1, ScenarioFact DEF CanReverse, BookInv
<1> QED BY <1>1, <1>2, ReverseSourceFact DEF Steps

LEMMA EditStep == ASSUME BookInv, Edit PROVE Steps
<1>1. PICK s \in DOMAIN book.sources, today \in Now.dates :
        /\ book.sources[s].type \notin {"opening_balance", "stock_adjust", "receipt"}
        /\ \E doc \in EditsOf(book, s) :
             CanReplace(book, s, doc, today) /\ book' = Replaced(book, s, doc, today)
  BY DEF Edit
<1>2. PICK doc \in EditsOf(book, s) :
        CanReplace(book, s, doc, today) /\ book' = Replaced(book, s, doc, today)
  BY <1>1
<1>3. s \in Live(book, SourceTypes) /\ today \in Dates /\ Sound(book)
  BY <1>2, ScenarioFact DEF CanReplace, CanReverse, BookInv
<1>4. Fresh(book, doc) /\ doc.type \in SameKind(book.sources[s].type)
  BY EditsFact DEF BookInv
<1>5. doc.type # "opening_balance"
  BY <1>1, <1>4 DEF SameKind, Purchases, ManualCash
<1> DEFINE a == ReverseSource(book, s, today)
           d == Dated(book, doc, today)
<1>6. book' = Create(a, d, {}) /\ HasContext(a, d.date)
  BY <1>2 DEF Replaced, CanReplace, CanCreate, HasContext
<1>7. a = ReverseSource(book, s, today) /\ d = Dated(book, doc, today)
  OBVIOUS
<1> HIDE DEF a, d
<1> QED BY <1>3, <1>4, <1>5, <1>6, <1>7, ReplacedFact DEF Steps

LEMMA EditPaidStep == ASSUME BookInv, EditPaidInvoice PROVE Steps
<1>1. PICK s \in Invoices(book), today \in Now.dates : \E doc \in EditsOf(book, s) :
        CanReplacePaid(book, s, doc, today) /\ book' = ReplacedPaid(book, s, doc, today)
  BY DEF EditPaidInvoice
<1>2. PICK doc \in EditsOf(book, s) :
        CanReplacePaid(book, s, doc, today) /\ book' = ReplacedPaid(book, s, doc, today)
  BY <1>1
<1>3. s \in DOMAIN book.sources /\ book.sources[s].type = "invoice"
  BY DEF Invoices
<1>4. s \in Live(book, {"invoice"}) /\ today \in Dates /\ Sound(book)
  BY <1>2, ScenarioFact DEF CanReplacePaid, BookInv
<1>5. Fresh(book, doc) /\ doc.type \in SameKind(book.sources[s].type)
  BY <1>3, EditsFact DEF BookInv
<1>6. doc.type # "opening_balance"
  BY <1>3, <1>5 DEF SameKind, Purchases, ManualCash
<1>7. HasContext(ReverseSource(book, s, today), Dated(book, doc, today).date)
  BY <1>2 DEF CanReplacePaid, CanCreate, HasContext
<1> QED BY <1>2, <1>4, <1>5, <1>6, <1>7, ReplacedPaidFact DEF Steps

LEMMA EditReceiptStep == ASSUME BookInv, EditReceipt PROVE Steps
<1>1. PICK s \in DOMAIN book.sources, today \in Now.dates : \E doc \in EditsOf(book, s) :
        \E apply \in Applications(book, doc) :
          /\ doc.type = "receipt" /\ CanEditReceipt(book, s, doc, apply, today)
          /\ book' = EditedReceipt(book, s, doc, apply, today)
  BY DEF EditReceipt
<1>2. PICK doc \in EditsOf(book, s) : \E apply \in Applications(book, doc) :
        /\ doc.type = "receipt" /\ CanEditReceipt(book, s, doc, apply, today)
        /\ book' = EditedReceipt(book, s, doc, apply, today)
  BY <1>1
<1>3. PICK apply \in Applications(book, doc) :
        /\ doc.type = "receipt" /\ CanEditReceipt(book, s, doc, apply, today)
        /\ book' = EditedReceipt(book, s, doc, apply, today)
  BY <1>2
<1>4. s \in Live(book, SourceTypes) /\ today \in Dates /\ Sound(book) /\ HasContext(book, doc.date)
  BY <1>3, ScenarioFact DEF CanEditReceipt, Live, SourceTypes, BookInv
<1>5. Fresh(book, doc) /\ doc.total \in Nat
  BY EditsFact DEF BookInv
<1>6. Applying(book, apply)
  BY <1>5, ApplicationsFact
<1> QED BY <1>3, <1>4, <1>5, <1>6, EditedReceiptFact DEF Steps

LEMMA OpeningStep == ASSUME BookInv, SetOpeningBalance PROVE Steps
<1>1. PICK entry \in Now.entries, total \in {0, 1, 2}, today \in Now.dates :
        /\ CanReopen(book, [entry EXCEPT !.total = total])
        /\ book' = Reopened(book, [entry EXCEPT !.total = total], today)
  BY DEF SetOpeningBalance
<1> DEFINE doc == [entry EXCEPT !.total = total]
<1>2. Sound(book) /\ today \in Dates /\ Fresh(book, entry)
  BY ScenarioFact, EntryFact DEF BookInv
<1>3. Fresh(book, doc)
  BY <1>2 DEF Fresh, SourceRow
<1>4. HasContext(book, doc.date)
  BY <1>1 DEF CanReopen
<1>5. book' = Reopened(book, doc, today)
  BY <1>1
<1> HIDE DEF doc
<1> QED BY <1>2, <1>3, <1>4, <1>5, ReopenedFact DEF Steps

LEMMA CloseStep == ASSUME BookInv, Close PROVE Steps
<1>1. PICK date \in Now.dates, explicit \in BOOLEAN, opening \in Now.counts, actual \in Now.counts :
        /\ CanClose(book, date, explicit, opening, actual)
        /\ book' = Closed(book, date, explicit, opening, actual)
  BY DEF Close
<1>2. date \in Dates /\ Sound(book)
  BY ScenarioFact DEF BookInv
<1> QED BY <1>1, <1>2, ClosedFact DEF Steps

\* A step of any kind, and the steps that change nothing.
LEMMA EveryStep ==
  ASSUME BookInv, [Next]_vars PROVE BookInv' /\ Later(book, book')
<1>1. CASE UNCHANGED vars
  <2>1. BookInv'
    BY <1>1 DEF BookInv, vars
  <2>2. book' = book
    BY <1>1 DEF vars
  <2> QED BY <2>1, <2>2, LaterSame
<1>2. ASSUME Next PROVE Steps
  <2>1. ASSUME FailToPost PROVE Steps
    <3>1. PICK date \in Now.dates : HasContext(book, date) /\ book' = InContext(book, date)
      BY <2>1 DEF FailToPost
    <3>2. date \in Dates /\ Sound(book)
      BY ScenarioFact DEF BookInv
    <3> QED BY <3>1, <3>2, InContextFact DEF Steps
  <2>2. ASSUME CountStock PROVE Steps
    <3>1. PICK date \in Now.dates, value \in Now.counts :
            HasContext(book, date) /\ book' = RecordedCount(book, date, value)
      BY <2>2 DEF CountStock
    <3>2. date \in Dates /\ Sound(book)
      BY ScenarioFact DEF BookInv
    <3> QED BY <3>1, <3>2, RecordedCountFact DEF Steps
  <2>3. ASSUME DeleteCount PROVE Steps
    <3>1. PICK n \in book.counts : book' = DeletedCount(book, n)
      BY <2>3 DEF DeleteCount
    <3> QED BY <3>1, DeletedCountFact DEF Steps, BookInv
  <2> QED BY <1>2, <2>1, <2>2, <2>3, IssueStep, MarkPaidStep, DeleteStep, EditStep, EditPaidStep,
             EditReceiptStep, OpeningStep, CloseStep DEF Next
<1>3. ASSUME Next PROVE BookInv' /\ Later(book, book')
  <2>1. scenario' = scenario
    BY <1>3 DEF Next
  <2> QED BY <1>2, <1>3, <2>1 DEF Steps, BookInv
<1> QED BY <1>1, <1>3

LEMMA BookInvariant == Spec => []BookInv
<1>1. Init => BookInv
  BY ScenarioFact, NewBookFact DEF Init, BookInv
<1>2. BookInv /\ [Next]_vars => BookInv'
  BY EveryStep
<1> QED BY <1>1, <1>2, PTL DEF Spec

-----------------------------------------------------------------------------
(* What follows for every book *)

\* The rows of every table are well formed, and refer to rows that are there.
THEOREM RowsWellFormed == Spec => []RowsKept
<1>1. BookInv => RowsKept
  <2> SUFFICES ASSUME BookInv PROVE RowsKept
    OBVIOUS
  <2>1. Rows(book) /\ scenario \in DOMAIN Scenarios
    BY DEF BookInv, Sound
  <2> QED BY <2>1 DEF RowsKept, Rows, SourceRow, JournalRow, AllocRow, Live
<1> QED BY <1>1, BookInvariant, PTL

\* No two periods share a day: periods are stretched only where no other lies,
\* close where their last posting allows, and follow each other (repository.ts
\* activeContext, closeBooksRepository.ts).
THEOREM PeriodsNeverOverlap == Spec => []PeriodsDisjoint
<1>1. BookInv => PeriodsDisjoint
  BY DEF BookInv, Sound, Calendar, PeriodsDisjoint
<1> QED BY <1>1, BookInvariant, PTL

\* Whatever is posted, a correction or an edited receipt included, is dated
\* within the bounds its period has now, however they have been moved since.
THEOREM PostedInPeriod == Spec => []JournalsInPeriod
<1>1. BookInv => JournalsInPeriod
  BY DEF BookInv, Sound, Dating, JournalsInPeriod
<1> QED BY <1>1, BookInvariant, PTL

\* A journal is reversed once and by its opposite, if its document was taken
\* back, and not otherwise (documentService.ts reverseSource).
THEOREM ReversedOnce == Spec => []OneReversal
<1>1. ASSUME BookInv PROVE OneReversal
  <2>1. Answered(book) /\ Rows(book)
    BY <1>1 DEF BookInv, Sound
  <2> SUFFICES ASSUME NEW j \in DOMAIN book.journals
               PROVE  LET rs == {k \in DOMAIN book.journals : book.journals[k].reversalOf = j}
                          s == book.journals[j].source
                      IN /\ Cardinality(rs) <= 1
                         /\ rs # {} <=> s # 0 /\ book.sources[s].reversed
                         /\ \A k \in rs : book.journals[k].lines = Opposite(book.journals[j].lines)
    BY DEF OneReversal
  <2> DEFINE rs == {k \in DOMAIN book.journals : book.journals[k].reversalOf = j}
  <2>2. j # 0
    BY <2>1, JournalFact
  <2>3. Cardinality(rs) <= 1
    <3>1. \A k, l \in rs : k = l
      BY <2>1, <2>2 DEF Answered
    <3> HIDE DEF rs
    <3>2. rs = {} \/ \E k : rs = {k}
      BY <3>1
    <3>3. CASE rs = {}
      BY <3>3, FS_EmptySet
    <3>4. ASSUME NEW k, rs = {k} PROVE Cardinality(rs) <= 1
      BY <3>4, FS_Singleton
    <3> QED BY <3>2, <3>3, <3>4
  <2>4. rs # {} <=> Undone(book, j)
    BY <2>1, <2>2 DEF Answered
  <2>5. \A k \in rs : book.journals[k].lines = Opposite(book.journals[j].lines)
    BY <2>1, <2>2 DEF Answered
  <2> QED BY <2>3, <2>4, <2>5 DEF Undone
<1> QED BY <1>1, BookInvariant, PTL

\* One opening balance is in force at a time: the old one is taken back before
\* another is posted.
THEOREM OneOpeningInForce == Spec => []OneOpening
<1>1. ASSUME BookInv PROVE OneOpening
  <2> DEFINE ss == Opening(book)
  <2>1. \A s, t \in ss : s = t
    BY <1>1 DEF BookInv, Sound, OpeningOnce
  <2> HIDE DEF ss
  <2>2. ss = {} \/ \E s : ss = {s}
    BY <2>1
  <2>3. Cardinality(ss) <= 1
    BY <2>2, FS_EmptySet, FS_Singleton
  <2> QED BY <2>3 DEF OneOpening, ss
<1> QED BY <1>1, BookInvariant, PTL

\* A closed period keeps its bounds and its journals, whatever is done after:
\* corrections go to an open period.
THEOREM ClosedForGood == Spec => ClosedFrozen
<1> DEFINE Kept == \A p \in DOMAIN book.periods \ OpenPeriods(book) :
                     /\ book'.periods[p] = book.periods[p]
                     /\ JournalsIn(book', p) = JournalsIn(book, p)
                     /\ \A j \in JournalsIn(book, p) : book'.journals[j] = book.journals[j]
<1>1. ASSUME BookInv, [Next]_vars PROVE Kept
  <2> SUFFICES ASSUME NEW p \in Frozen(book)
               PROVE  /\ book'.periods[p] = book.periods[p]
                      /\ JournalsIn(book', p) = JournalsIn(book, p)
                      /\ \A j \in JournalsIn(book, p) : book'.journals[j] = book.journals[j]
    BY DEF Frozen
  <2>1. Later(book, book')
    BY <1>1, EveryStep
  <2> QED BY <2>1 DEF Later, JournalsIn
<1>2. BookInv /\ [Next]_vars => [Kept]_vars
  BY <1>1
<1>3. Spec => [][Kept]_vars
  <2> HIDE DEF Kept
  <2> QED BY <1>2, BookInvariant, PTL DEF Spec
<1> QED BY <1>3 DEF ClosedFrozen

\* Money is allocated only from receipts in force, whichever of an invoice, a
\* receipt and the invoice that replaced another was deleted or edited first
\* (documentService.ts; DropRows, RowsOf and Repointed in the model).
THEOREM PaidFromReceiptsInForce == Spec => []AllocatedInForce
<1>1. BookInv => AllocatedInForce
  BY DEF BookInv, Sound, Rows, AllocRow, AllocatedInForce
<1> QED BY <1>1, BookInvariant, PTL
=============================================================================
