------------------------------ MODULE XlProofs ------------------------------
(***************************************************************************)
(* undo() and redo() of the armK workbook retrace the line of contents     *)
(* that the operations drew, for any sheets, cells, names and contents and *)
(* any number of operations.                                               *)
(***************************************************************************)
EXTENDS XlHistory, ProofLemmas, TLAPS

HInv == TypeOK /\ HistoryInv

----------------------------------------------------------------------------
\* What one step does to the contents

(***************************************************************************)
(* Setting an entry of a table and putting the old one back changes        *)
(* nothing.                                                                *)
(***************************************************************************)
LEMMA PutBack ==
  ASSUME NEW A, NEW B, NEW C, NEW f \in [A -> [B -> C]], NEW g,
         NEW a \in A, NEW b \in B, NEW new,
         g = [f EXCEPT ![a][b] = new]
  PROVE  [g EXCEPT ![a][b] = f[a][b]] = f
<1> DEFINE h == [g EXCEPT ![a][b] = f[a][b]]
<1>1. g = [x \in A |-> IF x = a THEN [f[a] EXCEPT ![b] = new] ELSE f[x]]
  OBVIOUS
<1>2. h = [x \in A |-> IF x = a THEN [g[a] EXCEPT ![b] = f[a][b]] ELSE g[x]]
  BY <1>1
<1>3. [[f[a] EXCEPT ![b] = new] EXCEPT ![b] = f[a][b]] = f[a]
  <2>1. f[a] \in [B -> C]
    OBVIOUS
  <2> QED BY <2>1
<1>4. \A x \in A : h[x] = f[x]
  BY <1>1, <1>2, <1>3
<1>5. h = [x \in A |-> h[x]] /\ f = [x \in A |-> f[x]]
  BY <1>2
<1> QED BY <1>4, <1>5

(***************************************************************************)
(* list.remove() takes the last element away when it occurs once.          *)
(***************************************************************************)
LEMMA RemoveLast ==
  ASSUME NEW q \in Seq(Sheets), NEW s \in Sheets,
         \A i \in 1 .. Len(q) : q[i] # s
  PROVE  RemoveFirst(Append(q, s), s) = q
<1> DEFINE r == Append(q, s)
           k == Len(q) + 1
           I == {i \in 1 .. Len(r) : r[i] = s}
<1>1. /\ r \in Seq(Sheets) /\ Len(r) = k /\ k \in Nat
      /\ \A j \in 1 .. Len(q) : r[j] = q[j]
      /\ r[k] = s
  BY AppendSeq
<1>2. I = {k} /\ \E i \in 1 .. Len(r) : r[i] = s
  <2> HIDE DEF r
  <2> QED BY <1>1
<1>3. SelectInSeq(r, LAMBDA v : v = s) = k
  <2>1. SelectInSeq(r, LAMBDA v : v = s) = IF I # {} THEN Min(I) ELSE 0
    BY DEF SelectInSeq
  <2>2. Min({k}) = k
    <3>1. k \in {k} /\ \A y \in {k} : k <= y
      BY <1>1
    <3> QED BY <3>1 DEF Min
  <2> QED BY <1>2, <2>1, <2>2
<1>4. RemoveFirst(r, s) = SubSeq(r, 1, k - 1) \o SubSeq(r, k + 1, Len(r))
  BY <1>2, <1>3 DEF RemoveFirst, RemoveAt
<1>5. SubSeq(r, k + 1, Len(r)) = << >>
  <2> HIDE DEF r
  <2>1. k + 1 \in Int /\ Len(r) \in Int /\ Len(r) < k + 1
    BY <1>1
  <2> QED BY <2>1, SubSeqEmpty
<1>6. /\ SubSeq(r, 1, k - 1) \in Seq(Sheets)
      /\ SubSeq(r, 1, k - 1) = q
  <2>1. k - 1 = Len(q) /\ Len(q) \in 0 .. Len(r)
    BY <1>1
  <2>2. /\ SubSeq(r, 1, Len(q)) \in Seq(Sheets) /\ Len(SubSeq(r, 1, Len(q))) = Len(q)
        /\ \A j \in 1 .. Len(q) : SubSeq(r, 1, Len(q))[j] = r[j]
    <3> HIDE DEF r
    <3> QED BY <1>1, <2>1, PrefixSeq
  <2>3. SubSeq(r, 1, Len(q)) = q
    <3> HIDE DEF r
    <3> QED BY <1>1, <2>2, SeqEqual
  <2> QED BY <2>1, <2>3
<1> QED BY <1>4, <1>5, <1>6, ConcatEmptySeq

----------------------------------------------------------------------------
\* What one step does to the line and the stacks

(***************************************************************************)
(* A journaled operation that leads from the present contents to well      *)
(* formed ones cuts the line and adds a point.                             *)
(***************************************************************************)
LEMMA DoStep ==
  ASSUME HInv, NEW e \in Entry, Log(e), Links(e, Snapshot, Snapshot'),
         Snapshot' \in Points, WellFormed(Snapshot'),
         hist' = Append(SubSeq(hist, 1, Len(journal) + 1), Snapshot')
  PROVE  HInv'
<1> DEFINE n == Len(journal)
           cut == SubSeq(hist, 1, n + 1)
           q == Snapshot'
<1>0. /\ journal \in Seq(Entry) /\ n \in Nat /\ hist \in Seq(Points)
      /\ Len(hist) \in Nat /\ n + 1 \in 1 .. Len(hist) /\ n + 1 \in 0 .. Len(hist)
      /\ Len(redo) \in Nat
  <2>1. /\ journal \in Seq(Entry) /\ redo \in Seq(Entry) /\ hist \in Seq(Points)
        /\ Len(hist) = Len(journal) + Len(redo) + 1
    BY DEF HInv, HistoryInv, StandsOnLine, TypeOK
  <2>2. Len(journal) \in Nat /\ Len(redo) \in Nat
    BY <2>1
  <2> QED BY <2>1, <2>2
<1>1. /\ cut \in Seq(Points) /\ Len(cut) = n + 1
      /\ \A j \in 1 .. n + 1 : cut[j] = hist[j]
  BY <1>0, PrefixSeq
<1>2. /\ hist' \in Seq(Points) /\ Len(hist') = n + 2
      /\ \A j \in 1 .. n + 1 : hist'[j] = hist[j]
      /\ hist'[n + 2] = q
  <2> HIDE DEF cut, q, n
  <2>1. hist' = Append(cut, q) /\ q \in Points
    BY DEF cut, q, n
  <2>2. n + 1 + 1 = n + 2
    BY <1>0
  <2> QED BY <2>1, <2>2, <1>0, <1>1, AppendSeq
<1>3. /\ journal' \in Seq(Entry) /\ Len(journal') = n + 1 /\ journal'[n + 1] = e
      /\ \A i \in 1 .. n : journal'[i] = journal[i]
      /\ redo' = << >> /\ past' = past
  BY <1>0, AppendSeq DEF Log
<1>4. TypeOK'
  <2>1. past' \in Nat /\ redo' \in Seq(Entry) /\ journal' \in Seq(Entry)
    BY <1>3 DEF HInv, TypeOK
  <2>2. /\ present' \in SUBSET Sheets /\ order' \in Seq(Sheets) /\ clock' \in Nat
        /\ cells' \in [Sheets -> [Addrs -> Raws \cup {Empty}]]
        /\ names' \in [Sheets -> [NameIds -> Targets \cup {Unbound}]]
    BY DEF Snapshot, Points
  <2> QED BY <2>1, <2>2 DEF TypeOK
<1>5. StandsOnLine'
  <2>1. Len(redo') = 0 /\ Len(hist') = Len(journal') + 0 + 1 /\ Len(journal') + 1 = n + 2
    BY <1>0, <1>2, <1>3
  <2> QED BY <1>2, <2>1 DEF StandsOnLine
<1>6. JournalLinks'
  <2> SUFFICES ASSUME NEW i \in 1 .. n + 1 PROVE Links(journal'[i], hist'[i], hist'[i + 1])
    BY <1>0, <1>3 DEF JournalLinks
  <2>1. CASE i \in 1 .. n
    <3>1. i + 1 \in 1 .. n + 1 /\ i \in 1 .. n + 1
      BY <1>0, <2>1
    <3>2. Links(journal[i], hist[i], hist[i + 1])
      BY <2>1 DEF HInv, HistoryInv, JournalLinks
    <3> QED BY <1>2, <1>3, <2>1, <3>1, <3>2
  <2>2. CASE i = n + 1
    <3>1. hist'[i] = Snapshot /\ hist'[i + 1] = q
      BY <1>0, <1>2, <2>2 DEF HInv, HistoryInv, StandsOnLine
    <3> QED BY <1>3, <2>2, <3>1
  <2> QED BY <1>0, <2>1, <2>2
<1>7. RedoLinks'
  BY <1>3 DEF RedoLinks
<1>8. AllWellFormed'
  <2> SUFFICES ASSUME NEW i \in 1 .. n + 2 PROVE WellFormed(hist'[i])
    BY <1>2 DEF AllWellFormed
  <2>1. CASE i \in 1 .. n + 1
    <3>1. i \in 1 .. Len(hist)
      BY <1>0, <2>1
    <3> QED BY <1>2, <2>1, <3>1 DEF HInv, HistoryInv, AllWellFormed
  <2>2. CASE i = n + 2
    BY <1>2, <2>2
  <2> QED BY <1>0, <2>1, <2>2
<1> QED BY <1>4, <1>5, <1>6, <1>7, <1>8 DEF HInv, HistoryInv

(***************************************************************************)
(* What HInv says of the lengths, and of the entries next to the present   *)
(* point.                                                                  *)
(***************************************************************************)
LEMMA Lengths ==
  ASSUME HInv
  PROVE  /\ journal \in Seq(Entry) /\ redo \in Seq(Entry) /\ hist \in Seq(Points)
         /\ Len(journal) \in Nat /\ Len(redo) \in Nat /\ Len(hist) \in Nat
         /\ Len(hist) = Len(journal) + Len(redo) + 1
         /\ hist[Len(journal) + 1] = Snapshot /\ Snapshot \in Points
<1>1. /\ journal \in Seq(Entry) /\ redo \in Seq(Entry) /\ hist \in Seq(Points)
      /\ Len(hist) = Len(journal) + Len(redo) + 1
      /\ hist[Len(journal) + 1] = Snapshot
  BY DEF HInv, HistoryInv, StandsOnLine, TypeOK
<1>2. Len(journal) \in Nat /\ Len(redo) \in Nat /\ Len(hist) \in Nat
  BY <1>1
<1>3. Snapshot \in Points
  <2>1. Len(journal) + 1 \in 1 .. Len(hist)
    BY <1>1, <1>2
  <2> QED BY <1>1, <2>1
<1> QED BY <1>1, <1>2, <1>3

LEMMA UndoLink ==
  ASSUME HInv, journal # << >>
  PROVE  /\ Len(journal) \in 1 .. Len(hist) /\ hist[Len(journal)] \in Points
         /\ Last(journal) \in Entry
         /\ Links(Last(journal), hist[Len(journal)], Snapshot)
         /\ WellFormed(hist[Len(journal)])
<1>1. Len(journal) \in Nat \ {0}
  BY Lengths, EmptySeq
<1>2. Len(journal) \in 1 .. Len(hist) /\ Len(journal) \in 1 .. Len(journal)
  BY <1>1, Lengths
<1>3. Links(journal[Len(journal)], hist[Len(journal)], hist[Len(journal) + 1])
  BY <1>2 DEF HInv, HistoryInv, JournalLinks
<1> QED BY <1>2, <1>3, Lengths DEF Last, HInv, HistoryInv, AllWellFormed

LEMMA RedoLink ==
  ASSUME HInv, redo # << >>
  PROVE  /\ Len(journal) + 2 \in 1 .. Len(hist) /\ hist[Len(journal) + 2] \in Points
         /\ Last(redo) \in Entry
         /\ Links(Last(redo), Snapshot, hist[Len(journal) + 2])
         /\ WellFormed(hist[Len(journal) + 2])
<1>1. Len(redo) \in Nat \ {0}
  BY Lengths, EmptySeq
<1>2. /\ Len(journal) + 2 \in 1 .. Len(hist) /\ Len(redo) \in 1 .. Len(redo)
      /\ Len(hist) - Len(redo) = Len(journal) + 1
      /\ Len(hist) - Len(redo) + 1 = Len(journal) + 2
  BY <1>1, Lengths
<1>3. Links(redo[Len(redo)], hist[Len(hist) - Len(redo)], hist[Len(hist) - Len(redo) + 1])
  BY <1>2 DEF HInv, HistoryInv, RedoLinks
<1> QED BY <1>2, <1>3, Lengths DEF Last, HInv, HistoryInv, AllWellFormed

(***************************************************************************)
(* Moving back: what is reverted becomes what can be redone.               *)
(***************************************************************************)
LEMMA UndoStep ==
  ASSUME HInv, journal # << >>,
         journal' = Front(journal), redo' = Append(redo, Last(journal)),
         UNCHANGED << hist, past >>, Snapshot' = hist[Len(journal)]
  PROVE  HInv'
<1> DEFINE n == Len(journal)
           r == Len(redo)
<1>0. n \in Nat \ {0} /\ r \in Nat /\ Len(hist) = n + r + 1
  BY Lengths, EmptySeq
<1>1. /\ journal' \in Seq(Entry) /\ Len(journal') = n - 1
      /\ \A i \in 1 .. n - 1 : journal'[i] = journal[i]
  BY Lengths, FrontSeq DEF Front
<1>2. /\ redo' \in Seq(Entry) /\ Len(redo') = r + 1 /\ redo'[r + 1] = Last(journal)
      /\ \A j \in 1 .. r : redo'[j] = redo[j]
  BY Lengths, UndoLink, AppendSeq
<1>3. Snapshot' \in Points
  BY UndoLink
<1>4. TypeOK'
  <2>1. past' \in Nat
    BY DEF HInv, TypeOK
  <2>2. /\ present' \in SUBSET Sheets /\ order' \in Seq(Sheets) /\ clock' \in Nat
        /\ cells' \in [Sheets -> [Addrs -> Raws \cup {Empty}]]
        /\ names' \in [Sheets -> [NameIds -> Targets \cup {Unbound}]]
    BY <1>3 DEF Snapshot, Points
  <2> QED BY <1>1, <1>2, <2>1, <2>2 DEF TypeOK
<1>5. StandsOnLine'
  <2>1. /\ Len(hist') = Len(journal') + Len(redo') + 1
        /\ Len(journal') + 1 = n
    BY <1>0, <1>1, <1>2
  <2> QED BY <2>1, Lengths DEF StandsOnLine
<1>6. JournalLinks'
  <2> SUFFICES ASSUME NEW i \in 1 .. n - 1 PROVE Links(journal'[i], hist'[i], hist'[i + 1])
    BY <1>1 DEF JournalLinks
  <2>1. i \in 1 .. n
    BY <1>0
  <2> QED BY <1>1, <2>1 DEF HInv, HistoryInv, JournalLinks
<1>7. RedoLinks'
  <2> SUFFICES ASSUME NEW j \in 1 .. r + 1
               PROVE  Links(redo'[j], hist[Len(hist) - j], hist[Len(hist) - j + 1])
    BY <1>2 DEF RedoLinks
  <2>1. CASE j \in 1 .. r
    BY <1>2, <2>1 DEF HInv, HistoryInv, RedoLinks
  <2>2. CASE j = r + 1
    <3>1. Len(hist) - j = n /\ Len(hist) - j + 1 = n + 1
      BY <1>0, <2>2
    <3> QED BY <1>2, <2>2, <3>1, UndoLink, Lengths
  <2> QED BY <1>0, <2>1, <2>2
<1>8. AllWellFormed'
  BY DEF HInv, HistoryInv, AllWellFormed, WellFormed, OrderMatches, NamesResolve, DetachedBlank
<1> QED BY <1>4, <1>5, <1>6, <1>7, <1>8 DEF HInv, HistoryInv

(***************************************************************************)
(* Moving forward again.                                                   *)
(***************************************************************************)
LEMMA RedoStep ==
  ASSUME HInv, redo # << >>,
         redo' = Front(redo), journal' = Append(journal, Last(redo)),
         UNCHANGED << hist, past >>, Snapshot' = hist[Len(journal) + 2]
  PROVE  HInv'
<1> DEFINE n == Len(journal)
           r == Len(redo)
<1>0. n \in Nat /\ r \in Nat \ {0} /\ Len(hist) = n + r + 1
  BY Lengths, EmptySeq
<1>1. /\ redo' \in Seq(Entry) /\ Len(redo') = r - 1
      /\ \A j \in 1 .. r - 1 : redo'[j] = redo[j]
  BY Lengths, FrontSeq DEF Front
<1>2. /\ journal' \in Seq(Entry) /\ Len(journal') = n + 1 /\ journal'[n + 1] = Last(redo)
      /\ \A i \in 1 .. n : journal'[i] = journal[i]
  BY Lengths, RedoLink, AppendSeq
<1>3. Snapshot' \in Points
  BY RedoLink
<1>4. TypeOK'
  <2>1. past' \in Nat
    BY DEF HInv, TypeOK
  <2>2. /\ present' \in SUBSET Sheets /\ order' \in Seq(Sheets) /\ clock' \in Nat
        /\ cells' \in [Sheets -> [Addrs -> Raws \cup {Empty}]]
        /\ names' \in [Sheets -> [NameIds -> Targets \cup {Unbound}]]
    BY <1>3 DEF Snapshot, Points
  <2> QED BY <1>1, <1>2, <2>1, <2>2 DEF TypeOK
<1>5. StandsOnLine'
  <2>1. /\ Len(hist') = Len(journal') + Len(redo') + 1
        /\ Len(journal') + 1 = n + 2
    BY <1>0, <1>1, <1>2
  <2> QED BY <2>1, Lengths DEF StandsOnLine
<1>6. JournalLinks'
  <2> SUFFICES ASSUME NEW i \in 1 .. n + 1 PROVE Links(journal'[i], hist[i], hist[i + 1])
    BY <1>2 DEF JournalLinks
  <2>1. CASE i \in 1 .. n
    BY <1>2, <2>1 DEF HInv, HistoryInv, JournalLinks
  <2>2. CASE i = n + 1
    <3>1. i + 1 = n + 2
      BY <1>0, <2>2
    <3> QED BY <1>2, <2>2, <3>1, RedoLink, Lengths
  <2> QED BY <1>0, <2>1, <2>2
<1>7. RedoLinks'
  <2> SUFFICES ASSUME NEW j \in 1 .. r - 1
               PROVE  Links(redo'[j], hist[Len(hist) - j], hist[Len(hist) - j + 1])
    BY <1>1 DEF RedoLinks
  <2>1. j \in 1 .. r
    BY <1>0
  <2> QED BY <1>1, <2>1 DEF HInv, HistoryInv, RedoLinks
<1>8. AllWellFormed'
  BY DEF HInv, HistoryInv, AllWellFormed, WellFormed, OrderMatches, NamesResolve, DetachedBlank
<1> QED BY <1>4, <1>5, <1>6, <1>7, <1>8 DEF HInv, HistoryInv

(***************************************************************************)
(* A reload keeps well formed contents and forgets how they came about.    *)
(***************************************************************************)
LEMMA ReloadStep ==
  ASSUME HInv, Reload, hist' = << Snapshot' >>
  PROVE  HInv' /\ UNCHANGED Snapshot
<1>1. WellFormed(Snapshot)
  <2>1. Len(journal) + 1 \in 1 .. Len(hist)
    BY Lengths
  <2> QED BY <2>1, Lengths DEF HInv, HistoryInv, AllWellFormed
<1>2. present' = present
  BY <1>1 DEF Reload, WellFormed, OrderMatches, Snapshot
<1>3. cells' = cells /\ names' = names
  <2>1. /\ cells \in [Sheets -> [Addrs -> Raws \cup {Empty}]]
        /\ names \in [Sheets -> [NameIds -> Targets \cup {Unbound}]]
    BY DEF HInv, TypeOK
  <2>2. \A s \in Sheets \ present : cells[s] = BlankCells /\ names[s] = BlankNames
    BY <1>1 DEF WellFormed, DetachedBlank, Snapshot
  <2> QED BY <1>2, <2>1, <2>2 DEF Reload
<1>4. UNCHANGED Snapshot
  BY <1>2, <1>3 DEF Reload, Snapshot
<1>5. /\ journal' = << >> /\ redo' = << >> /\ past' \in Nat
  <2>1. past \in Nat /\ Len(journal) \in Nat
    BY Lengths DEF HInv, TypeOK
  <2> QED BY <2>1 DEF Reload
<1>6. TypeOK'
  <2>1. Snapshot' \in Points
    BY <1>4, Lengths
  <2>2. /\ present' \in SUBSET Sheets /\ order' \in Seq(Sheets) /\ clock' \in Nat
        /\ cells' \in [Sheets -> [Addrs -> Raws \cup {Empty}]]
        /\ names' \in [Sheets -> [NameIds -> Targets \cup {Unbound}]]
    BY <2>1 DEF Snapshot, Points
  <2>3. journal' \in Seq(Entry) /\ redo' \in Seq(Entry)
    BY <1>5
  <2> QED BY <1>5, <2>2, <2>3 DEF TypeOK
<1>7. /\ hist' \in Seq(Points) /\ Len(hist') = 1 /\ hist'[1] = Snapshot'
  BY <1>4, Lengths
<1>8. StandsOnLine' /\ JournalLinks' /\ RedoLinks'
  BY <1>5, <1>7 DEF StandsOnLine, JournalLinks, RedoLinks
<1>9. AllWellFormed'
  <2>1. WellFormed(hist'[1])
    BY <1>1, <1>4, <1>7
  <2> QED BY <1>7, <2>1 DEF AllWellFormed
<1> QED BY <1>4, <1>6, <1>8, <1>9 DEF HInv, HistoryInv

----------------------------------------------------------------------------
\* Each operation leads from well formed contents to well formed ones

LEMMA SnapshotWellFormed ==
  ASSUME HInv
  PROVE  WellFormed(Snapshot)
<1>1. Len(journal) + 1 \in 1 .. Len(hist)
  BY Lengths
<1> QED BY <1>1, Lengths DEF HInv, HistoryInv, AllWellFormed

LEMMA AddSheetLinks ==
  ASSUME HInv, NEW s \in Sheets, AddSheet(s)
  PROVE  /\ Record("add_sheet", s, NoSheet, 0, 0) \in Entry
         /\ Links(Record("add_sheet", s, NoSheet, 0, 0), Snapshot, Snapshot')
         /\ Snapshot' \in Points /\ WellFormed(Snapshot')
<1> DEFINE e == Record("add_sheet", s, NoSheet, 0, 0)
<1>0. /\ present \subseteq Sheets /\ order \in Seq(Sheets) /\ clock \in Nat
      /\ cells \in [Sheets -> [Addrs -> Raws \cup {Empty}]]
      /\ names \in [Sheets -> [NameIds -> Targets \cup {Unbound}]]
      /\ s \notin present
  BY DEF HInv, TypeOK, AddSheet
<1>1. /\ present = {order[i] : i \in 1 .. Len(order)}
      /\ \A i, j \in 1 .. Len(order) : order[i] = order[j] => i = j
      /\ \A x \in Sheets \ present : cells[x] = BlankCells /\ names[x] = BlankNames
      /\ \A x \in present, n \in NameIds :
            names[x][n] # Unbound => QualifierOf(names[x][n]) \in present \cup {NoSheet}
  BY SnapshotWellFormed
  DEF WellFormed, OrderMatches, NamesResolve, DetachedBlank, Snapshot
<1>2. cells[s] = BlankCells /\ names[s] = BlankNames
  BY <1>0, <1>1
<1>3. cells' = cells /\ names' = names /\ clock' = clock
  BY <1>0, <1>2 DEF AddSheet
<1>4. present' = present \cup {s} /\ order' = Append(order, s)
  BY DEF AddSheet
<1>5. e \in Entry
  BY DEF Record, Entry
<1>6. Links(e, Snapshot, Snapshot')
  BY <1>0, <1>2, <1>3, <1>4 DEF Links, SameTables, SameSheets, Record, Snapshot
<1>7. /\ Len(order) \in Nat /\ Len(order') = Len(order) + 1 /\ order' \in Seq(Sheets)
      /\ \A i \in 1 .. Len(order) : order'[i] = order[i]
      /\ order'[Len(order) + 1] = s
  BY <1>0, <1>4, AppendSeq
<1>8. Snapshot' \in Points
  BY <1>0, <1>3, <1>4, <1>7 DEF Snapshot, Points
<1>9. OrderMatches(Snapshot')
  <2>1. present' = {order'[i] : i \in 1 .. Len(order')}
    <3>1. \A x \in present' : \E i \in 1 .. Len(order') : order'[i] = x
      BY <1>1, <1>4, <1>7
    <3>2. \A i \in 1 .. Len(order') : order'[i] \in present'
      BY <1>1, <1>4, <1>7
    <3> QED BY <3>1, <3>2
  <2>2. \A i \in 1 .. Len(order) : order[i] # s
    BY <1>0, <1>1
  <2>3. \A i, j \in 1 .. Len(order') : order'[i] = order'[j] => i = j
    BY <1>1, <1>7, <2>2
  <2> QED BY <2>1, <2>3 DEF OrderMatches, Snapshot
<1>10. NamesResolve(Snapshot')
  <2> SUFFICES ASSUME NEW x \in present', NEW n \in NameIds, names'[x][n] # Unbound
               PROVE  QualifierOf(names'[x][n]) \in present' \cup {NoSheet}
    BY DEF NamesResolve, Snapshot
  <2>1. CASE x = s
    BY <1>2, <1>3, <2>1 DEF BlankNames
  <2>2. CASE x \in present
    BY <1>1, <1>3, <1>4, <2>2
  <2> QED BY <1>4, <2>1, <2>2
<1>11. DetachedBlank(Snapshot')
  BY <1>1, <1>3, <1>4 DEF DetachedBlank, Snapshot
<1> QED BY <1>5, <1>6, <1>8, <1>9, <1>10, <1>11 DEF WellFormed

(***************************************************************************)
(* Both set() and copy() replace the content of one cell.                  *)
(***************************************************************************)
LEMMA CellLinks ==
  ASSUME HInv, NEW op \in {"set", "copy"}, NEW s \in present, NEW a \in Addrs, NEW v \in Raws,
         cells' = [cells EXCEPT ![s][a] = v],
         UNCHANGED << present, order, names, clock >>
  PROVE  /\ Record(op, s, a, cells[s][a], v) \in Entry
         /\ Links(Record(op, s, a, cells[s][a], v), Snapshot, Snapshot')
         /\ Snapshot' \in Points /\ WellFormed(Snapshot')
<1>0. /\ present \subseteq Sheets /\ order \in Seq(Sheets) /\ clock \in Nat
      /\ cells \in [Sheets -> [Addrs -> Raws \cup {Empty}]]
      /\ names \in [Sheets -> [NameIds -> Targets \cup {Unbound}]]
  BY DEF HInv, TypeOK
<1>1. cells[s][a] \in Raws \cup {Empty} /\ s \in Sheets
  BY <1>0
<1>2. Record(op, s, a, cells[s][a], v) \in Entry
  BY <1>1 DEF Record, Entry
<1>3. Links(Record(op, s, a, cells[s][a], v), Snapshot, Snapshot')
  BY DEF Links, SameTables, SameSheets, Record, Snapshot
<1>4. /\ cells' \in [Sheets -> [Addrs -> Raws \cup {Empty}]]
      /\ \A x \in Sheets \ present : cells'[x] = cells[x]
  BY <1>0, <1>1
<1>5. Snapshot' \in Points
  BY <1>0, <1>4 DEF Snapshot, Points
<1>6. WellFormed(Snapshot')
  BY <1>4, SnapshotWellFormed
  DEF WellFormed, OrderMatches, NamesResolve, DetachedBlank, Snapshot
<1> QED BY <1>2, <1>3, <1>5, <1>6

LEMMA NameLinks ==
  ASSUME HInv, NEW s \in Sheets, NEW k \in NameIds, NEW t \in Targets, DefineName(s, k, t)
  PROVE  /\ Record("define_name", s, k, names[s][k], t) \in Entry
         /\ Links(Record("define_name", s, k, names[s][k], t), Snapshot, Snapshot')
         /\ Snapshot' \in Points /\ WellFormed(Snapshot')
<1>0. /\ present \subseteq Sheets /\ order \in Seq(Sheets) /\ clock \in Nat
      /\ cells \in [Sheets -> [Addrs -> Raws \cup {Empty}]]
      /\ names \in [Sheets -> [NameIds -> Targets \cup {Unbound}]]
  BY DEF HInv, TypeOK
<1>1. /\ s \in present /\ QualifierOf(t) \in present \cup {NoSheet}
      /\ names' = [names EXCEPT ![s][k] = t]
      /\ UNCHANGED << present, order, cells, clock >>
  BY DEF DefineName, ValidTarget
<1>2. Record("define_name", s, k, names[s][k], t) \in Entry
  <2>1. names[s][k] \in Targets \cup {Unbound}
    BY <1>0
  <2> QED BY <2>1 DEF Record, Entry
<1>3. Links(Record("define_name", s, k, names[s][k], t), Snapshot, Snapshot')
  BY <1>1 DEF Links, SameTables, SameSheets, Record, Snapshot
<1>4. /\ names' \in [Sheets -> [NameIds -> Targets \cup {Unbound}]]
      /\ \A x \in Sheets, n \in NameIds :
            names'[x][n] = IF x = s /\ n = k THEN t ELSE names[x][n]
      /\ \A x \in Sheets \ present : names'[x] = names[x]
  BY <1>0, <1>1
<1>5. Snapshot' \in Points
  BY <1>0, <1>1, <1>4 DEF Snapshot, Points
<1>6. NamesResolve(Snapshot')
  <2> SUFFICES ASSUME NEW x \in present, NEW n \in NameIds, names'[x][n] # Unbound
               PROVE  QualifierOf(names'[x][n]) \in present \cup {NoSheet}
    BY <1>1 DEF NamesResolve, Snapshot
  <2>1. CASE x = s /\ n = k
    BY <1>0, <1>1, <1>4, <2>1
  <2>2. CASE ~ (x = s /\ n = k)
    <3>1. names'[x][n] = names[x][n]
      BY <1>0, <1>4, <2>2
    <3> QED BY <3>1, SnapshotWellFormed DEF WellFormed, NamesResolve, Snapshot
  <2> QED BY <2>1, <2>2
<1>7. OrderMatches(Snapshot') /\ DetachedBlank(Snapshot')
  BY <1>1, <1>4, SnapshotWellFormed
  DEF WellFormed, OrderMatches, DetachedBlank, Snapshot
<1> QED BY <1>2, <1>3, <1>5, <1>6, <1>7 DEF WellFormed

LEMMA ClockLinks ==
  ASSUME HInv, AdvanceClock
  PROVE  /\ Record("advance_clock", NoSheet, NoSheet, clock, clock + 1) \in Entry
         /\ Links(Record("advance_clock", NoSheet, NoSheet, clock, clock + 1), Snapshot, Snapshot')
         /\ Snapshot' \in Points /\ WellFormed(Snapshot')
<1>0. /\ present \subseteq Sheets /\ order \in Seq(Sheets) /\ clock \in Nat
      /\ cells \in [Sheets -> [Addrs -> Raws \cup {Empty}]]
      /\ names \in [Sheets -> [NameIds -> Targets \cup {Unbound}]]
  BY DEF HInv, TypeOK
<1>1. clock' = clock + 1 /\ UNCHANGED << present, order, cells, names >>
  BY DEF AdvanceClock
<1>2. Record("advance_clock", NoSheet, NoSheet, clock, clock + 1) \in Entry
  BY <1>0 DEF Record, Entry
<1>3. Links(Record("advance_clock", NoSheet, NoSheet, clock, clock + 1), Snapshot, Snapshot')
  BY <1>1 DEF Links, SameTables, SameSheets, Record, Snapshot
<1>4. Snapshot' \in Points
  BY <1>0, <1>1 DEF Snapshot, Points
<1>5. WellFormed(Snapshot')
  BY <1>1, SnapshotWellFormed
  DEF WellFormed, OrderMatches, NamesResolve, DetachedBlank, Snapshot
<1> QED BY <1>2, <1>3, <1>4, <1>5

(***************************************************************************)
(* Every journaled operation keeps the invariant.                          *)
(***************************************************************************)
LEMMA EditStep ==
  ASSUME HInv, Edit, hist' = Append(SubSeq(hist, 1, Len(journal) + 1), Snapshot')
  PROVE  HInv'
<1>1. ASSUME NEW s \in Sheets, AddSheet(s) PROVE HInv'
  BY <1>1, AddSheetLinks, DoStep DEF AddSheet
<1>2. ASSUME NEW s \in Sheets, NEW a \in Addrs, NEW v \in Raws, SetCell(s, a, v)
      PROVE  HInv'
  <2>1. /\ s \in present /\ Log(Record("set", s, a, cells[s][a], v))
        /\ cells' = [cells EXCEPT ![s][a] = v]
        /\ UNCHANGED << present, order, names, clock >>
    BY <1>2 DEF SetCell
  <2>2. /\ Record("set", s, a, cells[s][a], v) \in Entry
        /\ Links(Record("set", s, a, cells[s][a], v), Snapshot, Snapshot')
        /\ Snapshot' \in Points /\ WellFormed(Snapshot')
    BY <2>1, CellLinks
  <2> QED BY <2>1, <2>2, DoStep
<1>3. ASSUME NEW s \in Sheets, NEW t \in Sheets, NEW a \in Addrs, NEW b \in Addrs,
             Copy(s, a, t, b)
      PROVE  HInv'
  <2> DEFINE v == CopyText(cells[s][a], a, b)
  <2>1. /\ t \in present /\ Log(Record("copy", t, b, cells[t][b], v))
        /\ cells' = [cells EXCEPT ![t][b] = v]
        /\ UNCHANGED << present, order, names, clock >>
        /\ cells[s][a] # Empty
    BY <1>3 DEF Copy
  <2>2. v \in Raws
    <3>1. cells[s][a] \in Raws
      BY <2>1 DEF HInv, TypeOK
    <3> QED BY <3>1, CopyAssumption
  <2> HIDE DEF v
  <2>3. /\ Record("copy", t, b, cells[t][b], v) \in Entry
        /\ Links(Record("copy", t, b, cells[t][b], v), Snapshot, Snapshot')
        /\ Snapshot' \in Points /\ WellFormed(Snapshot')
    BY <2>1, <2>2, CellLinks
  <2> QED BY <2>1, <2>3, DoStep
<1>4. ASSUME NEW s \in Sheets, NEW k \in NameIds, NEW t \in Targets, DefineName(s, k, t)
      PROVE  HInv'
  <2>1. Log(Record("define_name", s, k, names[s][k], t))
    BY <1>4 DEF DefineName
  <2> QED BY <1>4, <2>1, NameLinks, DoStep
<1>5. CASE AdvanceClock
  <2>1. Log(Record("advance_clock", NoSheet, NoSheet, clock, clock + 1))
    BY <1>5 DEF AdvanceClock
  <2> QED BY <1>5, <2>1, ClockLinks, DoStep
<1> QED BY <1>1, <1>2, <1>3, <1>4, <1>5 DEF Edit

(***************************************************************************)
(* undo() arrives at the previous point of the line, redo() at the next.   *)
(***************************************************************************)
LEMMA SamePoint ==
  ASSUME NEW p \in Points,
         present' = p.present, order' = p.order, cells' = p.cells, names' = p.names,
         clock' = p.clock
  PROVE  Snapshot' = p
<1>1. p = [present |-> p.present, order |-> p.order, cells |-> p.cells,
           names |-> p.names, clock |-> p.clock]
  BY DEF Points
<1> QED BY <1>1 DEF Snapshot

LEMMA UndoArrives ==
  ASSUME HInv, Undo
  PROVE  /\ journal # << >> /\ journal' = Front(journal)
         /\ redo' = Append(redo, Last(journal)) /\ UNCHANGED past
         /\ Snapshot' = hist[Len(journal)]
<1>1. /\ journal # << >> /\ journal' = Front(journal)
      /\ redo' = Append(redo, Last(journal)) /\ UNCHANGED past
  BY DEF Undo, UndoAddSheet, UndoCell, UndoName, UndoClock, Undoing
<1> DEFINE e == Last(journal)
           p == hist[Len(journal)]
<1>2. /\ p \in Points /\ Links(e, p, Snapshot) /\ WellFormed(p)
  BY <1>1, UndoLink
<1>3. /\ p.order \in Seq(Sheets) /\ p.present \subseteq Sheets
      /\ p.cells \in [Sheets -> [Addrs -> Raws \cup {Empty}]]
      /\ p.names \in [Sheets -> [NameIds -> Targets \cup {Unbound}]]
  BY <1>2 DEF Points
<1> HIDE DEF e, p
<1>4. CASE UndoAddSheet
  <2>1. /\ e.op = "add_sheet" /\ present' = present \ {e.sheet}
        /\ order' = RemoveFirst(order, e.sheet)
        /\ UNCHANGED << cells, names, clock >>
    BY <1>4 DEF UndoAddSheet, Undoing, e
  <2>2. /\ e.sheet \in Sheets /\ e.sheet \notin p.present
        /\ present = p.present \cup {e.sheet} /\ order = Append(p.order, e.sheet)
        /\ cells = p.cells /\ names = p.names /\ clock = p.clock
    BY <1>2, <2>1 DEF Links, SameTables, SameSheets, Snapshot
  <2>3. \A i \in 1 .. Len(p.order) : p.order[i] # e.sheet
    BY <1>2, <2>2 DEF WellFormed, OrderMatches
  <2>4. order' = p.order
    BY <1>3, <2>1, <2>2, <2>3, RemoveLast
  <2>5. present' = p.present
    BY <2>1, <2>2
  <2> QED BY <1>1, <1>2, <2>1, <2>2, <2>4, <2>5, SamePoint DEF p
<1>5. CASE UndoCell
  <2>1. /\ e.op \in {"set", "copy"} /\ cells' = [cells EXCEPT ![e.sheet][e.key] = e.old]
        /\ UNCHANGED << present, order, names, clock >>
    BY <1>5 DEF UndoCell, Undoing, e
  <2>2. /\ e.sheet \in p.present /\ e.key \in Addrs
        /\ p.cells[e.sheet][e.key] = e.old
        /\ cells = [p.cells EXCEPT ![e.sheet][e.key] = e.new]
        /\ present = p.present /\ order = p.order /\ names = p.names /\ clock = p.clock
    BY <1>2, <2>1 DEF Links, SameTables, SameSheets, Snapshot
  <2>3. cells' = p.cells
    <3>1. e.sheet \in Sheets /\ cells' = [cells EXCEPT ![e.sheet][e.key] = p.cells[e.sheet][e.key]]
      BY <1>3, <2>1, <2>2
    <3> DEFINE f == p.cells
    <3>2. /\ f \in [Sheets -> [Addrs -> Raws \cup {Empty}]] /\ e.sheet \in Sheets /\ e.key \in Addrs
          /\ cells = [f EXCEPT ![e.sheet][e.key] = e.new]
          /\ cells' = [cells EXCEPT ![e.sheet][e.key] = f[e.sheet][e.key]]
      BY <1>3, <2>2, <3>1
    <3> HIDE DEF f
    <3>3. [cells EXCEPT ![e.sheet][e.key] = f[e.sheet][e.key]] = f
      BY <3>2, PutBack
    <3> QED BY <3>2, <3>3 DEF f
  <2> QED BY <1>1, <1>2, <2>1, <2>2, <2>3, SamePoint DEF p
<1>6. CASE UndoName
  <2>1. /\ e.op = "define_name" /\ names' = [names EXCEPT ![e.sheet][e.key] = e.old]
        /\ UNCHANGED << present, order, cells, clock >>
    BY <1>6 DEF UndoName, Undoing, e
  <2>2. /\ e.sheet \in p.present /\ e.key \in NameIds
        /\ p.names[e.sheet][e.key] = e.old
        /\ names = [p.names EXCEPT ![e.sheet][e.key] = e.new]
        /\ present = p.present /\ order = p.order /\ cells = p.cells /\ clock = p.clock
    BY <1>2, <2>1 DEF Links, SameTables, SameSheets, Snapshot
  <2>3. names' = p.names
    <3>1. e.sheet \in Sheets /\ names' = [names EXCEPT ![e.sheet][e.key] = p.names[e.sheet][e.key]]
      BY <1>3, <2>1, <2>2
    <3> DEFINE f == p.names
    <3>2. /\ f \in [Sheets -> [NameIds -> Targets \cup {Unbound}]] /\ e.sheet \in Sheets /\ e.key \in NameIds
          /\ names = [f EXCEPT ![e.sheet][e.key] = e.new]
          /\ names' = [names EXCEPT ![e.sheet][e.key] = f[e.sheet][e.key]]
      BY <1>3, <2>2, <3>1
    <3> HIDE DEF f
    <3>3. [names EXCEPT ![e.sheet][e.key] = f[e.sheet][e.key]] = f
      BY <3>2, PutBack
    <3> QED BY <3>2, <3>3 DEF f
  <2> QED BY <1>1, <1>2, <2>1, <2>2, <2>3, SamePoint DEF p
<1>7. CASE UndoClock
  <2>1. /\ e.op = "advance_clock" /\ clock' = e.old
        /\ UNCHANGED << present, order, cells, names >>
    BY <1>7 DEF UndoClock, Undoing, e
  <2>2. /\ p.clock = e.old
        /\ present = p.present /\ order = p.order /\ cells = p.cells /\ names = p.names
    BY <1>2, <2>1 DEF Links, SameTables, SameSheets, Snapshot
  <2> QED BY <1>1, <1>2, <2>1, <2>2, SamePoint DEF p
<1> QED BY <1>4, <1>5, <1>6, <1>7 DEF Undo

LEMMA RedoArrives ==
  ASSUME HInv, Redo
  PROVE  /\ redo # << >> /\ redo' = Front(redo)
         /\ journal' = Append(journal, Last(redo)) /\ UNCHANGED past
         /\ Snapshot' = hist[Len(journal) + 2]
<1>1. /\ redo # << >> /\ redo' = Front(redo)
      /\ journal' = Append(journal, Last(redo)) /\ UNCHANGED past
  BY DEF Redo, RedoAddSheet, RedoCell, RedoName, RedoClock, Redoing
<1> DEFINE e == Last(redo)
           q == hist[Len(journal) + 2]
<1>2. q \in Points /\ Links(e, Snapshot, q)
  BY <1>1, RedoLink
<1> HIDE DEF e, q
<1>3. CASE RedoAddSheet
  <2>1. /\ e.op = "add_sheet" /\ present' = present \cup {e.sheet}
        /\ order' = Append(order, e.sheet) /\ UNCHANGED << cells, names, clock >>
    BY <1>3 DEF RedoAddSheet, Redoing, e
  <2>2. /\ q.present = present \cup {e.sheet} /\ q.order = Append(order, e.sheet)
        /\ q.cells = cells /\ q.names = names /\ q.clock = clock
    BY <1>2, <2>1 DEF Links, SameTables, SameSheets, Snapshot
  <2> QED BY <1>1, <1>2, <2>1, <2>2, SamePoint DEF q
<1>4. CASE RedoCell
  <2>1. /\ e.op \in {"set", "copy"} /\ cells' = [cells EXCEPT ![e.sheet][e.key] = e.new]
        /\ UNCHANGED << present, order, names, clock >>
    BY <1>4 DEF RedoCell, Redoing, e
  <2>2. /\ q.cells = [cells EXCEPT ![e.sheet][e.key] = e.new]
        /\ q.present = present /\ q.order = order /\ q.names = names /\ q.clock = clock
    BY <1>2, <2>1 DEF Links, SameTables, SameSheets, Snapshot
  <2> QED BY <1>1, <1>2, <2>1, <2>2, SamePoint DEF q
<1>5. CASE RedoName
  <2>1. /\ e.op = "define_name" /\ names' = [names EXCEPT ![e.sheet][e.key] = e.new]
        /\ UNCHANGED << present, order, cells, clock >>
    BY <1>5 DEF RedoName, Redoing, e
  <2>2. /\ q.names = [names EXCEPT ![e.sheet][e.key] = e.new]
        /\ q.present = present /\ q.order = order /\ q.cells = cells /\ q.clock = clock
    BY <1>2, <2>1 DEF Links, SameTables, SameSheets, Snapshot
  <2> QED BY <1>1, <1>2, <2>1, <2>2, SamePoint DEF q
<1>6. CASE RedoClock
  <2>1. /\ e.op = "advance_clock" /\ clock' = e.new
        /\ UNCHANGED << present, order, cells, names >>
    BY <1>6 DEF RedoClock, Redoing, e
  <2>2. /\ q.clock = e.new
        /\ q.present = present /\ q.order = order /\ q.cells = cells /\ q.names = names
    BY <1>2, <2>1 DEF Links, SameTables, SameSheets, Snapshot
  <2> QED BY <1>1, <1>2, <2>1, <2>2, SamePoint DEF q
<1> QED BY <1>3, <1>4, <1>5, <1>6 DEF Redo

----------------------------------------------------------------------------
\* The theorems

(***************************************************************************)
(* The inductive invariant of undo() and redo().                           *)
(***************************************************************************)
LEMMA HInvInit == HInit => HInv
<1> SUFFICES ASSUME HInit PROVE HInv
  OBVIOUS
<1>1. /\ present = {} /\ order = << >> /\ clock = 0 /\ past = 0
      /\ cells = [s \in Sheets |-> BlankCells] /\ names = [s \in Sheets |-> BlankNames]
      /\ journal = << >> /\ redo = << >> /\ hist = << Snapshot >>
  BY DEF HInit, Init
<1>2. TypeOK
  BY <1>1 DEF TypeOK, BlankCells, BlankNames
<1>3. Snapshot \in Points
  BY <1>2 DEF TypeOK, Snapshot, Points
<1>4. hist \in Seq(Points) /\ Len(hist) = 1 /\ hist[1] = Snapshot
  BY <1>1, <1>3
<1>5. StandsOnLine /\ JournalLinks /\ RedoLinks
  BY <1>1, <1>4 DEF StandsOnLine, JournalLinks, RedoLinks
<1>6. WellFormed(Snapshot)
  BY <1>1 DEF WellFormed, OrderMatches, NamesResolve, DetachedBlank, Snapshot
<1>7. AllWellFormed
  BY <1>4, <1>6 DEF AllWellFormed
<1> QED BY <1>2, <1>5, <1>7 DEF HInv, HistoryInv

LEMMA HInvStep ==
  ASSUME HInv, [HNext]_hvars
  PROVE  HInv'
<1>1. CASE Edit /\ hist' = Append(SubSeq(hist, 1, Len(journal) + 1), Snapshot')
  BY <1>1, EditStep
<1>2. CASE Undo /\ UNCHANGED hist
  BY <1>2, UndoArrives, UndoStep
<1>3. CASE Redo /\ UNCHANGED hist
  BY <1>3, RedoArrives, RedoStep
<1>4. CASE Reload /\ hist' = << Snapshot' >>
  BY <1>4, ReloadStep
<1>5. CASE UNCHANGED hvars
  BY <1>5 DEF hvars, vars, content, HInv, TypeOK, HistoryInv, StandsOnLine, JournalLinks,
              RedoLinks, AllWellFormed, Snapshot
<1> QED BY <1>1, <1>2, <1>3, <1>4, <1>5 DEF HNext

LEMMA HInvariant == HSpec => []HInv
<1>1. HInv /\ [HNext]_hvars => HInv'
  BY HInvStep
<1> QED BY <1>1, HInvInit, PTL DEF HSpec

(***************************************************************************)
(* What the tables, the creation order, the clock and both stacks of       *)
(* undo() and redo() hold, reverted entries included.                      *)
(***************************************************************************)
THEOREM TypeCorrect == HSpec => []TypeOK
<1>1. HInv => TypeOK
  BY DEF HInv
<1> QED BY <1>1, HInvariant, PTL

(***************************************************************************)
(* At every moment the entries on both stacks lead, one by one, along a    *)
(* line of well formed contents on which the workbook stands: no undo() or *)
(* redo() ever meets an entry that does not fit the contents it finds.     *)
(***************************************************************************)
THEOREM HistoryInvariant == HSpec => []HistoryInv
<1>1. HInv => HistoryInv
  BY DEF HInv
<1> QED BY <1>1, HInvariant, PTL

(***************************************************************************)
(* A workbook never holds a dangling name or a sheet without its place in  *)
(* the creation order, so whatever to_json() writes from_json() accepts.   *)
(***************************************************************************)
THEOREM WorkbookWellFormed == HSpec => []AlwaysWellFormed
<1>1. HInv => AlwaysWellFormed
  BY SnapshotWellFormed DEF AlwaysWellFormed
<1> QED BY <1>1, HInvariant, PTL

(***************************************************************************)
(* Every step is a move along the line of contents.                        *)
(***************************************************************************)
LEMMA LineMoves ==
  ASSUME HInv, [HNext]_hvars
  PROVE  [Line!Next]_<< hist, Len(journal) + 1, Snapshot >>
<1>1. CASE Edit /\ hist' = Append(SubSeq(hist, 1, Len(journal) + 1), Snapshot')
  <2>1. journal \in Seq(Entry) /\ \E e : journal' = Append(journal, e)
    BY <1>1, Lengths DEF Edit, AddSheet, SetCell, Copy, DefineName, AdvanceClock, Log
  <2>2. Len(journal') = Len(journal) + 1
    BY <2>1
  <2> QED BY <1>1, <2>2 DEF Line!Next, Line!Do
<1>2. CASE Undo /\ UNCHANGED hist
  <2>1. Len(journal') = Len(journal) - 1 /\ Len(journal) \in Nat \ {0}
    BY <1>2, UndoArrives, Lengths, FrontSeq DEF Front
  <2>2. /\ Len(journal) + 1 > 1 /\ Len(journal') + 1 = Len(journal) + 1 - 1
        /\ Len(journal) + 1 - 1 = Len(journal)
    BY <2>1
  <2>3. Snapshot' = hist[Len(journal) + 1 - 1]
    BY <1>2, <2>2, UndoArrives
  <2> QED BY <1>2, <2>2, <2>3 DEF Line!Next, Line!Undo
<1>3. CASE Redo /\ UNCHANGED hist
  <2>1. /\ Len(journal') = Len(journal) + 1 /\ Len(journal) \in Nat
        /\ Len(journal) + 2 \in 1 .. Len(hist) /\ Len(hist) \in Nat
    <3>1. journal \in Seq(Entry) /\ Last(redo) \in Entry
      BY <1>3, RedoArrives, RedoLink, Lengths
    <3> QED BY <1>3, <3>1, RedoArrives, RedoLink, Lengths, AppendSeq
  <2>2. Len(journal) + 1 < Len(hist) /\ Len(journal) + 1 + 1 = Len(journal) + 2
    BY <2>1
  <2>3. Snapshot' = hist[Len(journal) + 1 + 1]
    BY <1>3, <2>2, RedoArrives
  <2> QED BY <1>3, <2>1, <2>2, <2>3 DEF Line!Next, Line!Redo
<1>4. CASE Reload /\ hist' = << Snapshot' >>
  <2>1. UNCHANGED Snapshot /\ journal' = << >>
    BY <1>4, ReloadStep DEF Reload
  <2>2. Len(journal') + 1 = 1
    BY <2>1
  <2> QED BY <1>4, <2>1, <2>2 DEF Line!Next, Line!Restart
<1>5. CASE UNCHANGED hvars
  BY <1>5 DEF hvars, vars, content, Snapshot
<1> QED BY <1>1, <1>2, <1>3, <1>4, <1>5 DEF HNext

(***************************************************************************)
(* undo() and redo() implement moves along one line of contents: undo()    *)
(* restores exactly what was there before the operation it reverts, redo() *)
(* exactly what was there after it.                                        *)
(***************************************************************************)
THEOREM UndoRedoRefinement == HSpec => ImplementsTimeLine
<1>1. HInit => Line!Init
  BY DEF HInit, Init, Line!Init, Snapshot
<1>2. HInv /\ [HNext]_hvars => [Line!Next]_<< hist, Len(journal) + 1, Snapshot >>
  BY LineMoves
<1> QED BY <1>1, <1>2, HInvariant, PTL DEF HSpec, ImplementsTimeLine, Line!Spec
=============================================================================
