---------------------------- MODULE XlReference ----------------------------
(***************************************************************************)
(* The workbook of the graders' naive reference: no caches, and a journal  *)
(* of entries that hold what a cell or a name was and what it became.      *)
(* The differential tests drive it and an implementation with the same     *)
(* calls; XlTwins does so with armK.                                       *)
(***************************************************************************)
EXTENDS Integers, SequencesExt

CONSTANTS Sheets, Addrs, NameIds, Empty, Unbound, NoSheet, QualifierOf(_), CopyText(_, _, _)

VARIABLES
    book,              \* sheets in creation order, cells, names, clock
    rjournal, rredo

rvars == << book, rjournal, rredo >>

NoCells == [a \in Addrs |-> Empty]
NoBindings == [n \in NameIds |-> Unbound]

RefInit ==
    /\ book = [sheets |-> << >>, cells |-> [s \in Sheets |-> NoCells],
               names |-> [s \in Sheets |-> NoBindings], clock |-> 0]
    /\ rjournal = << >> /\ rredo = << >>

Has(s) == s \in ToSet(book.sheets)

----------------------------------------------------------------------------
\* Entries are <<"cell", s, a, prev, new>>, <<"name", s, n, prev, new>>,
\* <<"sheet", s>> and <<"clock">>

Applied(e) ==
    CASE e[1] = "cell" -> [book EXCEPT !.cells[e[2]][e[3]] = e[5]]
      [] e[1] = "name" -> [book EXCEPT !.names[e[2]][e[3]] = e[5]]
      [] e[1] = "sheet" -> [book EXCEPT !.sheets = Append(@, e[2]),
                                        !.cells[e[2]] = NoCells, !.names[e[2]] = NoBindings]
      [] e[1] = "clock" -> [book EXCEPT !.clock = @ + 1]

Reverted(e) ==
    CASE e[1] = "cell" -> [book EXCEPT !.cells[e[2]][e[3]] = e[4]]
      [] e[1] = "name" -> [book EXCEPT !.names[e[2]][e[3]] = e[4]]
      [] e[1] = "sheet" -> [book EXCEPT !.sheets = RemoveFirst(@, e[2]),
                                        !.cells[e[2]] = NoCells, !.names[e[2]] = NoBindings]
      [] e[1] = "clock" -> [book EXCEPT !.clock = @ - 1]

Journaled(e) ==
    book' = Applied(e) /\ rjournal' = Append(rjournal, e) /\ rredo' = << >>

\* A call it refuses, by a ValueError or a False, changes nothing.
Refused == UNCHANGED rvars

RefAddSheet(s) == IF Has(s) THEN Refused ELSE Journaled(<<"sheet", s>>)

RefSet(s, a, v) ==
    IF Has(s) THEN Journaled(<<"cell", s, a, book.cells[s][a], v>>) ELSE Refused

RefCopy(s, a, t, b) ==
    IF Has(s) /\ Has(t) /\ book.cells[s][a] # Empty
    THEN Journaled(<<"cell", t, b, book.cells[t][b], CopyText(book.cells[s][a], a, b)>>)
    ELSE Refused

RefDefineName(s, n, t) ==
    IF Has(s) /\ (QualifierOf(t) = NoSheet \/ Has(QualifierOf(t)))
    THEN Journaled(<<"name", s, n, book.names[s][n], t>>)
    ELSE Refused

RefAdvanceClock == Journaled(<<"clock">>)

RefUndo ==
    IF rjournal = << >> THEN Refused
    ELSE /\ book' = Reverted(Last(rjournal))
         /\ rjournal' = Front(rjournal) /\ rredo' = Append(rredo, Last(rjournal))

RefRedo ==
    IF rredo = << >> THEN Refused
    ELSE /\ book' = Applied(Last(rredo))
         /\ rjournal' = Append(rjournal, Last(rredo)) /\ rredo' = Front(rredo)

\* from_json(to_json()) keeps the contents of the sheets there are.
RefReload ==
    /\ rjournal' = << >> /\ rredo' = << >>
    /\ book' = [book EXCEPT
                   !.cells = [s \in Sheets |-> IF Has(s) THEN @[s] ELSE NoCells],
                   !.names = [s \in Sheets |-> IF Has(s) THEN @[s] ELSE NoBindings]]
=============================================================================
