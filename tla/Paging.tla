------------------------------- MODULE Paging -------------------------------
(***************************************************************************)
(* Pages of a list as the console's tables show them, and the pages a      *)
(* table lets the user ask for.  Rows are numbered in the order they were  *)
(* made; a page lists the newest first.                                    *)
(***************************************************************************)
EXTENDS Integers, Sequences

AtLeast(a, b) == IF a >= b THEN a ELSE b
AtMost(a, b) == IF a <= b THEN a ELSE b

\* Math.max(1, Math.ceil(total / pageSize))
TotalPages(total, size) == AtLeast(1, (total + size - 1) \div size)

\* A number typed into the jump field: too large a one asks for the last page.
JumpPage(n, total, size) == AtMost(n, TotalPages(total, size))

\* Where the controls of a table lead.  While the list is loading the buttons
\* are disabled, but Enter in the jump field still works.
PageTargets(page, total, size, loading) ==
    {JumpPage(n, total, size) : n \in 1 .. TotalPages(total, size) + 1}
    \cup IF loading THEN {} ELSE {AtLeast(1, page - 1), AtMost(TotalPages(total, size), page + 1)}

\* The rows of a page, out of rows listed newest first.
PageOf(rows, page, size) ==
    SubSeq(rows, (page - 1) * size + 1, AtMost(page * size, Len(rows)))
=============================================================================
