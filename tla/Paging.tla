------------------------------- MODULE Paging -------------------------------
(***************************************************************************)
(* PageRequest and Page: how clients ask for a part of a list and learn how  *)
(* many parts there are.                                                     *)
(***************************************************************************)
EXTENDS Integers, SequencesExt

CONSTANT DefaultSize   \* the page size for one below 1 (20 in the code)

ASSUME PagingAssumption == DefaultSize \in Nat \ {0}

Limit(size) == IF size < 1 THEN DefaultSize ELSE size

\* Mutant: pages counted from 0.
Offset_FromZero(page, size) == page * size

Offset(page, size) == IF page < 1 THEN 0 ELSE (page - 1) * size

\* Mutant: the division rounds down.
TotalPages_Down(total, size) == total \div size

TotalPages(total, size) == total \div size + (IF total % size > 0 THEN 1 ELSE 0)

\* LIMIT and OFFSET of the query; a negative offset is none.
Page(rows, page, size) ==
    LET offset == Max({Offset(page, size), 0})
    IN  SubSeq(rows, offset + 1, Min({offset + Limit(size), Len(rows)}))
=============================================================================
