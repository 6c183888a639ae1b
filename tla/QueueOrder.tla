------------------------------- MODULE QueueOrder -------------------------------
(* The order of the download queue and how a move changes it: the comparator  *)
(* of sortDownloadQueue and the renumbering of MoveDownload, as operators on  *)
(* sets of rows.  A row here is any record with an id and a priority.         *)
EXTENDS Integers, FiniteSets

CONSTANT Rank   \* Rank[id]: the natural position of a row among the others, by
                \* show, season, episode and air date; equal for equal keys

Moves == {"top", "up", "down", "bottom"}

(* Priority, then the natural order, then age (ids are handed out in order).  *)
Before(a, b) ==
    \/ a.priority > b.priority
    \/ a.priority = b.priority /\ Rank[a.id] < Rank[b.id]
    \/ a.priority = b.priority /\ Rank[a.id] = Rank[b.id] /\ a.id < b.id

IsFront(r, rows) == r \in rows /\ \A q \in rows \ {r} : Before(r, q)

(* The index of r in the sorted rows.                                         *)
Position(r, rows) == Cardinality({q \in rows : Before(q, r)})

(* A variant with a bug: numbered from len - 1 down to 0.                     *)
NumberedToZero(n, place) == n - 1 - place

(* Priorities run from len at the front down to 1 at the back.                *)
Numbered(n, place) == n - place

NewIndex(op, from, n) == CASE op = "top" -> 0
                           [] op = "up" -> IF from = 0 THEN 0 ELSE from - 1
                           [] op = "down" -> IF from = n - 1 THEN from ELSE from + 1
                           [] op = "bottom" -> n - 1

(* Row r of rows is taken out, put back at its new index, and every row is    *)
(* renumbered: the index each row then has.                                   *)
Place(q, r, rows, op) ==
    LET from == Position(r, rows)
        to   == NewIndex(op, from, Cardinality(rows))
        at   == Position(q, rows)
    IN  IF q = r THEN to
        ELSE IF from < at /\ at <= to THEN at - 1
        ELSE IF to <= at /\ at < from THEN at + 1
        ELSE at

Renumbered(q, r, rows, op) ==
    [q EXCEPT !.priority = Numbered(Cardinality(rows), Place(q, r, rows, op))]
===============================================================================
