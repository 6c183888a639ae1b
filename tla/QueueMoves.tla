------------------------------- MODULE QueueMoves -------------------------------
(* The queue under moves: rows arrive, are claimed from the front, come back  *)
(* or leave, while an operator moves pending rows about.                      *)
EXTENDS QueueOrder

CONSTANT MaxRows    \* bound: rows in the queue at once

Ids == 1 .. MaxRows

ASSUME RankAssumption == MaxRows \in Nat \ {0} /\ Rank \in [Ids -> Nat]

VARIABLE queue      \* the downloads bucket: a set of rows
Row == [id : Ids, priority : 0 .. MaxRows, pending : BOOLEAN]

Pending == {r \in queue : r.pending}

Init == queue = {}

(* Enqueue: a new row has priority 0.                                         *)
Arrive(i) == /\ \A r \in queue : r.id # i
             /\ queue' = queue \cup {[id |-> i, priority |-> 0, pending |-> TRUE]}

With(r, pending) == (queue \ {r}) \cup {[r EXCEPT !.pending = pending]}

(* A worker takes the front row.                                              *)
Claim == \E r \in Pending : IsFront(r, Pending) /\ queue' = With(r, FALSE)

(* A shutdown puts a claimed row back; a finished one leaves.                 *)
Return(r) == ~r.pending /\ queue' = With(r, TRUE)
Leave(r)  == ~r.pending /\ queue' = queue \ {r}

(* MoveDownload: a row that is not pending is refused.                        *)
MoveDownload(r, op) ==
    /\ r \in Pending
    /\ queue' = (queue \ Pending) \cup {Renumbered(q, r, Pending, op) : q \in Pending}

Next == \/ \E i \in Ids : Arrive(i)
        \/ Claim
        \/ \E r \in queue : Return(r) \/ Leave(r) \/ \E op \in Moves : MoveDownload(r, op)

Spec == Init /\ [][Next]_queue

-------------------------------------------------------------------------------
(* A move puts the row exactly where it was asked to and changes nothing else: *)
(* the other pending rows keep their order, claimed rows are untouched, and    *)
(* the whole block stays ahead of rows that arrive later with priority 0       *)
(* (store/downloads.go, MoveDownload).                                         *)
MoveIsExact ==
    [][\A r \in queue, op \in Moves : MoveDownload(r, op) =>
          LET now(i)  == CHOOSE q \in queue' : q.id = i
              rows    == {q \in queue' : q.pending}
              others  == Pending \ {r}
              from    == Position(r, Pending)
              to      == Position(now(r.id), rows)
          IN  /\ op = "top" => to = 0
              /\ op = "bottom" => to = Cardinality(others)
              /\ op = "up" /\ from > 0 => to = from - 1
              /\ op = "down" /\ from < Cardinality(others) => to = from + 1
              /\ \A p, q \in others : Before(p, q) <=> Before(now(p.id), now(q.id))
              /\ {q.id : q \in rows} = {q.id : q \in Pending}
              /\ \A q \in rows : q.priority > 0
              /\ queue' \ rows = queue \ Pending]_queue
===============================================================================
