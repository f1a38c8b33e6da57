------------------------------ MODULE BiteQueue ------------------------------
(***************************************************************************)
(* What the queue of requests promises the worker and its clients: a bite  *)
(* is a prefix of the waiting requests, taken at once and answered in      *)
(* order.  Requests in the worker's hands can be lost, those waiting never.*)
(***************************************************************************)
EXTENDS Naturals, Sequences

CONSTANT MaxRequests   \* bound: requests ever sent

VARIABLES
  sent,       \* requests sent so far; they are numbered
  inbox,      \* waiting, oldest first
  taken,      \* the bite that is being resolved
  answers     \* responses sent, in order

vars == <<sent, inbox, taken, answers>>

Init == sent = 0 /\ inbox = <<>> /\ taken = <<>> /\ answers = <<>>

Send ==
  /\ sent < MaxRequests
  /\ sent' = sent + 1
  /\ inbox' = Append(inbox, sent')
  /\ UNCHANGED <<taken, answers>>

Take ==
  /\ taken = <<>> /\ inbox # <<>>
  /\ \E n \in 1..Len(inbox) : /\ taken' = SubSeq(inbox, 1, n)
                              /\ inbox' = SubSeq(inbox, n + 1, Len(inbox))
  /\ UNCHANGED <<sent, answers>>

\* The whole bite is answered, or those of it whose response got through: the
\* k-th of n answers is for the request at through[k].
Answer ==
  /\ taken # <<>>
  /\ \E n \in 0..Len(taken) : \E through \in [1..n -> 1..Len(taken)] :
       /\ \A k, l \in 1..n : k < l => through[k] < through[l]
       /\ answers' = answers \o [k \in 1..n |-> taken[through[k]]]
  /\ taken' = <<>>
  /\ UNCHANGED <<sent, inbox>>

\* The worker dies with the bite, or with the requests it was taking.
Lose ==
  /\ \/ taken' = <<>> /\ UNCHANGED inbox
     \/ /\ taken = <<>> /\ UNCHANGED taken
        /\ \E n \in 1..Len(inbox) : inbox' = SubSeq(inbox, n + 1, Len(inbox))
  /\ UNCHANGED <<sent, answers>>

Next == Send \/ Take \/ Answer \/ Lose

Spec == Init /\ [][Next]_vars
=============================================================================
