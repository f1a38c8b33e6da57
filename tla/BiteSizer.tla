------------------------------ MODULE BiteSizer ------------------------------
(***************************************************************************)
(* How many requests the next bite may have: a moving average of the rate  *)
(* at which bites were processed, times a target duration (bite_sizer.py), *)
(* closed into a loop with the bites it sizes (RedisQueueWorker._process   *)
(* in queue_worker.py).  A bite takes an overhead, a time for each of its  *)
(* requests, and a stall when something else holds it up.                  *)
(*                                                                         *)
(* Rates are requests per Scale ticks, rounded down.                       *)
(***************************************************************************)
EXTENDS Integers

CONSTANTS
  MaxMentions,    \* max_mentions
  Target,         \* target_seconds, in ticks
  Overhead,       \* ticks that every bite takes
  Cost,           \* ticks for each request
  Stall,          \* ticks that a disturbed bite takes longer
  Scale           \* ticks to which rates refer

ASSUME SizerAssumption ==
  {MaxMentions, Target, Overhead, Cost, Stall, Scale} \subseteq Nat \ {0}

VARIABLES
  rate,   \* the average; None before the first measured bite
  last    \* what the last bite was like

vars == <<rate, last>>

None == -1
Kinds == {"none", "full", "sparse", "stalled", "unmeasured"}

\* round(): to the nearest, half to the even.
Round(n, d) ==
  LET floor == n \div d
      rest == 2 * (n % d)
  IN  IF rest > d \/ (rest = d /\ floor % 2 = 1) THEN floor + 1 ELSE floor

\* Seeded fault: there is no least bite.
LimitFromZero ==
  LET wanted == Round(rate * Target, Scale)
  IN  IF rate = None \/ wanted > MaxMentions THEN MaxMentions ELSE wanted

Limit ==
  LET wanted == Round(rate * Target, Scale)
  IN  IF rate = None \/ wanted > MaxMentions THEN MaxMentions
      ELSE IF wanted < 1 THEN 1 ELSE wanted

TypeOK == rate \in {None} \cup 0..Scale /\ last \in Kinds /\ Limit \in 1..MaxMentions

Init == rate = None /\ last = "none"

\* Seeded fault: the weights add up to more than one.
ObserveTooMuch(mentions, ticks) ==
  LET observed == (mentions * Scale) \div ticks
  IN  rate' = IF ticks <= 0 THEN rate
              ELSE IF rate = None THEN observed
              ELSE (3 * observed + 8 * rate) \div 10

\* A bite without measurable duration is ignored.
Observe(mentions, ticks) ==
  LET observed == (mentions * Scale) \div ticks
  IN  rate' = IF ticks <= 0 THEN rate
              ELSE IF rate = None THEN observed
              ELSE (3 * observed + 7 * rate) \div 10

Duration(mentions) == Overhead + Cost * mentions

\* As many requests were waiting as the bite may have.
FullBite == Observe(Limit, Duration(Limit)) /\ last' = "full"

\* The queue was drained before.
SparseBite ==
  /\ \E n \in 1..Limit - 1 : Observe(n, Duration(n))
  /\ last' = "sparse"

\* A slow disk, a training thread that takes the processor.
StalledBite ==
  /\ \E n \in 1..Limit : Observe(n, Duration(n) + Stall)
  /\ last' = "stalled"

\* The clock did not advance.
UnmeasuredBite ==
  /\ \E n \in 1..Limit : Observe(n, 0)
  /\ last' = "unmeasured"

Next == FullBite \/ SparseBite \/ StalledBite \/ UnmeasuredBite

\* The worker goes on with the next bite.
Spec == Init /\ [][Next]_vars /\ WF_vars(Next)

-----------------------------------------------------------------------------
\* A bite that is sized by the average lasts no longer than the target and one
\* overhead (the average cannot know the overhead), whatever came before; a
\* request more or less may be due to rounding.
KeepsToTarget == rate # None => Duration(Limit - 1) <= Target + Overhead

OnTarget ==
  \/ Limit = MaxMentions
  \/ Duration(Limit) \in Target - 2 * Cost .. Target + 2 * Cost

\* Stalls and sparse bites never lock the limit at small bites, although those
\* are measured as slow ones because each pays the overhead: with enough requests
\* waiting it settles where a bite lasts the target, give or take two requests,
\* or at the maximum.
SettlesOnTarget == <>[](last = "full") => <>[]OnTarget
=============================================================================
