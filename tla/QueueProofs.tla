----------------------------- MODULE QueueProofs -----------------------------
(***************************************************************************)
(* Proofs about RequestQueue, for any sizes, limits and bounds.            *)
(***************************************************************************)
EXTENDS RequestQueue, SequenceTheorems, WellFoundedInduction, TLAPS

(***************************************************************************)
(* The invariant.  What the worker has in its hands depends on where it is,*)
(* and only requests that were sent are anywhere.                          *)
(***************************************************************************)
InHand ==
  /\ phase \in {"loop", "blocking", "stopped"} => bite = <<>>
  /\ phase \in {"taking", "capping", "resolving"} => bite # <<>>
  /\ phase # "capping" => waiting = <<>>
  /\ phase = "capping" => Len(bite) + Len(waiting) <= limit

Sent == 1..Len(size)
OnlySent == /\ responses \in Seq(Sent) /\ bite \in Seq(Sent)
            /\ waiting \in Seq(Sent) /\ queue \in Seq(Sent)

IInv == TypeOK /\ InHand /\ OnlySent /\ InArrivalOrder /\ NothingLost /\ BiteWithinLimits

-----------------------------------------------------------------------------
(***************************************************************************)
(* Running sums.  The library's induction theorems take an operator as a   *)
(* parameter; induction over the set of the numbers for which a statement  *)
(* holds does without.                                                     *)
(***************************************************************************)
\* A set with 0 that is closed under successors up to n has all up to n.
LEMMA UpTo ==
  ASSUME NEW n \in Nat, NEW G \in SUBSET (0..n), 0 \in G,
         \A k \in 1..n : k - 1 \in G => k \in G
  PROVE  G = 0..n
<1> DEFINE less == {ss \in Nat \X Nat : ss[1] < ss[2]}
           T == {k \in 0..n : k \notin G}
<1>1. IsWellFoundedOn(less, Nat)  BY NatLessThanWellFounded DEF OpToRel
<1>2. T \in SUBSET Nat  OBVIOUS
<1>3. \A x, y \in Nat : <<y, x>> \in less <=> y < x  OBVIOUS
<1> HIDE DEF less
<1>4. SUFFICES ASSUME T # {} PROVE FALSE  OBVIOUS
<1>5. \E k \in T : \A y \in T : <<y, k>> \notin less
  <2> HIDE DEF T
  <2> QED  BY <1>1, <1>2, <1>4, WFMin
<1>6. PICK k \in T : \A y \in T : <<y, k>> \notin less  BY <1>5
<1>7. k \in 1..n  OBVIOUS
<1>8. k - 1 \notin T
  <2>1. k - 1 \in Nat /\ k \in Nat /\ k - 1 < k  BY <1>7
  <2>2. <<k - 1, k>> \in less  BY <2>1, <1>3
  <2> QED  BY <2>2, <1>6
<1> QED  BY <1>7, <1>8

\* t runs through the sums of the first values of f.
RunsOver(t, f, n) ==
  t \in [0..n -> Nat] /\ t[0] = 0 /\ \A k \in 1..n : t[k] = t[k - 1] + f[k]

\* There are running sums.
LEMMA SumsExist ==
  ASSUME NEW n \in Nat, NEW f \in [1..n -> Nat]
  PROVE  \E t : RunsOver(t, f, n)
<1> DEFINE G == {k \in 0..n : \E t : RunsOver(t, f, k)}
<1>1. 0 \in G
  <2>1. RunsOver([i \in 0..0 |-> 0], f, 0)  BY DEF RunsOver
  <2> QED  BY <2>1
<1>2. ASSUME NEW k \in 1..n, k - 1 \in G PROVE k \in G
  <2>1. PICK t : RunsOver(t, f, k - 1)  BY <1>2
  <2> DEFINE u == [i \in 0..k |-> IF i = k THEN t[k - 1] + f[k] ELSE t[i]]
  <2>2. f[k] \in Nat /\ t[k - 1] \in Nat  BY <2>1 DEF RunsOver
  <2>3. u \in [0..k -> Nat]
    <3>1. \A i \in 0..k - 1 : t[i] \in Nat  BY <2>1 DEF RunsOver
    <3>2. t[k - 1] + f[k] \in Nat  BY <2>2
    <3> QED  BY <3>1, <3>2
  <2>4. u[0] = 0  BY <2>1 DEF RunsOver
  <2>5. ASSUME NEW i \in 1..k PROVE u[i] = u[i - 1] + f[i]
    <3>1. CASE i = k  BY <3>1
    <3>2. CASE i # k
      <4>1. i \in 1..k - 1  BY <3>2
      <4> QED  BY <2>1, <3>2, <4>1 DEF RunsOver
    <3> QED  BY <3>1, <3>2
  <2>6. RunsOver(u, f, k)
    <3> HIDE DEF u
    <3> QED  BY <2>3, <2>4, <2>5 DEF RunsOver
  <2> QED  BY <2>6
<1>3. G = 0..n
  <2> HIDE DEF G
  <2>1. G \in SUBSET (0..n)  BY DEF G
  <2> QED  BY <1>1, <1>2, <2>1, UpTo
<1>4. n \in G
  <2> HIDE DEF G
  <2> QED  BY <1>3
<1> QED  BY <1>4

\* The values of f from an offset on are those of g.
Continues(f, o, g, m) == \A k \in 1..m : f[o + k] = g[k] /\ g[k] \in Nat

\* Running sums of the same values are the same, from an offset on.
LEMMA SumsAgree ==
  ASSUME NEW n \in Nat, NEW m \in Nat, NEW o \in Nat, o + m <= n,
         NEW f, NEW g, NEW t, NEW u, RunsOver(t, f, n), RunsOver(u, g, m),
         Continues(f, o, g, m)
  PROVE  t[o + m] = t[o] + u[m]
<1> DEFINE G == {k \in 0..m : t[o + k] = t[o] + u[k]}
<1>1. \A k \in 0..m : t[o + k] \in Nat /\ u[k] \in Nat  BY DEF RunsOver
<1>2. 0 \in G  BY <1>1 DEF RunsOver
<1>3. ASSUME NEW k \in 1..m, k - 1 \in G PROVE k \in G
  <2>1. t[o + k] = t[o + k - 1] + f[o + k] /\ f[o + k] = g[k] /\ g[k] \in Nat
    BY DEF RunsOver, Continues
  <2>2. u[k] = u[k - 1] + g[k]  BY DEF RunsOver
  <2>3. o + (k - 1) = o + k - 1 /\ k - 1 \in 0..m /\ k \in 0..m /\ o + 0 = o /\ 0 \in 0..m
    OBVIOUS
  <2>4. t[o + k - 1] = t[o] + u[k - 1]  BY <1>3, <2>3
  <2>5. t[o] \in Nat /\ u[k - 1] \in Nat  BY <1>1, <2>3
  <2> QED  BY <2>1, <2>2, <2>3, <2>4, <2>5
<1>4. G = 0..m
  <2> HIDE DEF G
  <2>1. G \in SUBSET (0..m)  BY DEF G
  <2> QED  BY <1>2, <1>3, <2>1, UpTo
<1> QED  BY <1>4

\* The bytes of requests, for any sizes.
BytesUnder(sizes, requests) ==
  LET total[n \in 0..Len(requests)] ==
        IF n = 0 THEN 0 ELSE total[n - 1] + sizes[requests[n]]
  IN  total[Len(requests)]

\* They are the last of the running sums.
LEMMA BytesAreASum ==
  ASSUME NEW sizes \in Seq(Nat), NEW r \in Seq(1..Len(sizes))
  PROVE  \E t : RunsOver(t, [k \in 1..Len(r) |-> sizes[r[k]]], Len(r))
                /\ BytesUnder(sizes, r) = t[Len(r)]
<1> DEFINE N == Len(r)
           f == [k \in 1..N |-> sizes[r[k]]]
           Unfold(t) == [n \in 0..N |-> IF n = 0 THEN 0 ELSE t[n - 1] + sizes[r[n]]]
           T == CHOOSE t : t = Unfold(t)
<1>1. N \in Nat /\ f \in [1..N -> Nat]  OBVIOUS
<1>2. PICK t : RunsOver(t, f, N)
  <2> HIDE DEF f, N
  <2> QED  BY <1>1, SumsExist
<1>3. t = Unfold(t)
  <2>1. t = [n \in 0..N |-> t[n]]  BY <1>2 DEF RunsOver
  <2>2. \A n \in 0..N : t[n] = IF n = 0 THEN 0 ELSE t[n - 1] + sizes[r[n]]
    BY <1>2 DEF RunsOver
  <2> QED  BY <2>1, <2>2
<1>4. T = Unfold(T)
  <2> HIDE DEF Unfold
  <2> QED  BY <1>3
<1>5. BytesUnder(sizes, r) = T[N]  BY DEF BytesUnder
<1> DEFINE G == {n \in 0..N : T[n] = t[n]}
<1>6. \A n \in 0..N : T[n] = IF n = 0 THEN 0 ELSE T[n - 1] + sizes[r[n]]
  <2> HIDE DEF T
  <2> QED  BY <1>4
<1>7. 0 \in G /\ \A n \in 1..N : n - 1 \in G => n \in G
  <2> HIDE DEF T
  <2> QED  BY <1>1, <1>2, <1>6 DEF RunsOver
<1>8. G = 0..N
  <2>1. G \in SUBSET (0..N)  OBVIOUS
  <2> HIDE DEF G, N, T, f, Unfold
  <2> QED  BY <1>1, <1>7, <2>1, UpTo
<1>9. T[N] = t[N]
  <2>1. N \in G
    <3> HIDE DEF G, N, T, f, Unfold
    <3> QED  BY <1>1, <1>8
  <2> HIDE DEF T
  <2> QED  BY <2>1
<1> QED  BY <1>2, <1>5, <1>9

\* What is appended counts in addition.
LEMMA BytesAdd ==
  ASSUME NEW sizes \in Seq(Nat), NEW r \in Seq(1..Len(sizes)), NEW s \in Seq(1..Len(sizes))
  PROVE  /\ BytesUnder(sizes, r) \in Nat
         /\ BytesUnder(sizes, r \o s) = BytesUnder(sizes, r) + BytesUnder(sizes, s)
<1> DEFINE both == r \o s
           f == [k \in 1..Len(r) |-> sizes[r[k]]]
           g == [k \in 1..Len(s) |-> sizes[s[k]]]
           h == [k \in 1..Len(both) |-> sizes[both[k]]]
           M == Len(r)
           N == Len(s)
           L == Len(both)
<1>1. both \in Seq(1..Len(sizes)) /\ L = M + N /\ M \in Nat /\ N \in Nat /\ L \in Nat
  OBVIOUS
<1>2. PICK t : RunsOver(t, f, M) /\ BytesUnder(sizes, r) = t[M]  BY BytesAreASum
<1>3. PICK u : RunsOver(u, g, N) /\ BytesUnder(sizes, s) = u[N]  BY BytesAreASum
<1>4. PICK v : RunsOver(v, h, L) /\ BytesUnder(sizes, both) = v[L]
  <2> HIDE DEF both
  <2> QED  BY <1>1, BytesAreASum
<1>5. Continues(h, 0, f, M)  BY SMTT(60) DEF Continues
<1>6. Continues(h, M, g, N)  BY SMTT(60) DEF Continues
<1> HIDE DEF both, f, g, h, M, N, L
<1>7. v[0 + M] = v[0] + t[M]
  <2>1. 0 \in Nat /\ M \in Nat /\ L \in Nat /\ 0 + M <= L  BY <1>1
  <2>2. RunsOver(v, h, L) /\ RunsOver(t, f, M)  BY <1>2, <1>4
  <2> QED  BY <2>1, <2>2, <1>5, SumsAgree
<1>8. v[M + N] = v[M] + u[N]
  <2>1. M \in Nat /\ N \in Nat /\ L \in Nat /\ M + N <= L  BY <1>1
  <2>2. RunsOver(v, h, L) /\ RunsOver(u, g, N)  BY <1>3, <1>4
  <2> QED  BY <2>1, <2>2, <1>6, SumsAgree
<1>9. t[M] \in Nat /\ v[0] = 0 /\ 0 + M = M  BY <1>1, <1>2, <1>4 DEF RunsOver
<1> QED  BY <1>1, <1>2, <1>3, <1>4, <1>7, <1>8, <1>9 DEF both

\* A new request changes the bytes of no other.
LEMMA BytesStay ==
  ASSUME NEW sizes \in Seq(Nat), NEW b \in Nat, NEW r \in Seq(1..Len(sizes))
  PROVE  BytesUnder(Append(sizes, b), r) = BytesUnder(sizes, r)
<1> DEFINE more == Append(sizes, b)
           f == [k \in 1..Len(r) |-> sizes[r[k]]]
           g == [k \in 1..Len(r) |-> more[r[k]]]
           N == Len(r)
<1>1. more \in Seq(Nat) /\ r \in Seq(1..Len(more))  OBVIOUS
<1>2. N \in Nat /\ 0 + N <= N /\ 0 \in Nat  OBVIOUS
<1>3. Continues(g, 0, f, N)  BY SMTT(60) DEF Continues
<1>4. PICK t : RunsOver(t, f, N) /\ BytesUnder(sizes, r) = t[N]  BY BytesAreASum
<1>5. PICK u : RunsOver(u, g, N) /\ BytesUnder(more, r) = u[N]
  <2> HIDE DEF more
  <2> QED  BY <1>1, BytesAreASum
<1> HIDE DEF f, g, more, N
<1>6. u[0 + N] = u[0] + t[N]  BY <1>2, <1>3, <1>4, <1>5, SumsAgree
<1>7. t[N] \in Nat /\ u[0] = 0 /\ 0 + N = N  BY <1>2, <1>4, <1>5 DEF RunsOver
<1> QED  BY <1>4, <1>5, <1>6, <1>7 DEF more

-----------------------------------------------------------------------------
(***************************************************************************)
(* Sequences.                                                              *)
(***************************************************************************)
Ascending(s) == \A i, j \in DOMAIN s : i < j => s[i] < s[j]

\* Leaving out a part in the middle keeps the order.
LEMMA LeaveOutMiddle ==
  ASSUME NEW a \in Seq(Nat), NEW b \in Seq(Nat), NEW c \in Seq(Nat), Ascending(a \o b \o c)
  PROVE  Ascending(a \o c)
<1> DEFINE all == a \o b \o c
           some == a \o c
           at(i) == IF i <= Len(a) THEN i ELSE i + Len(b)
<1>1. DOMAIN all = 1..Len(a) + Len(b) + Len(c) /\ DOMAIN some = 1..Len(a) + Len(c)
  OBVIOUS
<1>2. ASSUME NEW i \in DOMAIN some PROVE at(i) \in DOMAIN all /\ some[i] = all[at(i)]
  <2>1. i \in 1..Len(a) + Len(c)  BY <1>1
  <2>2. CASE i <= Len(a)  BY <2>1, <2>2
  <2>3. CASE ~(i <= Len(a))
    <3>1. some[i] = c[i - Len(a)]  BY <2>1, <2>3
    <3>2. all[i + Len(b)] = c[i + Len(b) - (Len(a) + Len(b))]
      <4>1. i + Len(b) \in Len(a) + Len(b) + 1..Len(a) + Len(b) + Len(c)  BY <2>1, <2>3
      <4> QED  BY <4>1
    <3>3. i + Len(b) - (Len(a) + Len(b)) = i - Len(a)  BY <2>1
    <3>4. i + Len(b) \in DOMAIN all  BY <1>1, <2>1, <2>3
    <3> HIDE DEF all, some
    <3> QED  BY <2>3, <3>1, <3>2, <3>3, <3>4
  <2> QED  BY <2>2, <2>3
<1>3. \A i, j \in DOMAIN some : i < j => at(i) < at(j)
  <2>1. \A i \in DOMAIN some : i \in Nat  BY <1>1
  <2> HIDE DEF some
  <2> QED  BY <2>1
<1>4. \A i, j \in DOMAIN all : i < j => all[i] < all[j]  BY DEF Ascending
<1> HIDE DEF all, some, at
<1>5. \A i, j \in DOMAIN some : i < j => some[i] < some[j]  BY <1>2, <1>3, <1>4
<1>6. Ascending(some)  BY <1>5 DEF Ascending
<1> QED  BY <1>6 DEF some

\* A greater number may follow.
LEMMA AppendGreater ==
  ASSUME NEW s \in Seq(Nat), NEW n \in Nat, Ascending(s), \A i \in DOMAIN s : s[i] < n
  PROVE  Ascending(Append(s, n))
  BY DEF Ascending

\* A sequence cut in two is the two, one after the other.
LEMMA CutInTwo ==
  ASSUME NEW S, NEW s \in Seq(S), NEW n \in 0..Len(s)
  PROVE  /\ Firsts(s, n) \in Seq(S) /\ Len(Firsts(s, n)) = n
         /\ Rest(s, n) \in Seq(S) /\ Len(Rest(s, n)) = Len(s) - n
         /\ Firsts(s, n) \o Rest(s, n) = s
<1>1. /\ Firsts(s, n) \in Seq(S) /\ Len(Firsts(s, n)) = n
      /\ Rest(s, n) \in Seq(S) /\ Len(Rest(s, n)) = Len(s) - n
  BY DEF Firsts, Rest
<1>2. Firsts(s, n) \o Rest(s, n) = SubSeq(s, 1, Len(s))
  <2>1. 1 \in 1..Len(s) + 1 /\ n \in 1 - 1..Len(s) /\ Len(s) \in n..Len(s)  OBVIOUS
  <2> QED  BY <2>1, ConcatAdjacentSubSeq DEF Firsts, Rest
<1> QED  BY <1>1, <1>2, SubSeqFull

\* What follows the head of what follows.
LEMMA RestOfRest ==
  ASSUME NEW S, NEW s \in Seq(S), NEW i \in DOMAIN s
  PROVE  Rest(Rest(s, i - 1), 1) = Rest(s, i)
<1> DEFINE from == Rest(s, i - 1)
           one == Rest(from, 1)
           two == Rest(s, i)
           n == Len(s) - i
<1>1. i \in 1..Len(s) /\ Len(s) \in Nat /\ n \in Nat  OBVIOUS
<1>2. /\ from \in Seq(S) /\ Len(from) = n + 1
      /\ \A k \in 1..n + 1 : from[k] = s[i - 1 + k]
  BY <1>1 DEF Rest
<1>3. two \in Seq(S) /\ Len(two) = n /\ \A k \in 1..n : two[k] = s[i + k]
  BY <1>1 DEF Rest
<1> HIDE DEF from
<1>4. one \in Seq(S) /\ Len(one) = n /\ \A k \in 1..n : one[k] = from[k + 1]
  BY <1>1, <1>2 DEF Rest
<1>5. \A k \in 1..n : one[k] = two[k]
  <2> SUFFICES ASSUME NEW k \in 1..n PROVE one[k] = two[k]  OBVIOUS
  <2>1. k + 1 \in 1..n + 1 /\ i - 1 + (k + 1) = i + k  BY <1>1
  <2>2. one[k] = from[k + 1] /\ from[k + 1] = s[i - 1 + (k + 1)] /\ two[k] = s[i + k]
    BY <1>2, <1>3, <1>4, <2>1
  <2> QED  BY <2>1, <2>2
<1> HIDE DEF one, two, n
<1>6. one = two  BY <1>3, <1>4, <1>5, SeqEqual
<1> QED  BY <1>6 DEF from, one, two

\* Pushing back, in the reverse order, what was popped restores the list.
LEMMA ReturnIsInOrder ==
  ASSUME NEW S, NEW s \in Seq(S)
  PROVE  Reverse(Reverse(s)) = s
  BY DEF Reverse

-----------------------------------------------------------------------------
(***************************************************************************)
(* The invariant is inductive.                                             *)
(***************************************************************************)
\* The bytes the model counts are those of the sizes sent so far.
LEMMA BytesAreUnderSize == \A r : Bytes(r) = BytesUnder(size, r)
  BY DEF Bytes, BytesUnder

\* A step that only moves requests along the line keeps it in order.
LEMMA SameLine ==
  ASSUME IInv, Line' = Line, size' = size, faults' = faults
  PROVE  InArrivalOrder' /\ NothingLost'
  BY DEF IInv, InArrivalOrder, NothingLost, EveryRequestIsSomewhere

\* A bite that is not touched keeps to its limits.
LEMMA SameBite ==
  ASSUME IInv, UNCHANGED <<size, bite, limit>>
  PROVE  BiteWithinLimits'
  BY DEF IInv, BiteWithinLimits, Bytes

\* An empty bite, or a bite of one request, keeps to any limits.
LEMMA SmallBite ==
  ASSUME bite' \in Seq(Requests), Len(bite') <= 1, limit' \in Nat, Len(bite') <= limit'
  PROVE  BiteWithinLimits'
  BY DEF BiteWithinLimits

LEMMA InitIInv == Init => IInv
<1> SUFFICES ASSUME Init PROVE IInv  OBVIOUS
<1>1. TypeOK  BY QueueAssumption DEF Init, TypeOK, Phases, Requests
<1>2. InHand  BY DEF Init, InHand
<1>3. OnlySent  BY DEF Init, OnlySent
<1>4. Line = <<>>  BY DEF Init, Line
<1>5. InArrivalOrder  BY <1>4 DEF InArrivalOrder
<1>6. NothingLost  BY <1>4 DEF NothingLost, EveryRequestIsSomewhere, Init
<1>7. BiteWithinLimits  BY <1>1 DEF BiteWithinLimits, Init, TypeOK
<1> QED  BY <1>1, <1>2, <1>3, <1>5, <1>6, <1>7 DEF IInv

LEMMA SendKeepsIInv ==
  ASSUME IInv, Send
  PROVE  IInv'
<1>1. PICK b \in Sizes : size' = Append(size, b)  BY DEF Send
<1>2. /\ size \in Seq(Sizes) /\ b \in Nat /\ Len(size) \in Nat /\ Len(size) < MaxRequests
      /\ Len(size') = Len(size) + 1 /\ size' \in Seq(Sizes)
  BY <1>1, QueueAssumption DEF IInv, TypeOK, Send
<1>3. TypeOK'
  BY <1>2, QueueAssumption DEF IInv, TypeOK, Send, Requests, Phases
<1>4. InHand'  BY DEF IInv, InHand, Send
<1>5. OnlySent'
  <2>1. Sent \subseteq Sent' /\ Len(size) + 1 \in Sent'  BY <1>2 DEF Sent
  <2>2. \A s \in Seq(Sent) : s \in Seq(Sent')  BY <2>1, SeqMonotonic
  <2>3. queue' \in Seq(Sent')
    <3>1. queue \in Seq(Sent')  BY <2>2 DEF IInv, OnlySent
    <3> QED  BY <2>1, <3>1 DEF Send
  <2>4. /\ responses' \in Seq(Sent') /\ bite' \in Seq(Sent') /\ waiting' \in Seq(Sent')
    BY <2>2 DEF IInv, OnlySent, Send
  <2> QED  BY <2>3, <2>4 DEF OnlySent
<1>6. Line \in Seq(Sent) /\ Line' = Append(Line, Len(size) + 1)
  <2> DEFINE before == responses \o bite \o waiting
  <2>1. before \in Seq(Sent) /\ queue \in Seq(Sent)  BY DEF IInv, OnlySent
  <2>2. Line = before \o queue /\ Line' = before \o Append(queue, Len(size) + 1)
    BY DEF Line, Send
  <2> HIDE DEF before
  <2> QED  BY <2>1, <2>2
<1>7. InArrivalOrder'
  <2>1. Line \in Seq(Nat) /\ \A i \in DOMAIN Line : Line[i] < Len(size) + 1
    <3>1. \A i \in DOMAIN Line : Line[i] \in 1..Len(size)  BY <1>6 DEF Sent
    <3>2. Sent \subseteq Nat  BY DEF Sent
    <3>3. Line \in Seq(Nat)  BY <1>6, <3>2, SeqMonotonic
    <3> QED  BY <1>2, <3>1, <3>3
  <2>2. Ascending(Line)  BY DEF IInv, InArrivalOrder, Ascending
  <2>3. Ascending(Append(Line, Len(size) + 1))  BY <1>2, <2>1, <2>2, AppendGreater
  <2> QED  BY <1>6, <2>3 DEF InArrivalOrder, Ascending
<1>8. NothingLost'
  BY <1>2, <1>6 DEF IInv, NothingLost, EveryRequestIsSomewhere, Send
<1>9. BiteWithinLimits'
  <2>1. Bytes(bite)' = Bytes(bite)
    <3>1. size \in Seq(Nat)
      <4>1. Sizes \subseteq Nat  BY QueueAssumption
      <4> QED  BY <1>2, <4>1, SeqMonotonic
    <3>4. bite \in Seq(1..Len(size))  BY DEF IInv, OnlySent, Sent
    <3>2. BytesUnder(Append(size, b), bite) = BytesUnder(size, bite)
      BY <1>2, <3>1, <3>4, BytesStay
    <3>3. Bytes(bite)' = BytesUnder(size', bite')  BY DEF Bytes, BytesUnder
    <3> QED  BY <1>1, <3>2, <3>3, BytesAreUnderSize DEF Send
  <2> QED  BY <2>1 DEF IInv, BiteWithinLimits, Send
<1> QED  BY <1>3, <1>4, <1>5, <1>7, <1>8, <1>9 DEF IInv

\* Steps that only move the worker on.
LEMMA PhaseKeepsIInv ==
  ASSUME IInv, AwaitFirst \/ WaitTimesOut \/ StopTaking \/ Signal \/ Stop
  PROVE  IInv'
<1>1. UNCHANGED <<size, queue, responses, limit, bite, waiting, faults>>
  BY DEF AwaitFirst, WaitTimesOut, StopTaking, Signal, Stop
<1>2. TypeOK' /\ InHand' /\ OnlySent'
  BY <1>1 DEF IInv, TypeOK, InHand, OnlySent, Sent, Phases,
              AwaitFirst, WaitTimesOut, StopTaking, Signal, Stop
<1>3. InArrivalOrder' /\ NothingLost'  BY <1>1, SameLine DEF Line
<1>4. BiteWithinLimits'  BY <1>1, SameBite
<1> QED  BY <1>2, <1>3, <1>4 DEF IInv

LEMMA TakeFirstKeepsIInv ==
  ASSUME IInv, TakeFirst
  PROVE  IInv'
<1>1. bite = <<>> /\ waiting = <<>> /\ queue # <<>>  BY DEF IInv, InHand, TakeFirst
<1>2. /\ queue \in Seq(Sent) /\ responses \in Seq(Sent) /\ queue \in Seq(Requests)
  BY DEF IInv, OnlySent, TypeOK
<1>3. /\ bite' \in Seq(Sent) /\ queue' \in Seq(Sent) /\ bite' \o queue' = queue
      /\ bite' \in Seq(Requests) /\ queue' \in Seq(Requests) /\ Len(bite') = 1
  BY <1>1, <1>2 DEF TakeFirst
<1>4. limit' \in 1..MaxMentions /\ limit' \in Nat /\ 1 <= limit'
  BY QueueAssumption DEF TakeFirst
<1>5. TypeOK'
  BY <1>1, <1>3, <1>4 DEF IInv, TypeOK, TakeFirst, Phases
<1>6. InHand'  BY <1>1, <1>3 DEF InHand, TakeFirst
<1>7. OnlySent'  BY <1>1, <1>3 DEF IInv, OnlySent, Sent, TakeFirst
<1>8. Line' = Line  BY <1>1, <1>2, <1>3 DEF Line, TakeFirst
<1>9. InArrivalOrder' /\ NothingLost'  BY <1>8, SameLine DEF TakeFirst
<1>10. BiteWithinLimits'  BY <1>3, <1>4, SmallBite
<1> QED  BY <1>5, <1>6, <1>7, <1>9, <1>10 DEF IInv

\* How many requests LMPOP returns.
Popped == LET room == limit - Len(bite)
          IN  IF Len(queue) < room THEN Len(queue) ELSE room

LEMMA PopWaitingKeepsIInv ==
  ASSUME IInv, PopWaiting
  PROVE  IInv'
<1>1. waiting = <<>> /\ bite # <<>> /\ phase' = "capping"
  BY DEF IInv, InHand, PopWaiting
<1>2. /\ queue \in Seq(Sent) /\ queue \in Seq(Requests) /\ bite \in Seq(Sent)
      /\ responses \in Seq(Sent) /\ limit \in Nat
  BY QueueAssumption DEF IInv, OnlySent, TypeOK
<1>3. Popped \in 0..Len(queue) /\ Len(bite) + Popped <= limit
  BY <1>2 DEF Popped, PopWaiting, HasRoom
<1>4. waiting' = Firsts(queue, Popped) /\ queue' = Rest(queue, Popped)
  BY DEF PopWaiting, Popped
<1> HIDE DEF Popped
<1>5. /\ waiting' \in Seq(Sent) /\ queue' \in Seq(Sent)
      /\ waiting' \in Seq(Requests) /\ queue' \in Seq(Requests)
      /\ Len(waiting') = Popped /\ waiting' \o queue' = queue
  BY <1>2, <1>3, <1>4, CutInTwo
<1>6. TypeOK'
  BY <1>1, <1>5 DEF IInv, TypeOK, PopWaiting, Phases
<1>7. InHand'  BY <1>1, <1>3, <1>5 DEF InHand, PopWaiting
<1>8. OnlySent'  BY <1>5 DEF IInv, OnlySent, Sent, PopWaiting
<1>9. Line' = Line
  <2>1. Line = responses \o bite \o queue  BY <1>1, <1>2 DEF Line
  <2>2. Line' = responses \o bite \o waiting' \o queue'  BY DEF Line, PopWaiting
  <2> DEFINE before == responses \o bite
  <2>3. before \in Seq(Sent)  BY <1>2
  <2> HIDE DEF before
  <2>4. before \o waiting' \o queue' = before \o (waiting' \o queue')
    <3>1. waiting' \in Seq(Sent) /\ queue' \in Seq(Sent)  BY <1>5
    <3> QED  BY <2>3, <3>1
  <2> QED  BY <1>5, <2>1, <2>2, <2>4 DEF before
<1>10. InArrivalOrder' /\ NothingLost'  BY <1>9, SameLine DEF PopWaiting
<1>11. BiteWithinLimits'  BY SameBite DEF PopWaiting
<1> QED  BY <1>6, <1>7, <1>8, <1>10, <1>11 DEF IInv

LEMMA ApplyByteCapKeepsIInv ==
  ASSUME IInv, ApplyByteCap
  PROVE  IInv'
<1>1. PICK n \in 0..Len(waiting) :
        /\ Fits(n)
        /\ bite' = bite \o Firsts(waiting, n)
        /\ IF n < Len(waiting)
           THEN queue' = Return(Rest(waiting, n)) /\ phase' = "resolving"
           ELSE phase' = "taking" /\ UNCHANGED queue
  BY DEF ApplyByteCap
<1>2. /\ waiting \in Seq(Sent) /\ waiting \in Seq(Requests)
      /\ queue \in Seq(Sent) /\ queue \in Seq(Requests)
      /\ bite \in Seq(Sent) /\ bite \in Seq(Requests)
      /\ responses \in Seq(Sent) /\ limit \in Nat
  BY QueueAssumption DEF IInv, OnlySent, TypeOK
<1>3. bite # <<>> /\ Len(bite) + Len(waiting) <= limit
  BY DEF IInv, InHand, ApplyByteCap
<1> DEFINE first == Firsts(waiting, n)
           rest == Rest(waiting, n)
<1>4. /\ first \in Seq(Sent) /\ first \in Seq(Requests) /\ Len(first) = n
      /\ rest \in Seq(Sent) /\ rest \in Seq(Requests) /\ Len(rest) = Len(waiting) - n
      /\ first \o rest = waiting
  BY <1>2, CutInTwo
<1>5. bite' = bite \o first /\ waiting' = <<>>  BY <1>1 DEF ApplyByteCap
<1>6. queue' = rest \o queue
  <2>1. CASE n < Len(waiting)
    <3>1. queue' = Reverse(Reverse(rest)) \o queue  BY <1>1, <2>1 DEF Return, PushBack
    <3> QED  BY <1>4, <3>1, ReturnIsInOrder
  <2>2. CASE ~(n < Len(waiting))
    <3>1. Len(rest) = 0 /\ queue' = queue  BY <1>1, <1>2, <1>4, <2>2
    <3> HIDE DEF rest
    <3> QED  BY <1>2, <1>4, <3>1
  <2> QED  BY <2>1, <2>2
<1> HIDE DEF first, rest
<1>7. /\ bite' \in Seq(Sent) /\ bite' \in Seq(Requests) /\ bite' # <<>>
      /\ Len(bite') = Len(bite) + Len(first)
      /\ queue' \in Seq(Sent) /\ queue' \in Seq(Requests)
  <2>1. /\ bite \in Seq(Sent) /\ first \in Seq(Sent) /\ bite # <<>>
        /\ bite \in Seq(Requests) /\ first \in Seq(Requests)
    BY <1>2, <1>3, <1>4
  <2>2. /\ bite \o first \in Seq(Sent) /\ bite \o first \in Seq(Requests)
        /\ bite \o first # <<>> /\ Len(bite \o first) = Len(bite) + Len(first)
    BY <2>1
  <2>3. /\ rest \in Seq(Sent) /\ queue \in Seq(Sent)
        /\ rest \in Seq(Requests) /\ queue \in Seq(Requests)
    BY <1>2, <1>4
  <2>4. rest \o queue \in Seq(Sent) /\ rest \o queue \in Seq(Requests)  BY <2>3
  <2> QED  BY <1>5, <1>6, <2>2, <2>4
<1>8. TypeOK'
  BY <1>1, <1>5, <1>7 DEF IInv, TypeOK, ApplyByteCap, Phases
<1>9. InHand'  BY <1>1, <1>5, <1>7 DEF InHand
<1>10. OnlySent'  BY <1>5, <1>7 DEF IInv, OnlySent, Sent, ApplyByteCap
<1>11. Line' = Line
  <2>1. Line' = responses \o (bite \o first) \o <<>> \o (rest \o queue)
    BY <1>5, <1>6 DEF Line, ApplyByteCap
  <2>2. Line = responses \o bite \o (first \o rest) \o queue  BY <1>4 DEF Line
  <2>3. responses \o (bite \o first) \o <<>> = responses \o bite \o first
    BY <1>2, <1>4, SMTT(60)
  <2> DEFINE before == responses \o bite
  <2>4. before \in Seq(Sent)  BY <1>2
  <2> HIDE DEF before
  <2>5. before \o first \o (rest \o queue) = before \o (first \o rest) \o queue
    <3>1. /\ first \in Seq(Sent) /\ rest \in Seq(Sent) /\ queue \in Seq(Sent)
      BY <1>2, <1>4
    <3> QED  BY <2>4, <3>1, SMTT(60)
  <2> QED  BY <2>1, <2>2, <2>3, <2>5 DEF before
<1>12. InArrivalOrder' /\ NothingLost'  BY <1>11, SameLine DEF ApplyByteCap
<1>13. BiteWithinLimits'
  <2>1. size \in Seq(Nat)
    <3>1. Sizes \subseteq Nat  BY QueueAssumption
    <3> QED  BY <3>1, SeqMonotonic DEF IInv, TypeOK
  <2>2. /\ Bytes(bite) \in Nat /\ Bytes(first) \in Nat
        /\ Bytes(bite \o first) = Bytes(bite) + Bytes(first)
    BY <1>2, <1>4, <2>1, BytesAdd, BytesAreUnderSize DEF Sent
  <2>3. Bytes(first) <= MaxBytes - Bytes(bite)  BY <1>1 DEF Fits, first
  <2>4. Bytes(bite)' = Bytes(bite \o first)
    BY <1>5 DEF Bytes, ApplyByteCap
  <2>5. Bytes(bite)' <= MaxBytes  BY <2>2, <2>3, <2>4, QueueAssumption
  <2>6. Len(bite') <= limit'  BY <1>2, <1>3, <1>4, <1>7 DEF ApplyByteCap
  <2> QED  BY <2>5, <2>6 DEF BiteWithinLimits
<1> QED  BY <1>8, <1>9, <1>10, <1>12, <1>13 DEF IInv

\* The next round starts with empty hands.
LEMMA NextRoundHands ==
  ASSUME IInv, NextRound, UNCHANGED <<size, queue, limit>>,
         responses' \in Seq(Sent), running' \in BOOLEAN, faults' \in 0..MaxFaults
  PROVE  TypeOK' /\ InHand' /\ OnlySent' /\ BiteWithinLimits'
<1>1. Sent \subseteq Requests  BY QueueAssumption DEF Sent, Requests, IInv, TypeOK
<1>2. responses' \in Seq(Requests)  BY <1>1, SeqMonotonic
<1>3. TypeOK'  BY <1>2 DEF IInv, TypeOK, NextRound, Phases
<1>4. InHand' /\ OnlySent'  BY DEF IInv, InHand, OnlySent, Sent, NextRound
<1>5. BiteWithinLimits'
  BY SmallBite, QueueAssumption DEF IInv, TypeOK, NextRound
<1> QED  BY <1>3, <1>4, <1>5

LEMMA SendResponsesKeepsIInv ==
  ASSUME IInv, SendResponses
  PROVE  IInv'
<1>1. waiting = <<>>  BY DEF IInv, InHand, SendResponses
<1>2. responses \in Seq(Sent) /\ bite \in Seq(Sent) /\ queue \in Seq(Sent)
  BY DEF IInv, OnlySent
<1>3. responses' = responses \o bite /\ bite' = <<>> /\ waiting' = <<>>
  BY DEF SendResponses, NextRound
<1>4. responses' \in Seq(Sent)  BY <1>2, <1>3
<1>5. TypeOK' /\ InHand' /\ OnlySent' /\ BiteWithinLimits'
  BY <1>4, NextRoundHands DEF IInv, TypeOK, SendResponses
<1>6. Line' = Line
  <2>1. Line = responses \o bite \o queue  BY <1>1, <1>2 DEF Line
  <2>2. Line' = (responses \o bite) \o <<>> \o <<>> \o queue
    BY <1>3 DEF Line, SendResponses
  <2> QED  BY <1>2, <2>1, <2>2
<1>7. InArrivalOrder' /\ NothingLost'  BY <1>6, SameLine DEF SendResponses
<1> QED  BY <1>5, <1>7 DEF IInv

\* A fault may take requests out of the middle of the line, and nothing else.
LEMMA FaultKeepsIInv ==
  ASSUME IInv, NextRound, UNCHANGED <<size, queue, limit>>, running' \in BOOLEAN,
         faults < MaxFaults, faults' = faults + 1,
         NEW a \in Seq(Sent), NEW b \in Seq(Sent), NEW c \in Seq(Sent),
         Line = a \o b \o c, Line' = a \o c, responses' \in Seq(Sent)
  PROVE  IInv'
<1>1. faults' \in 0..MaxFaults /\ faults' # 0
  BY QueueAssumption DEF IInv, TypeOK
<1>2. TypeOK' /\ InHand' /\ OnlySent' /\ BiteWithinLimits'  BY <1>1, NextRoundHands
<1>3. a \in Seq(Nat) /\ b \in Seq(Nat) /\ c \in Seq(Nat)
  <2>1. Sent \subseteq Nat  BY DEF Sent
  <2> QED  BY <2>1, SeqMonotonic
<1>4. InArrivalOrder'
  <2>1. Ascending(a \o b \o c)  BY DEF IInv, InArrivalOrder, Ascending
  <2>2. Ascending(a \o c)  BY <1>3, <2>1, LeaveOutMiddle
  <2> QED  BY <2>2 DEF InArrivalOrder, Ascending
<1>5. NothingLost'  BY <1>1 DEF NothingLost
<1> QED  BY <1>2, <1>4, <1>5 DEF IInv

LEMMA LoseResponsesKeepsIInv ==
  ASSUME IInv, LoseResponses
  PROVE  IInv'
<1>1. waiting = <<>>  BY DEF IInv, InHand, LoseResponses
<1>2. responses \in Seq(Sent) /\ bite \in Seq(Sent) /\ queue \in Seq(Sent)
  BY DEF IInv, OnlySent
<1>3. /\ NextRound /\ UNCHANGED <<size, queue, limit>> /\ running' \in BOOLEAN
      /\ faults < MaxFaults /\ faults' = faults + 1 /\ bite' = <<>> /\ waiting' = <<>>
  BY DEF LoseResponses, NextRound, IInv, TypeOK
<1>4. Line = responses \o bite \o queue  BY <1>1, <1>2 DEF Line
<1>5. ASSUME responses' \in Seq(Sent) PROVE Line' = responses' \o queue
  <2>1. Line' = responses' \o <<>> \o <<>> \o queue  BY <1>3 DEF Line
  <2> QED  BY <1>2, <1>5, <2>1
<1>6. ASSUME NEW n \in 0..Len(bite) - 1, responses' = responses \o Firsts(bite, n)
      PROVE  IInv'
  <2> DEFINE first == Firsts(bite, n)
             rest == Rest(bite, n)
             a == responses \o first
  <2>1. first \in Seq(Sent) /\ rest \in Seq(Sent) /\ first \o rest = bite
    <3>1. n \in 0..Len(bite)  BY <1>2
    <3> QED  BY <1>2, <3>1, CutInTwo
  <2> HIDE DEF first, rest
  <2>2. a \in Seq(Sent)  BY <1>2, <2>1
  <2>3. responses' = a  BY <1>6 DEF first
  <2>4. responses \o (first \o rest) = a \o rest
    <3>1. responses \in Seq(Sent) /\ first \in Seq(Sent) /\ rest \in Seq(Sent)
      BY <1>2, <2>1
    <3> QED  BY <3>1, SMTT(60)
  <2>5. Line = a \o rest \o queue  BY <1>4, <2>1, <2>4
  <2>6. Line' = a \o queue  BY <1>5, <2>2, <2>3
  <2> HIDE DEF a
  <2> QED  BY <1>2, <1>3, <2>1, <2>2, <2>3, <2>5, <2>6, FaultKeepsIInv
<1>7. ASSUME NEW i \in DOMAIN bite, responses' = responses \o RemoveAt(bite, i)
      PROVE  IInv'
  <2> DEFINE first == Firsts(bite, i - 1)
             from == Rest(bite, i - 1)
             one == Firsts(from, 1)
             rest == Rest(bite, i)
             a == responses \o first
             c == rest \o queue
  <2>1. first \in Seq(Sent) /\ from \in Seq(Sent) /\ first \o from = bite /\ Len(from) >= 1
    <3>1. i - 1 \in 0..Len(bite) /\ Len(bite) - (i - 1) >= 1  BY <1>2
    <3> QED  BY <1>2, <3>1, CutInTwo
  <2>2. one \in Seq(Sent) /\ rest \in Seq(Sent) /\ one \o rest = from
    <3>1. rest = Rest(from, 1)  BY <1>2, RestOfRest
    <3> HIDE DEF from
    <3>2. 1 \in 0..Len(from)  BY <2>1
    <3> QED  BY <2>1, <3>1, <3>2, CutInTwo, ZenonT(60)
  <2>3. RemoveAt(bite, i) = first \o rest  BY DEF RemoveAt, Firsts, Rest
  <2> HIDE DEF first, from, one, rest
  <2>4. a \in Seq(Sent) /\ c \in Seq(Sent)  BY <1>2, <2>1, <2>2
  <2>5. Line = a \o one \o c
    <3>1. responses \o (first \o from) = a \o from
      <4>1. responses \in Seq(Sent) /\ first \in Seq(Sent) /\ from \in Seq(Sent)
        BY <1>2, <2>1
      <4> QED  BY <4>1
    <3>2. a \o (one \o rest) \o queue = a \o one \o c
      <4>1. /\ one \in Seq(Sent) /\ rest \in Seq(Sent) /\ queue \in Seq(Sent)
            /\ a \in Seq(Sent)
        BY <1>2, <2>2, <2>4
      <4> HIDE DEF a
      <4> QED  BY <4>1, SMTT(60)
    <3> QED  BY <1>4, <2>1, <2>2, <3>1, <3>2
  <2>6. responses' = a \o rest
    <3>1. responses \in Seq(Sent) /\ first \in Seq(Sent) /\ rest \in Seq(Sent)
      BY <1>2, <2>1, <2>2
    <3>2. responses \o (first \o rest) = a \o rest  BY <3>1
    <3> QED  BY <1>7, <2>3, <3>2
  <2> HIDE DEF a
  <2>7. responses' \in Seq(Sent)  BY <2>2, <2>4, <2>6
  <2>8. Line' = a \o c
    <3>1. (a \o rest) \o queue = a \o c  BY <1>2, <2>2, <2>4, SMTT(60)
    <3> QED  BY <1>5, <2>6, <2>7, <3>1
  <2> HIDE DEF c
  <2> QED  BY <1>3, <2>2, <2>4, <2>5, <2>7, <2>8, FaultKeepsIInv
<1> QED  BY <1>6, <1>7 DEF LoseResponses

LEMMA CrashKeepsIInv ==
  ASSUME IInv, CrashAndRestart
  PROVE  IInv'
<1> DEFINE hands == bite \o waiting
<1>1. /\ responses \in Seq(Sent) /\ bite \in Seq(Sent)
      /\ waiting \in Seq(Sent) /\ queue \in Seq(Sent)
  BY DEF IInv, OnlySent
<1>2. /\ NextRound /\ UNCHANGED <<size, queue, limit, responses>> /\ running' \in BOOLEAN
      /\ faults < MaxFaults /\ faults' = faults + 1 /\ bite' = <<>> /\ waiting' = <<>>
  BY DEF CrashAndRestart, NextRound
<1>3. hands \in Seq(Sent)  BY <1>1
<1>4. Line = responses \o hands \o queue  BY <1>1 DEF Line
<1>5. Line' = responses \o queue
  <2>1. Line' = responses \o <<>> \o <<>> \o queue  BY <1>2 DEF Line
  <2> QED  BY <1>1, <2>1
<1>6. responses' \in Seq(Sent)  BY <1>1, <1>2
<1> HIDE DEF hands
<1> QED  BY <1>1, <1>2, <1>3, <1>4, <1>5, <1>6, FaultKeepsIInv

LEMMA NextIInv ==
  ASSUME IInv, [Next]_vars
  PROVE  IInv'
<1>1. CASE Send  BY <1>1, SendKeepsIInv
<1>2. CASE AwaitFirst \/ WaitTimesOut \/ StopTaking \/ Signal \/ Stop
  BY <1>2, PhaseKeepsIInv
<1>3. CASE TakeFirst  BY <1>3, TakeFirstKeepsIInv
<1>4. CASE PopWaiting  BY <1>4, PopWaitingKeepsIInv
<1>5. CASE ApplyByteCap  BY <1>5, ApplyByteCapKeepsIInv
<1>6. CASE SendResponses  BY <1>6, SendResponsesKeepsIInv
<1>7. CASE LoseResponses  BY <1>7, LoseResponsesKeepsIInv
<1>8. CASE CrashAndRestart  BY <1>8, CrashKeepsIInv
<1>9. CASE UNCHANGED vars
  <2>1. TypeOK' /\ InHand' /\ OnlySent'
    BY <1>9 DEF IInv, vars, TypeOK, InHand, OnlySent, Sent
  <2>2. InArrivalOrder' /\ NothingLost'  BY <1>9, SameLine DEF vars, Line
  <2>3. BiteWithinLimits'  BY <1>9, SameBite DEF vars
  <2> QED  BY <2>1, <2>2, <2>3 DEF IInv
<1> QED  BY <1>1, <1>2, <1>3, <1>4, <1>5, <1>6, <1>7, <1>8, <1>9 DEF Next, Work

LEMMA IInvAlways == Spec => []IInv
  BY InitIInv, NextIInv, PTL DEF Spec

\* The lists, the bite and the limits are well formed in every behaviour.
THEOREM QueueTypes == Spec => []TypeOK
  BY IInvAlways, PTL DEF IInv

\* Requests are taken and answered in the order they were sent and none is in
\* two places, for any sizes and limits, through crashes, lost responses and
\* requests pushed back while clients push (take, _within_byte_cap).
THEOREM OrderIsKept == Spec => []InArrivalOrder
  BY IInvAlways, PTL DEF IInv

\* Without a fault no request disappears (take, process_bite, the shutdown).
THEOREM NoRequestIsLost == Spec => []NothingLost
  BY IInvAlways, PTL DEF IInv

\* A bite keeps to its number of requests and to its bytes, unless it is one
\* request alone (the byte cap of take).
THEOREM BitesKeepToLimits == Spec => []BiteWithinLimits
  BY IInvAlways, PTL DEF IInv

-----------------------------------------------------------------------------
(***************************************************************************)
(* The refinement: what the worker holds while it takes a bite is, for     *)
(* everybody else, still in the list.                                      *)
(***************************************************************************)
Taken == IF phase = "resolving" THEN bite ELSE <<>>
Inbox == Held \o queue

\* A step that changes nothing the contract sees.
LEMMA Stutters ==
  ASSUME UNCHANGED <<size, responses>>, Inbox' = Inbox, Taken' = Taken
  PROVE  UNCHANGED Contract!vars
  BY DEF Contract!vars, Inbox, Taken

\* A bite that is complete is a prefix of the list, taken at once.
LEMMA Takes ==
  ASSUME NEW a \in Seq(Requests), NEW b \in Seq(Requests), a # <<>>,
         Inbox = a \o b, Taken = <<>>, Taken' = a, Inbox' = b,
         UNCHANGED <<size, responses>>
  PROVE  Contract!Take
<1> DEFINE all == a \o b
           n == Len(a)
<1>1. all # <<>> /\ n \in 1..Len(all)  OBVIOUS
<1>2. SubSeq(all, 1, n) = a /\ SubSeq(all, n + 1, Len(all)) = b
  <2>1. SubSeq(all, 1, n) = a  OBVIOUS
  <2>2. SubSeq(all, n + 1, Len(all)) = b  OBVIOUS
  <2> QED  BY <2>1, <2>2
<1> HIDE DEF all, n
<1>3. Inbox = all  BY DEF all
<1> QED  BY <1>1, <1>2, <1>3 DEF Contract!Take, Inbox, Taken

\* The worker dies while it takes a bite.
LEMMA Loses ==
  ASSUME NEW a \in Seq(Requests), NEW b \in Seq(Requests), a # <<>>,
         Inbox = a \o b, Taken = <<>>, Taken' = <<>>, Inbox' = b,
         UNCHANGED <<size, responses>>
  PROVE  Contract!Lose
<1> DEFINE all == a \o b
           n == Len(a)
<1>1. n \in 1..Len(all) /\ SubSeq(all, n + 1, Len(all)) = b  OBVIOUS
<1> HIDE DEF all, n
<1>2. Inbox = all  BY DEF all
<1> QED  BY <1>1, <1>2 DEF Contract!Lose, Inbox, Taken

LEMMA ContractInit == Init => Contract!Init
<1> SUFFICES ASSUME Init PROVE Contract!Init  OBVIOUS
<1>1. Held = <<>> /\ queue = <<>> /\ size = <<>> /\ responses = <<>> /\ phase = "loop"
  BY DEF Init, Held
<1> QED  BY <1>1 DEF Contract!Init

LEMMA SendRefines ==
  ASSUME IInv, Send
  PROVE  Contract!Send
<1>1. Held' = Held /\ phase' = phase /\ bite' = bite  BY DEF Held, Send
<1>2. Held \in Seq(Sent) /\ queue \in Seq(Sent)  BY DEF Held, IInv, OnlySent
<1>3. PICK b \in Sizes : size' = Append(size, b)  BY DEF Send
<1>4. Len(size') = Len(size) + 1 /\ Len(size) < MaxRequests
  BY <1>3 DEF IInv, TypeOK, Send
<1>5. queue' = Append(queue, Len(size')) /\ responses' = responses  BY <1>4 DEF Send
<1>6. Held \o Append(queue, Len(size')) = Append(Held \o queue, Len(size'))  BY <1>2
<1>7. (Held \o queue)' = Append(Held \o queue, Len(size'))  BY <1>1, <1>5, <1>6
<1> QED  BY <1>1, <1>4, <1>5, <1>7 DEF Contract!Send

\* A step before the requests are popped, and BRPOP itself, are not seen.
LEMMA LoopRefines ==
  ASSUME IInv, AwaitFirst \/ TakeFirst \/ WaitTimesOut \/ PopWaiting \/ Signal \/ Stop
  PROVE  UNCHANGED Contract!vars
<1>1. UNCHANGED <<size, responses>>
  BY DEF AwaitFirst, TakeFirst, WaitTimesOut, PopWaiting, Signal, Stop
<1>2. queue \in Seq(Sent) /\ bite \in Seq(Sent)  BY DEF IInv, OnlySent
<1>3. CASE AwaitFirst \/ WaitTimesOut \/ Signal \/ Stop
  <2>1. Inbox' = Inbox /\ Taken' = Taken
    BY <1>3 DEF Inbox, Held, Taken, AwaitFirst, WaitTimesOut, Signal, Stop
  <2> QED  BY <1>1, <2>1, Stutters
<1>4. CASE TakeFirst
  <2>1. waiting' = <<>> /\ queue # <<>>  BY <1>4 DEF IInv, InHand, TakeFirst
  <2>2. Inbox = <<>> \o queue /\ Inbox' = (<<Head(queue)>> \o <<>>) \o Tail(queue)
    BY <1>4, <2>1 DEF Inbox, Held, TakeFirst
  <2>3. Inbox' = Inbox  BY <1>2, <2>1, <2>2
  <2>4. Taken' = Taken  BY <1>4 DEF Taken, TakeFirst
  <2> QED  BY <1>1, <2>3, <2>4, Stutters
<1>5. CASE PopWaiting
  <2>1. waiting = <<>>  BY <1>5 DEF IInv, InHand, PopWaiting
  <2>2. limit \in Nat /\ Len(bite) < limit
    BY <1>5, QueueAssumption DEF PopWaiting, HasRoom, IInv, TypeOK
  <2>3. Popped \in 0..Len(queue)  BY <1>2, <2>2 DEF Popped
  <2>4. waiting' = Firsts(queue, Popped) /\ queue' = Rest(queue, Popped)
    BY <1>5 DEF PopWaiting, Popped
  <2>5. waiting' \in Seq(Sent) /\ queue' \in Seq(Sent) /\ waiting' \o queue' = queue
    BY <1>2, <2>3, <2>4, CutInTwo
  <2>6. Inbox = (bite \o <<>>) \o queue /\ Inbox' = (bite \o waiting') \o queue'
    BY <1>5, <2>1 DEF Inbox, Held, PopWaiting
  <2>7. (bite \o waiting') \o queue' = bite \o (waiting' \o queue')
    <3>1. bite \in Seq(Sent) /\ waiting' \in Seq(Sent) /\ queue' \in Seq(Sent)
      BY <1>2, <2>5
    <3> QED  BY <3>1
  <2>8. Inbox' = Inbox  BY <1>2, <2>5, <2>6, <2>7
  <2>9. Taken' = Taken  BY <1>5 DEF Taken, PopWaiting
  <2> QED  BY <1>1, <2>8, <2>9, Stutters
<1> QED  BY <1>3, <1>4, <1>5

LEMMA ApplyByteCapRefines ==
  ASSUME IInv, IInv', ApplyByteCap
  PROVE  Contract!Take \/ UNCHANGED Contract!vars
<1>1. PICK n \in 0..Len(waiting) :
        /\ bite' = bite \o Firsts(waiting, n)
        /\ IF n < Len(waiting)
           THEN queue' = Return(Rest(waiting, n)) /\ phase' = "resolving"
           ELSE phase' = "taking" /\ UNCHANGED queue
  BY DEF ApplyByteCap
<1>2. /\ waiting \in Seq(Requests) /\ queue \in Seq(Requests) /\ bite \in Seq(Requests)
      /\ bite' \in Seq(Requests) /\ queue' \in Seq(Requests) /\ bite' # <<>>
  <2>1. bite' # <<>>  BY <1>1 DEF IInv, InHand
  <2> QED  BY <2>1 DEF IInv, TypeOK
<1> DEFINE first == Firsts(waiting, n)
           rest == Rest(waiting, n)
<1>3. /\ first \in Seq(Requests) /\ rest \in Seq(Requests) /\ first \o rest = waiting
      /\ Len(rest) = Len(waiting) - n
  BY <1>2, CutInTwo
<1>4. UNCHANGED <<size, responses>> /\ phase = "capping" /\ waiting' = <<>>
  BY DEF ApplyByteCap
<1>5. Inbox = (bite \o waiting) \o queue /\ Taken = <<>>
  BY <1>4 DEF Inbox, Held, Taken
<1>6. CASE n < Len(waiting)
  <2>1. queue' = rest \o queue
    <3>1. queue' = Reverse(Reverse(rest)) \o queue  BY <1>1, <1>6 DEF Return, PushBack
    <3> QED  BY <1>3, <3>1, ReturnIsInOrder
  <2>2. phase' = "resolving"  BY <1>1, <1>6
  <2>3. Taken' = bite' /\ Inbox' = <<>> \o queue'  BY <2>2 DEF Taken, Inbox, Held
  <2>4. Inbox' = queue'  BY <1>2, <2>3
  <2>5. Inbox = bite' \o queue'
    <3> HIDE DEF first, rest
    <3>1. (bite \o first) \o (rest \o queue) = (bite \o (first \o rest)) \o queue
      <4>1. /\ bite \in Seq(Requests) /\ first \in Seq(Requests)
            /\ rest \in Seq(Requests) /\ queue \in Seq(Requests)
        BY <1>2, <1>3
      <4> QED  BY <4>1, SMTT(60)
    <3>2. bite' = bite \o first  BY <1>1 DEF first
    <3> QED  BY <1>3, <1>5, <2>1, <3>1, <3>2
  <2>6. Contract!Take  BY <1>2, <1>4, <1>5, <2>3, <2>4, <2>5, Takes
  <2> QED  BY <2>6
<1>7. CASE ~(n < Len(waiting))
  <2>1. phase' = "taking" /\ queue' = queue /\ n = Len(waiting)  BY <1>1, <1>2, <1>7
  <2>2. first = waiting  BY <1>2, <2>1 DEF Firsts
  <2>3. Inbox' = ((bite \o waiting) \o <<>>) \o queue /\ Taken' = <<>>
    BY <1>1, <1>4, <2>1, <2>2 DEF Inbox, Held, Taken
  <2>4. Inbox' = Inbox  BY <1>2, <1>5, <2>3
  <2> QED  BY <1>4, <1>5, <2>3, <2>4, Stutters
<1> QED  BY <1>6, <1>7

LEMMA StopTakingRefines ==
  ASSUME IInv, StopTaking
  PROVE  Contract!Take
<1>1. bite # <<>> /\ waiting = <<>>  BY DEF IInv, InHand, StopTaking
<1>2. bite \in Seq(Requests) /\ queue \in Seq(Requests)  BY DEF IInv, TypeOK
<1>3. Inbox = (bite \o <<>>) \o queue /\ Taken = <<>>
  BY <1>1 DEF Inbox, Held, Taken, StopTaking
<1>4. Inbox' = <<>> \o queue /\ Taken' = bite  BY DEF Inbox, Held, Taken, StopTaking
<1>5. Inbox = bite \o queue /\ Inbox' = queue  BY <1>2, <1>3, <1>4
<1>6. UNCHANGED <<size, responses>>  BY DEF StopTaking
<1> QED  BY <1>1, <1>2, <1>3, <1>4, <1>5, <1>6, Takes

\* Some of the bite's requests are answered, in their order.
LEMMA Answers ==
  ASSUME IInv, phase = "resolving", NextRound, UNCHANGED <<size, queue>>,
         NEW n \in 0..Len(bite), NEW through \in [1..n -> 1..Len(bite)],
         \A k, l \in 1..n : k < l => through[k] < through[l],
         responses' = responses \o [k \in 1..n |-> bite[through[k]]]
  PROVE  Contract!Answer
<1>1. bite # <<>>  BY DEF IInv, InHand
<1>2. Taken = bite /\ Taken' = <<>>  BY DEF Taken, NextRound
<1>3. Inbox' = Inbox  BY DEF Inbox, Held, NextRound
<1> QED  BY <1>1, <1>2, <1>3 DEF Contract!Answer, Taken, Inbox

LEMMA SendResponsesRefines ==
  ASSUME IInv, SendResponses
  PROVE  Contract!Answer
<1> DEFINE n == Len(bite)
           through == [k \in 1..n |-> k]
<1>1. bite \in Seq(Requests)  BY DEF IInv, TypeOK
<1>2. n \in 0..Len(bite) /\ through \in [1..n -> 1..Len(bite)]  BY <1>1
<1>3. \A k, l \in 1..n : k < l => through[k] < through[l]  OBVIOUS
<1>4. [k \in 1..n |-> bite[through[k]]] = bite  BY <1>1
<1> HIDE DEF n, through
<1>5. responses' = responses \o [k \in 1..n |-> bite[through[k]]]
  BY <1>4 DEF SendResponses
<1> QED  BY <1>2, <1>3, <1>5, Answers DEF SendResponses

LEMMA LoseResponsesRefines ==
  ASSUME IInv, LoseResponses
  PROVE  Contract!Answer
<1>1. bite \in Seq(Requests)  BY DEF IInv, TypeOK
<1>2. ASSUME NEW n \in 0..Len(bite) - 1, responses' = responses \o Firsts(bite, n)
      PROVE  Contract!Answer
  <2> DEFINE through == [k \in 1..n |-> k]
  <2>1. n \in 0..Len(bite) /\ through \in [1..n -> 1..Len(bite)]  BY <1>1
  <2>2. \A k, l \in 1..n : k < l => through[k] < through[l]  OBVIOUS
  <2>3. [k \in 1..n |-> bite[through[k]]] = Firsts(bite, n)  BY <1>1 DEF Firsts
  <2> HIDE DEF through
  <2>4. responses' = responses \o [k \in 1..n |-> bite[through[k]]]  BY <1>2, <2>3
  <2> QED  BY <2>1, <2>2, <2>4, Answers DEF LoseResponses
<1>3. ASSUME NEW i \in DOMAIN bite, responses' = responses \o RemoveAt(bite, i)
      PROVE  Contract!Answer
  <2> DEFINE n == Len(bite) - 1
             through == [k \in 1..n |-> IF k < i THEN k ELSE k + 1]
             left == [k \in 1..n |-> bite[through[k]]]
  <2>1. i \in 1..Len(bite) /\ n \in 0..Len(bite)  BY <1>1
  <2>2. through \in [1..n -> 1..Len(bite)]  BY <1>1, <2>1
  <2>3. \A k, l \in 1..n : k < l => through[k] < through[l]  BY <2>1
  <2>4. left = RemoveAt(bite, i)
    <3> DEFINE before == SubSeq(bite, 1, i - 1)
               after == SubSeq(bite, i + 1, Len(bite))
    <3>1. /\ before \in Seq(Requests) /\ Len(before) = i - 1
          /\ \A k \in 1..i - 1 : before[k] = bite[k]
      BY <1>1, <2>1
    <3>2. /\ after \in Seq(Requests) /\ Len(after) = Len(bite) - i
          /\ \A k \in 1..Len(bite) - i : after[k] = bite[i + k]
      BY <1>1, <2>1
    <3>3. left \in Seq(Requests) /\ Len(left) = n  BY <1>1, <2>1, <2>2
    <3> HIDE DEF before, after
    <3>4. before \o after \in Seq(Requests) /\ Len(before \o after) = n
      BY <2>1, <3>1, <3>2
    <3>5. ASSUME NEW k \in 1..n PROVE left[k] = (before \o after)[k]
      <4>1. CASE k < i
        <5>1. (before \o after)[k] = before[k]  BY <2>1, <3>1, <3>2, <4>1
        <5> QED  BY <2>1, <3>1, <4>1, <5>1
      <4>2. CASE ~(k < i)
        <5>1. (before \o after)[k] = after[k - (i - 1)]
          <6>1. k \in Len(before) + 1..Len(before) + Len(after)
            BY <2>1, <3>1, <3>2, <4>2
          <6>2. before \in Seq(Requests) /\ after \in Seq(Requests)  BY <3>1, <3>2
          <6>3. (before \o after)[k] = after[k - Len(before)]
            <7> HIDE DEF n
            <7> QED  BY <6>1, <6>2
          <6> QED  BY <3>1, <6>3
        <5>2. k - (i - 1) \in 1..Len(bite) - i /\ i + (k - (i - 1)) = k + 1
          BY <2>1, <4>2
        <5>3. after[k - (i - 1)] = bite[i + (k - (i - 1))]  BY <3>2, <5>2
        <5> QED  BY <4>2, <5>1, <5>2, <5>3
      <4> QED  BY <4>1, <4>2
    <3> HIDE DEF left, n
    <3>6. left = before \o after  BY <3>3, <3>4, <3>5, SeqEqual
    <3> QED  BY <3>6 DEF RemoveAt, before, after
  <2> HIDE DEF through, n
  <2>5. responses' = responses \o left
    <3> HIDE DEF left
    <3> QED  BY <1>3, <2>4
  <2> QED  BY <2>1, <2>2, <2>3, <2>5, Answers DEF LoseResponses
<1> QED  BY <1>2, <1>3 DEF LoseResponses

LEMMA CrashRefines ==
  ASSUME IInv, CrashAndRestart
  PROVE  Contract!Lose
<1>1. UNCHANGED <<size, queue, responses>> /\ phase' = "loop" /\ bite' = <<>>
  BY DEF CrashAndRestart, NextRound
<1>2. queue \in Seq(Requests) /\ bite \in Seq(Requests) /\ waiting \in Seq(Requests)
  BY DEF IInv, TypeOK
<1>3. Taken' = <<>> /\ Inbox' = <<>> \o queue  BY <1>1 DEF Taken, Inbox, Held
<1>4. Inbox' = queue  BY <1>2, <1>3
<1>5. CASE phase \in {"taking", "capping"}
  <2>1. Inbox = (bite \o waiting) \o queue /\ Taken = <<>> /\ bite # <<>>
    BY <1>5 DEF Inbox, Held, Taken, IInv, InHand
  <2> DEFINE hands == bite \o waiting
  <2>2. hands \in Seq(Requests) /\ hands # <<>>  BY <1>2, <2>1
  <2> HIDE DEF hands
  <2>3. Inbox = hands \o queue  BY <2>1 DEF hands
  <2> QED  BY <1>1, <1>2, <1>3, <1>4, <2>1, <2>2, <2>3, Loses
<1>6. CASE phase \notin {"taking", "capping"}
  <2>1. Inbox = <<>> \o queue  BY <1>6 DEF Inbox, Held
  <2>2. Inbox' = Inbox  BY <1>2, <1>4, <2>1
  <2> QED  BY <1>1, <1>3, <2>2 DEF Contract!Lose, Inbox, Taken
<1> QED  BY <1>5, <1>6

\* A worker that takes its bites in several commands, with a cap that hands
\* requests back, implements BiteQueue: bites are prefixes taken at once,
\* answered in order, and only what the worker holds can be lost.
THEOREM QueueImplementsContract == Spec => BitesAreAtomic
<1>1. Init => Contract!Init  BY ContractInit
<1>2. IInv /\ IInv' /\ [Next]_vars => [Contract!Next]_Contract!vars
  <2> SUFFICES ASSUME IInv, IInv', [Next]_vars
               PROVE  Contract!Next \/ UNCHANGED Contract!vars
    OBVIOUS
  <2>1. CASE Send  BY <2>1, SendRefines DEF Contract!Next
  <2>2. CASE AwaitFirst \/ TakeFirst \/ WaitTimesOut \/ PopWaiting \/ Signal \/ Stop
    BY <2>2, LoopRefines
  <2>3. CASE ApplyByteCap  BY <2>3, ApplyByteCapRefines DEF Contract!Next
  <2>4. CASE StopTaking  BY <2>4, StopTakingRefines DEF Contract!Next
  <2>5. CASE SendResponses  BY <2>5, SendResponsesRefines DEF Contract!Next
  <2>6. CASE LoseResponses  BY <2>6, LoseResponsesRefines DEF Contract!Next
  <2>7. CASE CrashAndRestart  BY <2>7, CrashRefines DEF Contract!Next
  <2>8. CASE UNCHANGED vars
    <3>1. UNCHANGED <<size, responses>> /\ Inbox' = Inbox /\ Taken' = Taken
      BY <2>8 DEF vars, Inbox, Held, Taken
    <3> QED  BY <3>1, Stutters
  <2> QED  BY <2>1, <2>2, <2>3, <2>4, <2>5, <2>6, <2>7, <2>8 DEF Next, Work
<1> QED  BY <1>1, <1>2, IInvAlways, PTL DEF Spec, BitesAreAtomic, Contract!Spec
=============================================================================
