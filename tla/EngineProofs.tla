----------------------------- MODULE EngineProofs -----------------------------
(***************************************************************************)
(* Proofs about Engine, for any ids, contents, files and bounds.           *)
(***************************************************************************)
EXTENDS Engine, FiniteSetTheorems, SequenceTheorems, WellFoundedInduction, TLAPS

(***************************************************************************)
(* The invariant.  A resolution is true wherever it is, so what was        *)
(* received is stored; a run is complete when it has received all its ids; *)
(* the replies of a bite stand for its requests; and what a run has sent is*)
(* somewhere, as long as there was no fault.                               *)
(***************************************************************************)
ReceivedIsStored == \A id \in received : text[id] # None
CompleteHasAll == client = "complete" => received = IdsOf(data)
BitesInHand ==
  /\ phase = "loop" => bite = <<>>
  /\ phase # "responding" => replies = <<>>
  /\ phase = "responding" => \A p \in DOMAIN bite : replies[p].request = bite[p]
SendingEnds ==
  /\ client = "sending" => sent < Len(data)
  /\ client = "listening" => sent = Len(data)
SentIsSomewhere ==
  Running /\ faults = 0 => \A i \in 1..sent : data[i].id \in received \cup Pending

IInv == /\ TypeOK /\ SendingEnds /\ ResolutionsAreStored /\ ReceivedIsStored
        /\ CompleteHasAll /\ BitesInHand /\ SentIsSomewhere

-----------------------------------------------------------------------------
(***************************************************************************)
(* Numbers and sequences.                                                  *)
(***************************************************************************)
\* A set of numbers has a least element.
LEMMA LeastElement ==
  ASSUME NEW T \in SUBSET Nat, T # {}
  PROVE  \E x \in T : \A y \in T : x <= y
<1> DEFINE less == {ss \in Nat \X Nat : ss[1] < ss[2]}
<1>1. IsWellFoundedOn(less, Nat)  BY NatLessThanWellFounded DEF OpToRel
<1> HIDE DEF less
<1>2. \E x \in T : \A y \in T : <<y, x>> \notin less  BY <1>1, WFMin
<1>3. \A x, y \in Nat : <<y, x>> \in less <=> y < x  BY DEF less
<1>4. PICK x \in T : \A y \in T : <<y, x>> \notin less  BY <1>2
<1>5. \A y \in T : x \in Nat /\ y \in Nat  OBVIOUS
<1>6. \A y \in T : ~(y < x)  BY <1>3, <1>4, <1>5
<1>7. \A y \in T : x <= y  BY <1>5, <1>6
<1> QED  BY <1>7

\* Cutting a sequence in two keeps its elements.
LEMMA CutInTwo ==
  ASSUME NEW S, NEW s \in Seq(S), NEW n \in 0..Len(s)
  PROVE  /\ SubSeq(s, 1, n) \in Seq(S) /\ SubSeq(s, n + 1, Len(s)) \in Seq(S)
         /\ Len(SubSeq(s, 1, n)) = n
         /\ Range(s) = Range(SubSeq(s, 1, n)) \cup Range(SubSeq(s, n + 1, Len(s)))
<1> DEFINE first == SubSeq(s, 1, n)
           rest == SubSeq(s, n + 1, Len(s))
<1>1. first \in Seq(S) /\ rest \in Seq(S) /\ Len(first) = n /\ Len(rest) = Len(s) - n
  OBVIOUS
<1>2. /\ \A i \in 1..n : first[i] = s[i]
      /\ \A i \in n + 1..Len(s) : rest[i - n] = s[i]
      /\ \A i \in 1..Len(s) - n : rest[i] = s[i + n]
  OBVIOUS
<1>3. DOMAIN first = 1..n /\ DOMAIN rest = 1..Len(s) - n /\ DOMAIN s = 1..Len(s)
  BY <1>1
<1> HIDE DEF first, rest
<1>4. ASSUME NEW i \in 1..Len(s)
      PROVE  s[i] \in Range(first) \cup Range(rest)
  <2>1. CASE i \in 1..n  BY <2>1, <1>2, <1>3 DEF Range
  <2>2. CASE i \in n + 1..Len(s)
    <3>1. i - n \in DOMAIN rest  BY <2>2, <1>3
    <3> QED  BY <2>2, <3>1, <1>2 DEF Range
  <2> QED  BY <2>1, <2>2
<1>5. Range(first) \subseteq Range(s)
  <2>1. \A i \in 1..n : i \in DOMAIN s  BY <1>3
  <2> QED  BY <2>1, <1>2, <1>3 DEF Range
<1>6. Range(rest) \subseteq Range(s)
  <2>1. \A i \in 1..Len(s) - n : i + n \in DOMAIN s  BY <1>3
  <2> QED  BY <2>1, <1>2, <1>3 DEF Range
<1>7. Range(s) \subseteq Range(first) \cup Range(rest)  BY <1>3, <1>4 DEF Range
<1> QED  BY <1>1, <1>5, <1>6, <1>7 DEF first, rest

\* Taking the head off a sequence.
LEMMA TakeHead ==
  ASSUME NEW S, NEW s \in Seq(S), s # <<>>
  PROVE  /\ Head(s) \in S /\ Tail(s) \in Seq(S)
         /\ Tail(s) = SubSeq(s, 2, Len(s))
         /\ Range(s) = {Head(s)} \cup Range(Tail(s))
<1>1. Head(s) \in S /\ Tail(s) \in Seq(S) /\ Head(s) = s[1] /\ 1 \in DOMAIN s
  OBVIOUS
<1>2. Tail(s) = SubSeq(s, 2, Len(s))  BY TailIsSubSeq
<1>3. Range(s) = Range(SubSeq(s, 1, 1)) \cup Range(SubSeq(s, 1 + 1, Len(s)))
  <2>1. 1 \in 0..Len(s)  OBVIOUS
  <2> QED  BY <2>1, CutInTwo
<1>4. Range(SubSeq(s, 1, 1)) = {Head(s)}
  <2>1. DOMAIN SubSeq(s, 1, 1) = {1} /\ SubSeq(s, 1, 1)[1] = s[1]  OBVIOUS
  <2> QED  BY <2>1, <1>1 DEF Range
<1>5. 1 + 1 = 2  OBVIOUS
<1> QED  BY <1>1, <1>2, <1>3, <1>4, <1>5

\* One sequence after the other.
LEMMA Joined ==
  ASSUME NEW S, NEW s \in Seq(S), NEW t \in Seq(S)
  PROVE  /\ s \o t \in Seq(S) /\ Len(s \o t) = Len(s) + Len(t)
         /\ Range(s \o t) = Range(s) \cup Range(t)
<1>1. s \o t \in Seq(S) /\ Len(s \o t) = Len(s) + Len(t)  OBVIOUS
<1>2. Range(s \o t) = Range(s) \cup Range(t)  BY RangeConcatenation
<1> QED  BY <1>1, <1>2

\* Leaving one element out of a sequence.
LEMMA LeaveOut ==
  ASSUME NEW S, NEW s \in Seq(S), NEW i \in DOMAIN s
  PROVE  RemoveAt(s, i) \in Seq(S) /\ Range(RemoveAt(s, i)) \subseteq Range(s)
<1>1. i - 1 \in 0..Len(s) /\ i \in 0..Len(s) /\ i - 1 + 1 = i  OBVIOUS
<1>2. /\ SubSeq(s, 1, i - 1) \in Seq(S) /\ Range(SubSeq(s, 1, i - 1)) \subseteq Range(s)
      /\ SubSeq(s, i + 1, Len(s)) \in Seq(S) /\ Range(SubSeq(s, i + 1, Len(s))) \subseteq Range(s)
  BY <1>1, CutInTwo
<1> DEFINE before == SubSeq(s, 1, i - 1)
           after == SubSeq(s, i + 1, Len(s))
<1>3. RemoveAt(s, i) = before \o after  BY DEF RemoveAt
<1> HIDE DEF before, after
<1>4. before \o after \in Seq(S) /\ Range(before \o after) = Range(before) \cup Range(after)
  BY <1>2, Joined, ZenonT(60) DEF before, after
<1> QED  BY <1>2, <1>3, <1>4 DEF before, after

-----------------------------------------------------------------------------
(***************************************************************************)
(* What the worker writes.                                                 *)
(***************************************************************************)
TextGrows == \A id \in Ids : text[id] # None => text'[id] = text[id]
TextTyped == text \in [Ids -> Contents \cup {None}]

\* What a mention is resolved with is a content.
LEMMA KnownIsContent ==
  ASSUME TypeOK, NEW read \in SUBSET DOMAIN bite, NEW id \in IdsAt(read)
  PROVE  id \in Ids /\ Known(id, read) \in Contents
<1>1. \A p \in DOMAIN bite : bite[p] \in Requests  BY DEF TypeOK
<1>2. id \in Ids  BY <1>1 DEF IdsAt, Requests
<1> DEFINE its == {p \in read : bite[p].id = id}
<1>3. its \in SUBSET Nat /\ its # {}  BY DEF TypeOK, IdsAt
<1>4. \E p \in its : \A q \in its : p <= q  BY <1>3, LeastElement
<1>5. \E p \in read : bite[p].id = id /\ \A q \in read : bite[q].id = id => p <= q
  BY <1>4
<1>6. First(id, read) \in read  BY <1>5 DEF First
<1>7. bite[First(id, read)].content \in Contents  BY <1>1, <1>6 DEF Requests
<1> QED  BY <1>2, <1>7 DEF Known, TypeOK

\* Registering mentions that are not stored leaves the stored ones alone.
LEMMA RegisterKeeps ==
  ASSUME TypeOK, NEW read \in SUBSET DOMAIN bite, NEW ids \in SUBSET New(read),
         Register(ids, read)
  PROVE  TextTyped' /\ TextGrows /\ \A id \in ids : text'[id] = Known(id, read)
<1>1. \A id \in ids : id \in IdsAt(read) /\ text[id] = None  BY DEF New
<1>2. \A id \in ids : id \in Ids /\ Known(id, read) \in Contents
  BY <1>1, KnownIsContent
<1>3. text' = [id \in Ids |-> IF id \in ids THEN Known(id, read) ELSE text[id]]
  BY DEF Register
<1>4. TextTyped'  BY <1>2, <1>3 DEF TextTyped, TypeOK
<1>5. TextGrows  BY <1>1, <1>3 DEF TextGrows
<1>6. \A id \in ids : text'[id] = Known(id, read)  BY <1>2, <1>3
<1> QED  BY <1>4, <1>5, <1>6

Replied == replies' \in Seq(Responses) /\ Len(replies') = Len(bite)
             /\ \A p \in DOMAIN bite : replies'[p].request = bite[p]
IsTrue(response) == response.kind = "resolved" => text[response.request.id] = response.request.content

\* The replies of a unit stand for the requests of the bite and are true.
LEMMA RepliesAreTrue ==
  ASSUME TypeOK, NEW read \in SUBSET DOMAIN bite, NEW failed \in SUBSET New(read),
         Resolved(read, failed)
  PROVE  /\ TextTyped' /\ TextGrows /\ Replied
         /\ \A response \in Range(replies') : IsTrue(response)'
<1>1. replies' = [p \in DOMAIN bite |-> ReplyTo(p, read, failed)]  BY DEF Resolved
<1>2. \A p \in DOMAIN bite : /\ ReplyTo(p, read, failed) \in Responses
                             /\ ReplyTo(p, read, failed).request = bite[p]
  BY DEF TypeOK, ReplyTo, Answer, Responses
<1>3. Replied
  <2>1. bite \in Seq(Requests) /\ DOMAIN bite = 1..Len(bite) /\ Len(bite) \in Nat
    BY DEF TypeOK
  <2>2. replies' \in [1..Len(bite) -> Responses]  BY <1>1, <1>2, <2>1
  <2>3. replies' \in Seq(Responses) /\ Len(replies') = Len(bite)  BY <2>1, <2>2
  <2> QED  BY <1>1, <1>2, <2>3 DEF Replied
<1>4. /\ TextTyped' /\ TextGrows
      /\ \A id \in New(read) \ failed : text'[id] = Known(id, read)
  BY RegisterKeeps DEF Resolved
<1>5. ASSUME NEW p \in DOMAIN bite, ReplyTo(p, read, failed).kind = "resolved"
      PROVE  text'[bite[p].id] = bite[p].content
  <2>1. p \in read /\ Known(bite[p].id, read) = bite[p].content /\ bite[p].id \notin failed
    BY <1>5 DEF ReplyTo, Answer
  <2>2. bite[p].id \in IdsAt(read)  BY <2>1 DEF IdsAt
  <2>3. CASE text[bite[p].id] = None
    <3>1. bite[p].id \in New(read) \ failed  BY <2>1, <2>2, <2>3 DEF New
    <3> QED  BY <3>1, <2>1, <1>4
  <2>4. CASE text[bite[p].id] # None
    <3>1. bite[p].id \in Ids  BY <2>2, KnownIsContent
    <3> QED  BY <3>1, <2>1, <2>4, <1>4 DEF TextGrows, Known
  <2> QED  BY <2>3, <2>4
<1>6. \A response \in Range(replies') : IsTrue(response)'
  BY <1>1, <1>2, <1>5 DEF Range, IsTrue
<1> QED  BY <1>3, <1>4, <1>6

\* The file of a run is a finite sequence of requests with distinct ids.
LEMMA FileTypes ==
  ASSUME TypeOK
  PROVE  /\ data \in Seq(Requests) /\ \A i \in 1..Len(data) : data[i] \in Requests
         /\ IdsOf(data) \subseteq Ids /\ received \subseteq Ids
         /\ IsFiniteSet(IdsOf(data)) /\ Cardinality(IdsOf(data)) = Len(data)
<1>1. data \in Seq(Requests)
  <2>1. CASE data \in DataSets  BY <2>1, EngineAssumption
  <2>2. CASE data = <<>>  BY <2>2, EmptySeq
  <2> QED  BY <2>1, <2>2 DEF TypeOK
<1>2. \A i \in 1..Len(data) : data[i] \in Requests  BY <1>1
<1>3. DOMAIN data = 1..Len(data) /\ Len(data) \in Nat  BY <1>1
<1>4. IdsOf(data) = {data[i].id : i \in 1..Len(data)}  BY <1>3 DEF IdsOf, Range
<1>5. IdsOf(data) \subseteq Ids  BY <1>2, <1>4 DEF Requests
<1>6. IsFiniteSet(IdsOf(data))
  <2> DEFINE id == [i \in 1..Len(data) |-> data[i].id]
  <2>1. id \in Surjection(1..Len(data), IdsOf(data))  BY <1>4 DEF Surjection
  <2>2. IsFiniteSet(1..Len(data))  BY <1>3, FS_Interval
  <2> QED  BY <2>1, <2>2, FS_Surjection
<1>7. Cardinality(IdsOf(data)) = Len(data)
  <2>1. CASE data \in DataSets  BY <2>1, EngineAssumption
  <2>2. CASE data = <<>>
    <3>1. IdsOf(data) = {}  BY <2>2, <1>3, <1>4
    <3> QED  BY <2>2, <3>1, FS_EmptySet
  <2> QED  BY <2>1, <2>2 DEF TypeOK
<1> QED  BY <1>1, <1>2, <1>5, <1>6, <1>7 DEF TypeOK

\* What is true stays true, since nothing that is stored changes.
LEMMA TruthStays ==
  ASSUME TypeOK, TextGrows, NEW response \in Responses, IsTrue(response)
  PROVE  IsTrue(response)'
<1>1. /\ response.request.id \in Ids
      /\ response.request.content \in Contents /\ response.request.content # None
  BY EngineAssumption DEF Responses, Requests
<1> QED  BY <1>1 DEF IsTrue, TextGrows

Truthful == /\ \A response \in Range(responses) : IsTrue(response)
            /\ \A response \in Range(replies) : IsTrue(response)

LEMMA Resolutions == ResolutionsAreStored <=> Truthful
BY DEF ResolutionsAreStored, Truthful, IsTrue

\* What is or was true of the tables, after a step that only adds to them.
LEMMA StoredStays ==
  ASSUME IInv, TextGrows,
         \A response \in Range(responses') \cup Range(replies') :
           response \in Range(responses) \cup Range(replies) \/ IsTrue(response)',
         \A id \in received' : id \in received \/ (id \in Ids /\ text[id] # None)
  PROVE  ResolutionsAreStored' /\ ReceivedIsStored'
<1>1. \A response \in Range(responses) \cup Range(replies) :
        response \in Responses /\ IsTrue(response)
  <2>1. Range(responses) \subseteq Responses /\ Range(replies) \subseteq Responses
    BY DEF IInv, TypeOK, Range
  <2> QED  BY <2>1, Resolutions DEF IInv, Truthful
<1>2. \A response \in Range(responses) \cup Range(replies) : IsTrue(response)'
  BY <1>1, TruthStays DEF IInv
<1>3. ResolutionsAreStored'
  BY <1>2 DEF ResolutionsAreStored, IsTrue
<1>4. received \subseteq Ids  BY FileTypes DEF IInv
<1>5. ReceivedIsStored'
  BY <1>4 DEF IInv, ReceivedIsStored, TextGrows
<1> QED  BY <1>3, <1>5

-----------------------------------------------------------------------------
(***************************************************************************)
(* The invariant holds at first, and every step keeps it.                  *)
(***************************************************************************)
LEMMA InitIInv == ASSUME Init PROVE IInv
<1>1. TypeOK
  <2>1. Len(<<>>) = 0 /\ 0 \in 0..Len(<<>>) /\ 0 \in 0..MaxRuns /\ 0 \in 0..MaxFaults /\ 0 <= MaxBite
    BY EngineAssumption
  <2>2. \A S : <<>> \in Seq(S)  BY EmptySeq
  <2> QED  BY <2>1, <2>2 DEF Init, TypeOK
<1>2. Range(responses) = {} /\ Range(replies) = {}  BY DEF Init, Range
<1> QED  BY <1>1, <1>2 DEF Init, IInv, SendingEnds, ResolutionsAreStored, ReceivedIsStored,
     CompleteHasAll, BitesInHand, SentIsSomewhere, Running

\* A step of the client leaves the worker and what it stored alone.
LEMMA ClientKeepsWorker ==
  ASSUME IInv, UNCHANGED worker
  PROVE  TextGrows /\ BitesInHand'
BY DEF IInv, worker, TextGrows, BitesInHand

LEMMA StartRunIInv == ASSUME IInv, StartRun PROVE IInv'
<1>1. data' # <<>> /\ data' \in Seq(Requests)  BY EngineAssumption DEF StartRun
<1>2. Len(data') \in Nat /\ Len(data') > 0  BY <1>1
<1>3. TypeOK'
  <2>1. runs' \in 0..MaxRuns  BY EngineAssumption DEF StartRun, IInv, TypeOK
  <2>2. \A S : <<>> \in Seq(S)  BY EmptySeq
  <2>3. requests' \in Seq(Requests) /\ responses' \in Seq(Responses)  BY <2>2 DEF StartRun
  <2>4. sent' \in 0..Len(data') /\ received' \subseteq IdsOf(data')  BY <1>2 DEF StartRun
  <2> QED  BY <2>1, <2>3, <2>4 DEF StartRun, worker, IInv, TypeOK
<1>4. SendingEnds' /\ CompleteHasAll'  BY <1>2 DEF StartRun, SendingEnds, CompleteHasAll
<1>5. TextGrows /\ BitesInHand'  BY ClientKeepsWorker DEF StartRun
<1>6. ResolutionsAreStored' /\ ReceivedIsStored'
  <2>1. Range(responses') = {}  BY DEF StartRun, Range
  <2> QED  BY <1>5, <2>1, StoredStays DEF StartRun, worker
<1>7. SentIsSomewhere'  BY DEF StartRun, SentIsSomewhere
<1> QED  BY <1>3, <1>4, <1>5, <1>6, <1>7 DEF IInv

LEMMA SendNextIInv == ASSUME IInv, SendNext PROVE IInv'
<1>1. /\ sent \in Nat /\ sent < Len(data) /\ Len(data) \in Nat
      /\ data \in Seq(Requests) /\ \A i \in 1..Len(data) : data[i] \in Requests
  BY FileTypes DEF SendNext, IInv, TypeOK, SendingEnds
<1>2. sent' \in 1..Len(data) /\ data[sent'] \in Requests  BY <1>1 DEF SendNext
<1> DEFINE new == <<data[sent']>>
<1>3. new \in Seq(Requests) /\ Range(new) = {data[sent']}  BY <1>2 DEF Range
<1>4. /\ requests' \in Seq(Requests)
      /\ Range(requests') = {data[sent']} \cup Range(requests)
  <2>1. requests \in Seq(Requests) /\ requests' = new \o requests
    BY DEF SendNext, IInv, TypeOK
  <2> HIDE DEF new
  <2>2. /\ new \o requests \in Seq(Requests)
        /\ Range(new \o requests) = Range(new) \cup Range(requests)
    BY <1>3, <2>1, Joined
  <2> QED  BY <1>3, <2>1, <2>2
<1>5. TypeOK'
  <2>1. sent' \in 0..Len(data)  BY <1>2
  <2> QED  BY <1>4, <2>1 DEF SendNext, worker, IInv, TypeOK
<1>6. SendingEnds' /\ CompleteHasAll'
  BY <1>1, <1>2 DEF SendNext, SendingEnds, CompleteHasAll
<1>7. TextGrows /\ BitesInHand'  BY ClientKeepsWorker DEF SendNext
<1>8. ResolutionsAreStored' /\ ReceivedIsStored'
  BY <1>7, StoredStays DEF SendNext, worker
<1>9. SentIsSomewhere'
  <2>1. Pending' = {data[sent'].id} \cup Pending
    BY <1>4 DEF Pending, IdsOf, SendNext, worker
  <2>2. ASSUME NEW i \in 1..sent', faults = 0
        PROVE  data[i].id \in received \cup Pending'
    <3>1. i = sent' \/ i \in 1..sent  BY <1>1 DEF SendNext
    <3>2. i \in 1..sent => data[i].id \in received \cup Pending
      BY <2>2 DEF IInv, SentIsSomewhere, SendNext, Running
    <3> QED  BY <2>1, <3>1, <3>2
  <2> QED  BY <2>2 DEF SendNext, SentIsSomewhere
<1> QED  BY <1>5, <1>6, <1>7, <1>8, <1>9 DEF IInv

LEMMA ReceiveIInv == ASSUME IInv, Receive PROVE IInv'
<1> DEFINE response == Head(responses)
           counts == response.kind = "resolved" /\ response.request.id \in IdsOf(data)
<1>1. /\ response \in Responses /\ responses' \in Seq(Responses)
      /\ Range(responses) = {response} \cup Range(responses')
  BY TakeHead DEF Receive, IInv, TypeOK
<1>2. /\ data \in Seq(Requests) /\ IdsOf(data) \subseteq Ids
      /\ IsFiniteSet(IdsOf(data)) /\ Cardinality(IdsOf(data)) = Len(data)
  BY FileTypes DEF IInv
<1>3. /\ counts => received' = received \cup {response.request.id}
      /\ ~counts => received' = received /\ client' = "failed"
      /\ client' \in {"listening", "complete", "failed"}
      /\ client' = "complete" => Cardinality(received') = Len(data)
  BY DEF Receive
<1>4. received' \subseteq IdsOf(data)  BY <1>3 DEF IInv, TypeOK
<1>5. TypeOK'  BY <1>1, <1>3, <1>4 DEF Receive, worker, IInv, TypeOK
<1>6. SendingEnds'  BY <1>3 DEF Receive, IInv, SendingEnds
<1>7. CompleteHasAll'
  <2>1. Cardinality(received') = Cardinality(IdsOf(data)) => IdsOf(data) = received'
    BY <1>2, <1>4, FS_Subset
  <2> QED  BY <1>2, <1>3, <2>1 DEF Receive, CompleteHasAll
<1>8. TextGrows /\ BitesInHand'  BY ClientKeepsWorker DEF Receive
<1>9. ResolutionsAreStored' /\ ReceivedIsStored'
  <2>1. counts => response.request.id \in Ids /\ text[response.request.id] # None
    <3>1. response \in Range(responses)  BY <1>1
    <3>2. /\ response.request.id \in Ids
          /\ response.request.content \in Contents /\ response.request.content # None
      BY <1>1, EngineAssumption DEF Responses, Requests
    <3> QED  BY <3>1, <3>2 DEF IInv, ResolutionsAreStored
  <2> QED  BY <1>1, <1>3, <1>8, <2>1, StoredStays DEF Receive, worker
<1>10. SentIsSomewhere'
  <2>1. counts => Pending \subseteq Pending' \cup received'
    BY <1>1, <1>3 DEF Pending, Receive, worker
  <2> QED  BY <1>3, <2>1 DEF IInv, SentIsSomewhere, Receive, Running
<1> QED  BY <1>5, <1>6, <1>7, <1>8, <1>9, <1>10 DEF IInv

LEMMA InterruptIInv == ASSUME IInv, Interrupt PROVE IInv'
<1>1. TypeOK'  BY DEF Interrupt, worker, IInv, TypeOK
<1>2. SendingEnds' /\ CompleteHasAll' /\ SentIsSomewhere'
  BY DEF Interrupt, SendingEnds, CompleteHasAll, SentIsSomewhere, Running
<1>3. TextGrows /\ BitesInHand'  BY ClientKeepsWorker DEF Interrupt
<1>4. ResolutionsAreStored' /\ ReceivedIsStored'
  BY <1>3, StoredStays DEF Interrupt, worker
<1> QED  BY <1>1, <1>2, <1>3, <1>4 DEF IInv

\* A step of the worker leaves the client's run alone.
LEMMA WorkerKeepsRun ==
  ASSUME IInv, UNCHANGED run
  PROVE  SendingEnds' /\ CompleteHasAll'
BY DEF IInv, run, SendingEnds, CompleteHasAll

LEMMA TakeFirstIInv == ASSUME IInv, TakeFirst PROVE IInv'
<1>1. /\ Head(requests) \in Requests /\ requests' \in Seq(Requests)
      /\ Range(requests) = {Head(requests)} \cup Range(requests')
  <2>1. requests \in Seq(Requests) /\ requests # <<>>  BY DEF TakeFirst, IInv, TypeOK
  <2>2. requests' = SubSeq(requests, 2, Len(requests))  BY DEF TakeFirst, Pop
  <2> QED  BY <2>1, <2>2, TakeHead
<1>2. bite' \in Seq(Requests) /\ Len(bite') = 1 /\ Range(bite') = {Head(requests)}
  BY <1>1 DEF TakeFirst, Range
<1>3. bite = <<>> /\ replies = <<>>  BY DEF TakeFirst, IInv, BitesInHand
<1>4. TypeOK'
  <2>1. Len(bite') <= MaxBite  BY <1>2, EngineAssumption
  <2> QED  BY <1>1, <1>2, <2>1 DEF TakeFirst, run, IInv, TypeOK
<1>5. BitesInHand'  BY <1>3 DEF TakeFirst, BitesInHand
<1>6. SendingEnds' /\ CompleteHasAll'  BY WorkerKeepsRun DEF TakeFirst
<1>7. ResolutionsAreStored' /\ ReceivedIsStored'
  BY StoredStays DEF TakeFirst, run, TextGrows
<1>8. SentIsSomewhere'
  <2>1. Range(bite) = {}  BY <1>3 DEF Range
  <2>2. Pending' = Pending  BY <1>1, <1>2, <2>1 DEF Pending, IdsOf, TakeFirst
  <2> QED  BY <2>2 DEF IInv, SentIsSomewhere, TakeFirst, run, Running
<1> QED  BY <1>4, <1>5, <1>6, <1>7, <1>8 DEF IInv

LEMMA TakeMoreIInv == ASSUME IInv, TakeMore PROVE IInv'
<1>1. PICK n \in 1..MaxBite - Len(bite) :
        n <= Len(requests) /\ bite' = bite \o SubSeq(requests, 1, n) /\ Pop(n)
  BY DEF TakeMore
<1>2. /\ requests \in Seq(Requests) /\ bite \in Seq(Requests) /\ n \in 0..Len(requests)
      /\ Len(bite) \in Nat /\ MaxBite \in Nat
  BY <1>1, EngineAssumption DEF IInv, TypeOK
<1> DEFINE more == SubSeq(requests, 1, n)
<1>3. /\ more \in Seq(Requests) /\ Len(more) = n /\ requests' \in Seq(Requests)
      /\ Range(requests) = Range(more) \cup Range(requests')
  BY <1>1, <1>2, CutInTwo DEF Pop
<1> HIDE DEF more
<1>4. /\ bite' \in Seq(Requests) /\ Len(bite') = Len(bite) + n
      /\ Range(bite') = Range(bite) \cup Range(more)
  <2>1. bite' = bite \o more  BY <1>1 DEF more
  <2>2. bite \in Seq(Requests) /\ more \in Seq(Requests)  BY <1>2, <1>3
  <2>3. /\ bite \o more \in Seq(Requests) /\ Len(bite \o more) = Len(bite) + Len(more)
        /\ Range(bite \o more) = Range(bite) \cup Range(more)
    BY <2>2, Joined
  <2> QED  BY <1>3, <2>1, <2>3
<1>5. TypeOK'
  <2>1. Len(bite') <= MaxBite  BY <1>1, <1>2, <1>4
  <2> QED  BY <1>3, <1>4, <2>1 DEF TakeMore, run, IInv, TypeOK
<1>6. BitesInHand'  BY DEF TakeMore, IInv, BitesInHand
<1>7. SendingEnds' /\ CompleteHasAll'  BY WorkerKeepsRun DEF TakeMore
<1>8. ResolutionsAreStored' /\ ReceivedIsStored'
  BY StoredStays DEF TakeMore, run, TextGrows
<1>9. SentIsSomewhere'
  <2>1. Pending' = Pending  BY <1>3, <1>4 DEF Pending, IdsOf, TakeMore
  <2> QED  BY <2>1 DEF IInv, SentIsSomewhere, TakeMore, run, Running
<1> QED  BY <1>5, <1>6, <1>7, <1>8, <1>9 DEF IInv

LEMMA StopTakingIInv == ASSUME IInv, StopTaking PROVE IInv'
<1>1. TypeOK'  BY DEF StopTaking, run, IInv, TypeOK
<1>2. BitesInHand'  BY DEF StopTaking, IInv, BitesInHand
<1>3. SendingEnds' /\ CompleteHasAll'  BY WorkerKeepsRun DEF StopTaking
<1>4. ResolutionsAreStored' /\ ReceivedIsStored'
  BY StoredStays DEF StopTaking, run, TextGrows
<1>5. SentIsSomewhere'  BY DEF IInv, SentIsSomewhere, StopTaking, run, Running, Pending
<1> QED  BY <1>1, <1>2, <1>3, <1>4, <1>5 DEF IInv

Counted == faults' \in 0..MaxFaults /\ (faults' = faults \/ faults' > 0)

LEMMA FaultCounts == ASSUME TypeOK, Fault PROVE Counted /\ faults' > 0
BY EngineAssumption DEF TypeOK, Fault, Counted

\* Any way in which a bite is resolved: it registers, and gives true replies.
LEMMA ReplyingIInv ==
  ASSUME IInv, TextTyped', TextGrows, Replied,
         \A response \in Range(replies') : IsTrue(response)',
         phase' = "responding", UNCHANGED <<bite, run, requests, responses>>, Counted
  PROVE  IInv'
<1>1. TypeOK'  BY DEF IInv, TypeOK, TextTyped, Replied, run, Counted
<1>2. BitesInHand'  BY DEF BitesInHand, Replied
<1>3. SendingEnds' /\ CompleteHasAll'  BY WorkerKeepsRun
<1>4. ResolutionsAreStored' /\ ReceivedIsStored'  BY StoredStays DEF run
<1>5. SentIsSomewhere'
  <2>1. faults' = 0 => faults = 0  BY DEF Counted, IInv, TypeOK
  <2> QED  BY <2>1 DEF IInv, SentIsSomewhere, run, Running, Pending
<1> QED  BY <1>1, <1>2, <1>3, <1>4, <1>5 DEF IInv

LEMMA ResolvedIInv ==
  ASSUME IInv, Counted, NEW read \in SUBSET DOMAIN bite, NEW failed \in SUBSET New(read),
         Resolved(read, failed)
  PROVE  IInv'
<1>1. /\ TextTyped' /\ TextGrows /\ Replied
      /\ \A response \in Range(replies') : IsTrue(response)'
  BY RepliesAreTrue DEF IInv
<1> QED  BY <1>1, ReplyingIInv DEF Resolved

LEMMA ResolveIInv == ASSUME IInv, Resolve PROVE IInv'
<1>1. Counted  BY DEF Resolve, Counted, IInv, TypeOK
<1> QED  BY <1>1, ResolvedIInv DEF Resolve

LEMMA ResolvePartlyIInv == ASSUME IInv, ResolvePartly PROVE IInv'
<1>1. Counted  BY FaultCounts DEF ResolvePartly, IInv
<1> QED  BY <1>1, ResolvedIInv DEF ResolvePartly

LEMMA RaiseIInv == ASSUME IInv, Raise PROVE IInv'
<1>1. Counted  BY FaultCounts DEF Raise, IInv
<1>2. PICK read \in SUBSET DOMAIN bite : \E stored \in SUBSET New(read) : Register(stored, read)
  BY DEF Raise
<1>3. TextTyped' /\ TextGrows  BY <1>2, RegisterKeeps DEF IInv
<1>4. replies' = [p \in DOMAIN bite |-> Answer(p, FALSE)]  BY DEF Raise
<1>5. \A p \in DOMAIN bite : /\ Answer(p, FALSE) \in Responses
                             /\ Answer(p, FALSE).request = bite[p]
                             /\ Answer(p, FALSE).kind = "error"
  BY DEF IInv, TypeOK, Answer, Responses
<1>6. Replied
  <2>1. bite \in Seq(Requests) /\ DOMAIN bite = 1..Len(bite) /\ Len(bite) \in Nat
    BY DEF IInv, TypeOK
  <2>2. replies' \in [1..Len(bite) -> Responses]  BY <1>4, <1>5, <2>1
  <2>3. replies' \in Seq(Responses) /\ Len(replies') = Len(bite)  BY <2>1, <2>2
  <2> QED  BY <1>4, <1>5, <2>3 DEF Replied
<1>7. \A response \in Range(replies') : IsTrue(response)'
  BY <1>4, <1>5 DEF Range, IsTrue
<1> QED  BY <1>1, <1>3, <1>6, <1>7, ReplyingIInv DEF Raise

\* Any way in which a bite ends: what is sent are some of the replies, all of
\* them without a fault.
LEMMA RoundEndsIInv ==
  ASSUME IInv, NextRound, TextTyped', TextGrows, Counted, UNCHANGED <<run, requests>>,
         responses' \in Seq(Responses),
         Range(responses') \subseteq Range(responses) \cup Range(replies),
         faults' = 0 => Pending \subseteq Pending'
  PROVE  IInv'
<1>1. TypeOK'
  <2>1. \A S : <<>> \in Seq(S) /\ Len(<<>>) = 0  BY EmptySeq
  <2>2. 0 <= MaxBite  BY EngineAssumption
  <2> QED  BY <2>1, <2>2 DEF IInv, TypeOK, NextRound, TextTyped, run, Counted
<1>2. BitesInHand'  BY DEF BitesInHand, NextRound
<1>3. SendingEnds' /\ CompleteHasAll'  BY WorkerKeepsRun
<1>4. ResolutionsAreStored' /\ ReceivedIsStored'
  <2>1. Range(replies') = {}  BY DEF NextRound, Range
  <2> QED  BY <2>1, StoredStays DEF run
<1>5. SentIsSomewhere'
  <2>1. faults' = 0 => faults = 0  BY DEF Counted, IInv, TypeOK
  <2> QED  BY <2>1 DEF IInv, SentIsSomewhere, run, Running
<1> QED  BY <1>1, <1>2, <1>3, <1>4, <1>5 DEF IInv

LEMMA RespondIInv == ASSUME IInv, Respond PROVE IInv'
<1>1. TextTyped' /\ TextGrows /\ Counted
  BY DEF Respond, IInv, TypeOK, TextTyped, TextGrows, Counted
<1>2. responses \in Seq(Responses) /\ replies \in Seq(Responses)  BY DEF IInv, TypeOK
<1>3. /\ responses' \in Seq(Responses)
      /\ Range(responses') = Range(responses) \cup Range(replies)
  BY <1>2, Joined DEF Respond
<1>4. Pending \subseteq Pending'
  <2>1. ASSUME NEW p \in DOMAIN bite  PROVE \E r \in Range(replies) : r.request = bite[p]
    <3>1. replies[p].request = bite[p]  BY DEF Respond, IInv, BitesInHand
    <3>2. p \in DOMAIN replies  BY <1>2 DEF Respond, IInv, TypeOK
    <3> QED  BY <3>1, <3>2 DEF Range
  <2>2. IdsOf(bite) \subseteq {r.request.id : r \in Range(replies)}
    BY <2>1 DEF IdsOf, Range
  <2> QED  BY <1>3, <2>2 DEF Pending, Respond
<1> QED  BY <1>1, <1>3, <1>4, RoundEndsIInv DEF Respond

LEMMA LoseRepliesIInv == ASSUME IInv, LoseReplies PROVE IInv'
<1>1. TextTyped' /\ TextGrows /\ Counted /\ faults' > 0
  BY FaultCounts DEF LoseReplies, IInv, TypeOK, TextTyped, TextGrows
<1>2. responses \in Seq(Responses) /\ replies \in Seq(Responses)  BY DEF IInv, TypeOK
<1>3. PICK left \in Seq(Responses) :
        Range(left) \subseteq Range(replies) /\ responses' = responses \o left
  <2>1. ASSUME NEW n \in 0..Len(replies) - 1, responses' = responses \o SubSeq(replies, 1, n)
        PROVE  /\ SubSeq(replies, 1, n) \in Seq(Responses)
               /\ Range(SubSeq(replies, 1, n)) \subseteq Range(replies)
    <3>1. n \in 0..Len(replies)  BY <1>2
    <3> QED  BY <1>2, <3>1, CutInTwo
  <2>2. ASSUME NEW i \in DOMAIN replies, responses' = responses \o RemoveAt(replies, i)
        PROVE  /\ RemoveAt(replies, i) \in Seq(Responses)
               /\ Range(RemoveAt(replies, i)) \subseteq Range(replies)
    BY <1>2, LeaveOut
  <2> QED  BY <2>1, <2>2 DEF LoseReplies
<1>4. responses' \in Seq(Responses) /\ Range(responses') = Range(responses) \cup Range(left)
  BY <1>2, <1>3, Joined
<1> QED  BY <1>1, <1>3, <1>4, RoundEndsIInv DEF LoseReplies

LEMMA CrashIInv == ASSUME IInv, CrashAndRestart PROVE IInv'
<1>1. Counted /\ faults' > 0  BY FaultCounts DEF CrashAndRestart, IInv
<1>2. TextTyped' /\ TextGrows
  <2>1. CASE phase = "resolving"
    BY <2>1, RegisterKeeps DEF CrashAndRestart, IInv
  <2>2. CASE phase # "resolving"
    BY <2>2 DEF CrashAndRestart, IInv, TypeOK, TextTyped, TextGrows
  <2> QED  BY <2>1, <2>2
<1>3. responses' \in Seq(Responses) /\ Range(responses') = Range(responses)
  BY DEF CrashAndRestart, IInv, TypeOK
<1> QED  BY <1>1, <1>2, <1>3, RoundEndsIInv DEF CrashAndRestart

LEMMA NextIInv == ASSUME IInv, [Next]_vars PROVE IInv'
<1>1. CASE StartRun  BY <1>1, StartRunIInv
<1>2. CASE SendNext  BY <1>2, SendNextIInv
<1>3. CASE Receive  BY <1>3, ReceiveIInv
<1>4. CASE Interrupt  BY <1>4, InterruptIInv
<1>5. CASE TakeFirst  BY <1>5, TakeFirstIInv
<1>6. CASE TakeMore  BY <1>6, TakeMoreIInv
<1>7. CASE StopTaking  BY <1>7, StopTakingIInv
<1>8. CASE Resolve  BY <1>8, ResolveIInv
<1>9. CASE ResolvePartly  BY <1>9, ResolvePartlyIInv
<1>10. CASE Raise  BY <1>10, RaiseIInv
<1>11. CASE Respond  BY <1>11, RespondIInv
<1>12. CASE LoseReplies  BY <1>12, LoseRepliesIInv
<1>13. CASE CrashAndRestart  BY <1>13, CrashIInv
<1>14. CASE UNCHANGED vars
  BY <1>14 DEF vars, worker, run, IInv, TypeOK, SendingEnds, ResolutionsAreStored,
       ReceivedIsStored, CompleteHasAll, BitesInHand, SentIsSomewhere, Running, Pending
<1> QED
  BY <1>1, <1>2, <1>3, <1>4, <1>5, <1>6, <1>7, <1>8, <1>9, <1>10, <1>11, <1>12, <1>13, <1>14
     DEF Next, ClientLoop, Work

LEMMA IInvAlways == Spec => []IInv
<1>1. Init => IInv  BY InitIInv
<1>2. IInv /\ [Next]_vars => IInv'  BY NextIInv
<1> QED  BY <1>1, <1>2, PTL DEF Spec

-----------------------------------------------------------------------------
(***************************************************************************)
(* What follows from it.                                                   *)
(***************************************************************************)
\* The state of the lists, of the worker and of the client is well formed: a
\* bite has at most MaxBite requests and as many replies as requests, and the
\* client counts no ids but those of its file.
THEOREM EngineTypes == Spec => []TypeOK
<1>1. IInv => TypeOK  BY DEF IInv
<1> QED  BY <1>1, IInvAlways, PTL

\* A resolution that is on its way is of a mention that is stored with the
\* content it was asked for with, whatever fails, dies or is started again.
THEOREM ResolutionsAreTrue == Spec => []ResolutionsAreStored
<1>1. IInv => ResolutionsAreStored  BY DEF IInv
<1> QED  BY <1>1, IInvAlways, PTL

\* A client that has counted all its responses has all its mentions stored.
THEOREM CompleteIsStored == Spec => []CompleteMeansStored
<1>1. IInv => CompleteMeansStored
  BY DEF IInv, CompleteHasAll, ReceivedIsStored, CompleteMeansStored
<1> QED  BY <1>1, IInvAlways, PTL

\* Without a fault, what a client waits for is received or on its way: in one
\* of the lists or in the worker's bite.
THEOREM NothingIsLost == Spec => []NothingVanishes
<1>1. IInv => NothingVanishes
  <2> SUFFICES ASSUME IInv, client = "listening", faults = 0
               PROVE  IdsOf(data) \subseteq received \cup Pending
    BY DEF NothingVanishes
  <2>1. data \in Seq(Requests) /\ DOMAIN data = 1..Len(data)
    BY FileTypes DEF IInv
  <2>2. \A i \in 1..Len(data) : data[i].id \in received \cup Pending
    BY DEF IInv, SendingEnds, SentIsSomewhere, Running
  <2> QED  BY <2>1, <2>2 DEF IdsOf, Range
<1> QED  BY <1>1, IInvAlways, PTL
=============================================================================
