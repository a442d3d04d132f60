--------------------------- MODULE ConnPoolProofs ---------------------------
(***************************************************************************)
(* Theorems about ConnPool, for every pool, every number of requests and   *)
(* of jobs in an event.                                                    *)
(***************************************************************************)
EXTENDS ConnPool, FiniteSetTheorems, SequenceTheorems, TLAPS

\* Nobody stands in line twice.
OneLine == \A i, j \in 1..Len(waiting) : waiting[i] = waiting[j] => i = j

\* Who waits has no second connection, and a first one only for its listing.
LineFits == \A r \in Requests : r \in InLine =>
    /\ todo[r] # <<>>
    /\ inner[r] = None
    /\ outer[r] # None => r \in Listing /\ rows[r] > 0

\* A second connection is for a row of an open listing.
SecondFits == \A r \in Requests : inner[r] # None => r \in Listing /\ rows[r] > 0

Inv == TypeOK /\ ConnsAccounted /\ OneLine /\ LineFits /\ SecondFits

-----------------------------------------------------------------------------
(* The line.                                                               *)

LEMMA JoinLine ==
    ASSUME TypeOK, OneLine, NEW r \in Requests, r \notin InLine,
           waiting' = Append(waiting, r)
    PROVE  waiting' \in Seq(Requests) /\ OneLine' /\ InLine' = InLine \cup {r}
<1>1. /\ waiting \in Seq(Requests)
      /\ waiting' \in Seq(Requests)
      /\ Len(waiting') = Len(waiting) + 1
      /\ \A i \in 1..Len(waiting) : waiting'[i] = waiting[i]
      /\ waiting'[Len(waiting) + 1] = r
      /\ Len(waiting) \in Nat
  BY AppendProperties, LenProperties DEF TypeOK
<1>2. \A i \in 1..Len(waiting) : waiting[i] # r
  BY DEF InLine
<1>3. 1..Len(waiting') = (1..Len(waiting)) \cup {Len(waiting) + 1}
  BY <1>1
<1>4. OneLine'
  <2> SUFFICES ASSUME NEW i \in 1..Len(waiting'), NEW j \in 1..Len(waiting'),
                      waiting'[i] = waiting'[j]
               PROVE  i = j
    BY DEF OneLine
  <2>1. CASE i \in 1..Len(waiting) /\ j \in 1..Len(waiting)
    BY <1>1, <2>1 DEF OneLine
  <2>2. CASE i = Len(waiting) + 1 \/ j = Len(waiting) + 1
    BY <1>1, <1>2, <1>3, <2>2
  <2> QED BY <1>3, <2>1, <2>2
<1>5. InLine' = InLine \cup {r}
  BY <1>1, <1>3 DEF InLine
<1> QED BY <1>1, <1>4, <1>5

LEMMA LeaveLine ==
    ASSUME TypeOK, OneLine, waiting # <<>>, waiting' = Tail(waiting)
    PROVE  /\ waiting' \in Seq(Requests) /\ OneLine'
           /\ Head(waiting) \in Requests
           /\ Head(waiting) \in InLine
           /\ InLine' = InLine \ {Head(waiting)}
<1>1. /\ waiting \in Seq(Requests)
      /\ waiting' \in Seq(Requests)
      /\ Len(waiting) \in Nat \ {0}
      /\ Len(waiting') = Len(waiting) - 1
      /\ \A i \in 1..Len(waiting') : waiting'[i] = waiting[i + 1]
      /\ Head(waiting) = waiting[1]
      /\ Head(waiting) \in Requests
  BY HeadTailProperties, LenProperties, EmptySeq DEF TypeOK
<1>2. OneLine'
  BY <1>1 DEF OneLine
<1>3. Head(waiting) \in InLine
  BY <1>1 DEF InLine
<1>4. ASSUME NEW x \in InLine' PROVE x \in InLine \ {Head(waiting)}
  <2>1. PICK i \in 1..Len(waiting') : x = waiting'[i]
    BY DEF InLine
  <2>2. i + 1 \in 1..Len(waiting) /\ 1 \in 1..Len(waiting) /\ i + 1 # 1 /\ x = waiting[i + 1]
    BY <1>1, <2>1
  <2> QED BY <1>1, <2>2 DEF InLine, OneLine
<1>5. ASSUME NEW x \in InLine, x # Head(waiting) PROVE x \in InLine'
  <2>1. PICK i \in 1..Len(waiting) : x = waiting[i]
    BY DEF InLine
  <2>2. i # 1 /\ i - 1 \in 1..Len(waiting') /\ waiting'[i - 1] = x
    BY <1>1, <1>5, <2>1
  <2> QED BY <2>2 DEF InLine
<1> QED BY <1>1, <1>2, <1>3, <1>4, <1>5

-----------------------------------------------------------------------------
LEMMA InitInv == Init => Inv
<1> SUFFICES ASSUME Init PROVE Inv
  OBVIOUS
<1>1. InLine = {} /\ Len(waiting) = 0 /\ waiting \in Seq(Requests)
  BY EmptySeq DEF Init, InLine
<1>2. <<>> \in Seq(Statement) /\ 0 \in 0..MaxJobs
  BY EmptySeq, PoolAssumption
<1> QED BY <1>1, <1>2 DEF Init, Inv, TypeOK, ConnsAccounted, OneLine, LineFits, SecondFits

LEMMA HandlersAreStatements == Handlers \subseteq Seq(Statement)
BY DEF Handlers, Login, Simple, Admin, Bulk, Get, Create, Rerun, Clone, Statement

LEMMA ArriveKeepsInv ==
    ASSUME Inv, NEW r \in Requests, NEW h \in Handlers, Arrive(r, h) PROVE Inv'
<1> USE DEF Inv, Arrive
<1>1. TypeOK'
  BY HandlersAreStatements DEF TypeOK
<1>2. InLine' = InLine /\ OneLine'
  BY DEF InLine, OneLine
<1>3. outer[r] = None /\ inner[r] = None /\ r \notin InLine
  BY DEF ConnsAccounted, LineFits
<1>4. ConnsAccounted'
  BY <1>3 DEF ConnsAccounted, TypeOK
<1>5. \A s \in Requests : s # r => todo'[s] = todo[s] /\ (s \in Listing' <=> s \in Listing)
  BY DEF Listing, TypeOK
<1>6. LineFits' /\ SecondFits'
  BY <1>2, <1>3, <1>5 DEF LineFits, SecondFits
<1> QED BY <1>1, <1>2, <1>4, <1>6

LEMMA JoinKeepsInv ==
    ASSUME Inv, NEW r \in Requests, Acquire(r) \/ AcquireSecond(r) PROVE Inv'
<1> USE DEF Inv, Acquire, AcquireSecond
<1>1. /\ r \notin InLine
      /\ waiting' = Append(waiting, r)
      /\ UNCHANGED <<todo, rows, outer, inner>>
  OBVIOUS
<1>2. waiting' \in Seq(Requests) /\ OneLine' /\ InLine' = InLine \cup {r}
  BY <1>1, JoinLine
<1>3. TypeOK' /\ ConnsAccounted' /\ SecondFits'
  BY <1>1, <1>2 DEF TypeOK, ConnsAccounted, SecondFits, Listing
<1>4. /\ todo[r] # <<>> /\ inner[r] = None
      /\ outer[r] # None => r \in Listing /\ rows[r] > 0
  BY DEF SecondFits, Listing
<1>5. LineFits'
  BY <1>1, <1>2, <1>4 DEF LineFits, Listing
<1> QED BY <1>2, <1>3, <1>5

LEMMA GrantKeepsInv ==
    ASSUME Inv, NEW k \in Conns, Grant(k) PROVE Inv'
<1> DEFINE r == Head(waiting)
<1> USE DEF Inv
<1>1. /\ waiting' \in Seq(Requests) /\ OneLine'
      /\ r \in Requests /\ r \in InLine
      /\ InLine' = InLine \ {r}
  BY LeaveLine DEF Grant
<1>2. /\ k \notin InUse /\ k # None
      /\ \A s \in Requests : outer[s] # k /\ inner[s] # k
      /\ todo[r] # <<>> /\ inner[r] = None /\ UNCHANGED todo
  BY <1>1, PoolAssumption DEF Grant, InUse, LineFits
<1>3. CASE outer[r] # None
  <2>1. inner' = [inner EXCEPT ![r] = k] /\ UNCHANGED <<todo, outer, rows>>
    BY <1>3 DEF Grant
  <2>2. r \in Listing /\ rows[r] > 0
    BY <1>1, <1>3 DEF LineFits
  <2>3. TypeOK' /\ ConnsAccounted'
    BY <1>1, <1>2, <2>1, <2>2 DEF TypeOK, ConnsAccounted, Listing
  <2>4. Listing' = Listing
    BY <2>1 DEF Listing
  <2>5. LineFits' /\ SecondFits'
    BY <1>1, <2>1, <2>2, <2>4 DEF LineFits, SecondFits, TypeOK
  <2> QED BY <1>1, <2>3, <2>5
<1>4. CASE outer[r] = None
  <2>1. outer' = [outer EXCEPT ![r] = k] /\ UNCHANGED <<todo, inner>>
    BY <1>4 DEF Grant
  <2>2. \A s \in Requests : s # r => rows'[s] = rows[s] /\ outer'[s] = outer[s]
    BY <1>4, <2>1 DEF Grant, TypeOK
  <2>3. rows' \in [Requests -> 0..MaxJobs]
    <3>1. rows \in [Requests -> 0..MaxJobs] /\ 1..MaxJobs \subseteq 0..MaxJobs
      BY PoolAssumption DEF TypeOK
    <3>2. UNCHANGED rows \/ \E n \in 1..MaxJobs : rows' = [rows EXCEPT ![r] = n]
      BY <1>4 DEF Grant
    <3> QED BY <1>1, <3>1, <3>2
  <2>4. TypeOK' /\ ConnsAccounted'
    BY <1>1, <1>2, <2>1, <2>3 DEF TypeOK, ConnsAccounted
  <2>5. \A s \in Requests : s # r => (s \in Listing' <=> s \in Listing)
    BY <2>1, <2>2 DEF Listing
  <2>6. LineFits' /\ SecondFits'
    BY <1>1, <1>2, <2>1, <2>2, <2>5 DEF LineFits, SecondFits, TypeOK
  <2> QED BY <1>1, <2>4, <2>6
<1> QED BY <1>3, <1>4

LEMMA GiveBackKeepsInv ==
    ASSUME Inv, NEW r \in Requests, ReleaseSecond(r) \/ Release(r) \/ Fail(r) PROVE Inv'
<1> USE DEF Inv
<1>1. UNCHANGED waiting /\ OneLine' /\ InLine' = InLine /\ waiting' \in Seq(Requests)
  <2>1. UNCHANGED waiting
    BY DEF ReleaseSecond, Release, Fail
  <2> QED BY <2>1 DEF OneLine, InLine, TypeOK
<1>2. r \notin InLine
  <2>1. CASE ReleaseSecond(r)
    BY <2>1 DEF ReleaseSecond, LineFits
  <2>2. CASE Release(r) \/ Fail(r)
    BY <2>2 DEF Release, Fail
  <2> QED BY <2>1, <2>2
<1>3. outer[r] # None /\ todo[r] # <<>>
  BY DEF ReleaseSecond, Release, Fail, SecondFits, Listing, ConnsAccounted
<1>4. /\ \A s \in Requests : s # r => /\ todo'[s] = todo[s] /\ rows'[s] = rows[s]
                                     /\ outer'[s] = outer[s] /\ inner'[s] = inner[s]
      /\ inner'[r] = None
      /\ outer'[r] \in {outer[r], None}
      /\ todo'[r] = <<>> => outer'[r] = None
  BY <1>3 DEF ReleaseSecond, Release, Fail, TypeOK
<1>5. TypeOK'
  <2>1. Tail(todo[r]) \in Seq(Statement) /\ <<>> \in Seq(Statement)
    BY <1>3, HeadTailProperties, EmptySeq DEF TypeOK
  <2>2. 0 \in 0..MaxJobs /\ (ReleaseSecond(r) => rows[r] - 1 \in 0..MaxJobs)
    BY PoolAssumption DEF ReleaseSecond, SecondFits, TypeOK
  <2>3. CASE ReleaseSecond(r)
    BY <2>2, <2>3 DEF TypeOK, ReleaseSecond
  <2>4. CASE Release(r)
    BY <2>1, <2>4 DEF TypeOK, Release
  <2>5. CASE Fail(r)
    BY <2>1, <2>2, <2>5 DEF TypeOK, Fail
  <2> QED BY <1>1, <2>3, <2>4, <2>5
<1>6. ConnsAccounted'
  BY <1>4 DEF ConnsAccounted
<1>7. \A s \in Requests : s # r => (s \in Listing' <=> s \in Listing)
  BY <1>4 DEF Listing
<1>8. LineFits' /\ SecondFits'
  BY <1>1, <1>2, <1>4, <1>7 DEF LineFits, SecondFits
<1> QED BY <1>1, <1>5, <1>6, <1>8

LEMMA StepKeepsInv == Inv /\ [Next]_vars => Inv'
<1>1. Inv /\ UNCHANGED vars => Inv'
  BY DEF vars, Inv, TypeOK, ConnsAccounted, OneLine, LineFits, SecondFits, InLine, Listing
<1>2. ASSUME Inv, Next PROVE Inv'
  <2>1. CASE \E r \in Requests : HandlerStep(r) \/ Fail(r)
    BY <1>2, <2>1, JoinKeepsInv, GiveBackKeepsInv DEF HandlerStep
  <2>2. CASE \E r \in Requests : \E h \in Handlers : Arrive(r, h)
    BY <1>2, <2>2, ArriveKeepsInv
  <2>3. CASE \E k \in Conns : Grant(k)
    BY <1>2, <2>3, GrantKeepsInv
  <2> QED BY <1>2, <2>1, <2>2, <2>3 DEF Next
<1> QED BY <1>1, <1>2

LEMMA InvHolds == Spec => []Inv
BY InitInv, StepKeepsInv, PTL DEF Spec

\* Every variable keeps its type: what a handler asks for, holds and waits for.
THEOREM PoolTypeCorrect == Spec => []TypeOK
<1>1. Inv => TypeOK
  BY DEF Inv
<1> QED BY <1>1, InvHolds, PTL

\* No connection is lent twice or kept by a request that is over.
THEOREM ConnsAccountedAlways == Spec => []ConnsAccounted
<1>1. Inv => ConnsAccounted
  BY DEF Inv
<1> QED BY <1>1, InvHolds, PTL

-----------------------------------------------------------------------------
\* When all connections are out and all their holders wait, every connection is
\* the first one of a listing, so there are as many listings as connections.
LEMMA InvNoGridlock == Inv => NoGridlock
<1> SUFFICES ASSUME Inv, waiting # <<>>,
                    \A k \in Conns : k \in InUse,
                    \A r \in Requests : outer[r] # None => r \in InLine
             PROVE  Crowded
  BY DEF NoGridlock
<1> DEFINE f == [r \in Listing |-> outer[r]]
<1>1. Listing \subseteq Requests /\ IsFiniteSet(Listing)
  BY PoolAssumption, FS_Subset DEF Listing
<1>2. \A r \in Listing : outer[r] \in Conns
  BY <1>1 DEF Listing, Inv, TypeOK
<1>3. ASSUME NEW k \in Conns PROVE \E r \in Listing : outer[r] = k
  <2>1. PICK r \in Requests : outer[r] = k \/ inner[r] = k
    BY DEF InUse
  <2>2. k # None
    BY PoolAssumption
  <2>3. CASE outer[r] = k
    BY <2>2, <2>3 DEF Inv, LineFits
  <2>4. CASE inner[r] = k
    BY <2>2, <2>4 DEF Inv, LineFits, SecondFits, Listing
  <2> QED BY <2>1, <2>3, <2>4
<1>4. f \in Surjection(Listing, Conns)
  BY <1>2, <1>3 DEF Surjection
<1>5. Cardinality(Conns) <= Cardinality(Listing)
  BY <1>1, <1>4, FS_Surjection
<1>6. Cardinality(Conns) \in Nat /\ Cardinality(Listing) \in Nat
  BY <1>1, PoolAssumption, FS_CardinalityType
<1> QED BY <1>5, <1>6 DEF Crowded

\* While there are more connections than open listings, the requests in line
\* do not all wait for each other.
THEOREM NoGridlockAlways == Spec => []NoGridlock
BY InvNoGridlock, InvHolds, PTL
=============================================================================
