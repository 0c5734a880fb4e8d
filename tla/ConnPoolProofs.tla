--------------------------- MODULE ConnPoolProofs ---------------------------
(***************************************************************************)
(* Proofs about ConnPool, for a pool of any size and any number of         *)
(* requests.  What a request holds follows from where it stands; so in a   *)
(* stall each holder holds exactly one connection and waits, and there are *)
(* as many of them as the pool has connections.                            *)
(***************************************************************************)
EXTENDS ConnPool, FiniteSetTheorems, TLAPS

One == {r \in Requests : held[r] >= 1}
Two == {r \in Requests : held[r] = 2}

\* What a request holds at each step.
HeldByStep ==
    \A r \in Requests :
        /\ pc[r] \in {"idle", "wait_first", "wait_again"} \cup Answered => held[r] = 0
        /\ pc[r] \in {"first", "wait_second", "last", "again"} => held[r] = 1
        /\ pc[r] = "second" => held[r] = 2
        /\ pc[r] \in {"wait_second", "second"} => r \in Nested

Balance == free + Cardinality(One) + Cardinality(Two) = Capacity

Inv == TypeOK /\ HeldByStep /\ Balance

-----------------------------------------------------------------------------

LEMMA HoldersFinite ==
    /\ IsFiniteSet(One) /\ Cardinality(One) \in Nat
    /\ IsFiniteSet(Two) /\ Cardinality(Two) \in Nat
<1>1. One \subseteq Requests /\ Two \subseteq Requests
  BY DEF One, Two
<1>2. IsFiniteSet(One) /\ IsFiniteSet(Two)
  BY <1>1, RequestsAssumption, FS_Subset
<1>3. QED BY <1>2, FS_CardinalityType

\* A request takes a connection: its first, or its second.
LEMMA TakeKeeps ==
    ASSUME Inv, NEW r \in Requests, Take(r), held[r] \in {0, 1}
    PROVE  /\ held' \in [Requests -> 0..2]
           /\ free' \in 0..Capacity
           /\ Balance'
           /\ held'[r] = held[r] + 1
           /\ \A q \in Requests \ {r} : held'[q] = held[q]
<1> USE DEF Inv, TypeOK, Take
<1>1. /\ held' \in [Requests -> 0..2]
      /\ held'[r] = held[r] + 1
      /\ \A q \in Requests \ {r} : held'[q] = held[q]
  OBVIOUS
<1>2. free' \in 0..Capacity /\ free' = free - 1
  BY CapacityAssumption
<1>3. CASE held[r] = 0
  <2>1. One' = One \cup {r} /\ r \notin One /\ Two' = Two
    BY <1>1, <1>3 DEF One, Two
  <2>2. Cardinality(One') = Cardinality(One) + 1
    BY <2>1, HoldersFinite, FS_AddElement
  <2>3. QED BY <1>1, <1>2, <2>1, <2>2, HoldersFinite, CapacityAssumption DEF Balance
<1>4. CASE held[r] = 1
  <2>1. Two' = Two \cup {r} /\ r \notin Two /\ One' = One
    BY <1>1, <1>4 DEF One, Two
  <2>2. Cardinality(Two') = Cardinality(Two) + 1
    BY <2>1, HoldersFinite, FS_AddElement
  <2>3. QED BY <1>1, <1>2, <2>1, <2>2, HoldersFinite, CapacityAssumption DEF Balance
<1>5. QED BY <1>3, <1>4

\* A request gives one connection back.
LEMMA GiveKeeps ==
    ASSUME Inv, NEW r \in Requests, Give(r, 1), held[r] \in {1, 2}
    PROVE  /\ held' \in [Requests -> 0..2]
           /\ free' \in 0..Capacity
           /\ Balance'
           /\ held'[r] = held[r] - 1
           /\ \A q \in Requests \ {r} : held'[q] = held[q]
<1> USE DEF Inv, TypeOK, Give
<1>1. /\ held' \in [Requests -> 0..2]
      /\ held'[r] = held[r] - 1
      /\ \A q \in Requests \ {r} : held'[q] = held[q]
  OBVIOUS
<1>2. free' = free + 1 /\ free' \in Nat
  BY CapacityAssumption
<1>3. CASE held[r] = 1
  <2>1. One' = One \ {r} /\ r \in One /\ Two' = Two
    BY <1>1, <1>3 DEF One, Two
  <2>2. Cardinality(One') = Cardinality(One) - 1
    BY <2>1, HoldersFinite, FS_RemoveElement
  <2>3. Balance'
    BY <1>2, <2>1, <2>2, HoldersFinite, CapacityAssumption DEF Balance
  <2>4. IsFiniteSet(One') /\ Cardinality(One') \in Nat
    BY <2>1, HoldersFinite, FS_RemoveElement, FS_CardinalityType
  <2>5. free' \in 0..Capacity
    BY <1>2, <2>1, <2>3, <2>4, HoldersFinite, CapacityAssumption DEF Balance
  <2>6. QED BY <1>1, <2>3, <2>5
<1>4. CASE held[r] = 2
  <2>1. Two' = Two \ {r} /\ r \in Two /\ One' = One
    BY <1>1, <1>4 DEF One, Two
  <2>2. Cardinality(Two') = Cardinality(Two) - 1
    BY <2>1, HoldersFinite, FS_RemoveElement
  <2>3. Balance'
    BY <1>2, <2>1, <2>2, HoldersFinite, CapacityAssumption DEF Balance
  <2>4. IsFiniteSet(Two') /\ Cardinality(Two') \in Nat
    BY <2>1, HoldersFinite, FS_RemoveElement, FS_CardinalityType
  <2>5. free' \in 0..Capacity
    BY <1>2, <2>1, <2>3, <2>4, HoldersFinite, CapacityAssumption DEF Balance
  <2>6. QED BY <1>1, <2>3, <2>5
<1>5. QED BY <1>3, <1>4

LEMMA InitInv == Init => Inv
<1> SUFFICES ASSUME Init PROVE Inv
    OBVIOUS
<1>1. TypeOK /\ HeldByStep
  BY CapacityAssumption DEF Init, TypeOK, Steps, Waiting, Answered, HeldByStep
<1>2. One = {} /\ Two = {}
  BY DEF Init, One, Two
<1>3. Balance
  BY <1>2, FS_EmptySet, CapacityAssumption DEF Init, Balance
<1>4. QED BY <1>1, <1>3 DEF Inv

\* A step that moves no connection.
LEMMA NothingMoved ==
    ASSUME Inv, UNCHANGED <<held, free>>
    PROVE  Balance'
  BY DEF Inv, Balance, One, Two

LEMMA InvStep == Inv /\ [Next]_vars => Inv'
<1> SUFFICES ASSUME Inv, [Next]_vars PROVE Inv'
    OBVIOUS
<1> USE DEF Inv, TypeOK, HeldByStep, Goto, Steps, Waiting, Answered
<1>1. ASSUME NEW r \in Requests, Arrive(r) PROVE Inv'
  BY <1>1, NothingMoved DEF Arrive
<1>2. ASSUME NEW r \in Requests, TakeFirst(r) PROVE Inv'
  <2>1. held[r] = 0 /\ Take(r) /\ pc' = [pc EXCEPT ![r] = "first"]
    BY <1>2 DEF TakeFirst
  <2>2. QED BY <2>1, TakeKeeps
<1>3. ASSUME NEW r \in Requests, OpenSecond(r) PROVE Inv'
  BY <1>3, NothingMoved DEF OpenSecond
<1>4. ASSUME NEW r \in Requests, TakeSecond(r) PROVE Inv'
  <2>1. held[r] = 1 /\ r \in Nested /\ Take(r) /\ pc' = [pc EXCEPT ![r] = "second"]
    BY <1>4 DEF TakeSecond
  <2>2. QED BY <2>1, TakeKeeps
<1>5. ASSUME NEW r \in Requests, CloseSecond(r) PROVE Inv'
  <2>1. held[r] = 2 /\ Give(r, 1) /\ pc' = [pc EXCEPT ![r] = "last"]
    BY <1>5 DEF CloseSecond
  <2>2. QED BY <2>1, GiveKeeps
<1>6. ASSUME NEW r \in Requests, CommitAndReload(r) PROVE Inv'
  <2>1. held[r] = 1 /\ Give(r, 1) /\ pc' = [pc EXCEPT ![r] = "wait_again"]
    BY <1>6 DEF CommitAndReload, Ready
  <2>2. QED BY <2>1, GiveKeeps
<1>7. ASSUME NEW r \in Requests, TakeAgain(r) PROVE Inv'
  <2>1. held[r] = 0 /\ Take(r) /\ pc' = [pc EXCEPT ![r] = "again"]
    BY <1>7 DEF TakeAgain
  <2>2. QED BY <2>1, TakeKeeps
<1>8. ASSUME NEW r \in Requests, Finish(r) PROVE Inv'
  <2>1. held[r] = 1 /\ Give(r, 1) /\ pc' = [pc EXCEPT ![r] = "done"]
    BY <1>8 DEF Finish, Ready
  <2>2. QED BY <2>1, GiveKeeps
<1>9. ASSUME NEW r \in Requests, PoolTimeout(r) PROVE Inv'
  <2>1. Give(r, held[r]) /\ pc' = [pc EXCEPT ![r] = "timeout"]
    BY <1>9 DEF PoolTimeout
  <2>2. CASE held[r] = 1
    BY <2>1, <2>2, GiveKeeps
  <2>3. CASE held[r] = 0
    <3>1. UNCHANGED <<held, free>>
      BY <2>1, <2>3 DEF Give
    <3>2. QED BY <2>1, <2>3, <3>1, NothingMoved
  <2>4. held[r] \in {0, 1}
    BY <1>9 DEF PoolTimeout
  <2>5. QED BY <2>2, <2>3, <2>4
<1>10. CASE UNCHANGED vars
  BY <1>10, NothingMoved DEF vars
<1>11. QED
  BY <1>1, <1>2, <1>3, <1>4, <1>5, <1>6, <1>7, <1>8, <1>9, <1>10 DEF Next, Work

LEMMA Invariance == Spec => []Inv
  BY InitInv, InvStep, PTL DEF Spec

-----------------------------------------------------------------------------

\* Every reachable state is well typed.
THEOREM PoolTypeCorrect == Spec => []TypeOK
  BY Invariance, PTL DEF Inv

\* Connections never leak, and an answered request holds none
\* (dependencies.py:30-32, db/helpers.py:17).
THEOREM PoolConserved == Spec => []Conserved
<1>1. Inv => Conserved
  BY DEF Inv, Balance, HeldByStep, Conserved, One, Two
<1> QED
  BY <1>1, Invariance, PTL

LEMMA StallCount == Inv => StallNeedsFullHouse
<1> SUFFICES ASSUME Inv, Stalled
             PROVE  Cardinality({r \in Nested : held[r] = 1}) >= Capacity
    BY DEF StallNeedsFullHouse
<1>1. \A r \in Requests : held[r] > 0 => held[r] = 1 /\ r \in Nested
  BY DEF Inv, Stalled, HeldByStep
<1>2. Two = {}
  BY <1>1 DEF Two
<1>3. One = {r \in Nested : held[r] = 1}
  BY <1>1 DEF One, Inv, TypeOK, Requests
<1>4. Cardinality(One) = Capacity
  BY <1>2, FS_EmptySet, HoldersFinite, CapacityAssumption DEF Inv, Balance, Stalled
<1>5. QED BY <1>3, <1>4, CapacityAssumption

\* A stalled pool has all its connections in nested requests
\* (db/helpers.py:16-18, service_user.py:38-46).
THEOREM StallsAreFull == Spec => []StallNeedsFullHouse
  BY StallCount, Invariance, PTL

\* With fewer nested requests than connections the pool never stalls.
THEOREM NeverStalls == Spec => []NoStall
<1>1. Inv => NoStall
  <2> SUFFICES ASSUME Inv, Stalled, Cardinality(Nested) < Capacity PROVE FALSE
      BY DEF NoStall
  <2> DEFINE S == {r \in Nested : held[r] = 1}
  <2>1. Cardinality(S) >= Capacity
    BY StallCount DEF StallNeedsFullHouse
  <2>2. IsFiniteSet(Nested)
    BY RequestsAssumption, FS_Subset DEF Requests
  <2>3. Cardinality(S) <= Cardinality(Nested) /\ IsFiniteSet(S)
    BY <2>2, FS_Subset
  <2>4. Cardinality(S) \in Nat /\ Cardinality(Nested) \in Nat
    BY <2>2, <2>3, FS_CardinalityType
  <2> HIDE DEF S
  <2>5. QED BY <2>1, <2>3, <2>4, CapacityAssumption
<1> QED
  BY <1>1, Invariance, PTL

=============================================================================
