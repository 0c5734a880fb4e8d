------------------------- MODULE LoginHistoryProofs -------------------------
(***************************************************************************)
(* What holds of the login history for any number of logins and readers    *)
(* and any page size: types, and that paging misses nothing.  A row that a *)
(* client has not found yet stands behind at least as many newer rows as   *)
(* the client has gone past: rows are only added, so the next OFFSET never *)
(* skips it.                                                               *)
(***************************************************************************)
EXTENDS LoginHistory, FiniteSetTheorems, TLAPS

(* Types, and the rows that are owed *)

\* A row is committed when its login is over; an answered login without a failure
\* has its row; a client is owed rows only.
RowsAreKnown ==
    /\ \A l \in rows : login[l] \in {"answered", "failed"}
    /\ Answered \ swallowed \subseteq rows
    /\ \A c \in Readers : owed[c].answered \cup owed[c].committed \subseteq rows

Base == TypeOK /\ RowsAreKnown

LEMMA BaseInit == Init => Base
  BY SizeAssumption DEF Init, Base, TypeOK, LoginSteps, Answered, RowsAreKnown

LEMMA BaseStep == ASSUME Base, [Next]_vars PROVE Base'
<1> USE SizeAssumption DEF Base, TypeOK, LoginSteps, Answered, RowsAreKnown
<1>1. ASSUME NEW l \in Logins, FlushHistory(l) PROVE Base'
  BY <1>1 DEF FlushHistory
<1>2. ASSUME NEW l \in Logins, CommitHistory(l) PROVE Base'
  BY <1>2 DEF CommitHistory
<1>3. ASSUME NEW l \in Logins, SwallowFailure(l) PROVE Base'
  BY <1>3 DEF SwallowFailure
<1>4. ASSUME NEW l \in Logins, Die(l) PROVE Base'
  BY <1>4 DEF Die
<1>5. ASSUME NEW c \in Readers, GetLoginHistory(c) PROVE Base'
  <2>1. PICK result \in SUBSET rows :
          /\ pages' = [pages EXCEPT ![c] = [l \in Logins |->
                          IF l \in result THEN @[l] \cup {page[c]} ELSE @[l]]]
          /\ page' = [page EXCEPT ![c] = IF Cardinality(result) = PageSize THEN @ + 1 ELSE 0]
    BY <1>5 DEF GetLoginHistory
  <2>2. /\ page' \in [Readers -> Nat]
        /\ pages' \in [Readers -> [Logins -> SUBSET Nat]]
    BY <2>1
  <2>3. UNCHANGED <<now, login, logged_in_at, rows, swallowed>>
    BY <1>5 DEF GetLoginHistory
  <2>4. \/ owed' = owed
        \/ owed' = [owed EXCEPT ![c] = [answered |-> Answered \ swallowed, committed |-> rows]]
    BY <1>5 DEF GetLoginHistory
  <2>5. /\ owed' \in [Readers -> [answered : SUBSET Logins, committed : SUBSET Logins]]
        /\ \A d \in Readers : owed'[d].answered \cup owed'[d].committed \subseteq rows
    <3> DEFINE now_owed == [answered |-> Answered \ swallowed, committed |-> rows]
    <3>1. /\ now_owed \in [answered : SUBSET Logins, committed : SUBSET Logins]
          /\ now_owed.answered \cup now_owed.committed \subseteq rows
      OBVIOUS
    <3> HIDE DEF now_owed
    <3>2. owed' = owed \/ owed' = [owed EXCEPT ![c] = now_owed]
      BY <2>4 DEF now_owed
    <3>3. CASE owed' = owed
      BY <3>3
    <3>4. CASE owed' = [owed EXCEPT ![c] = now_owed]
      BY <3>1, <3>4
    <3> QED
      BY <3>2, <3>3, <3>4
  <2> QED
    BY <2>2, <2>3, <2>5
<1>6. CASE Tick
  BY <1>6 DEF Tick
<1>7. CASE UNCHANGED vars
  BY <1>7 DEF vars
<1> QED
  BY <1>1, <1>2, <1>3, <1>4, <1>5, <1>6, <1>7 DEF Next

\* The variables of the login history keep their types.
THEOREM HistoryTypeCorrect == Spec => []TypeOK
<1>1. Base => TypeOK
  BY DEF Base
<1> QED
  BY <1>1, BaseInit, BaseStep, PTL DEF Spec

-----------------------------------------------------------------------------
(* Pages *)

Newer(l) == {k \in rows : logged_in_at[k] > logged_in_at[l]}

LEMMA NewerIsFinite ==
    ASSUME TypeOK, NEW l
    PROVE  IsFiniteSet(rows) /\ IsFiniteSet(Newer(l)) /\ Cardinality(Newer(l)) \in Nat
  BY LoginsAssumption, FS_Subset, FS_CardinalityType DEF TypeOK, Newer

LEMMA NextOffset ==
    ASSUME NEW p \in Nat \ {0}
    PROVE  Offset(p) \in Nat /\ Offset(p + 1) = Offset(p) + PageSize /\ Offset(1) = 0
<1> DEFINE q == p - 1
<1>1. q \in Nat /\ Offset(p) = q * PageSize /\ Offset(p + 1) = (q + 1) * PageSize
  BY DEF Offset
<1> HIDE DEF q
<1> QED
  BY <1>1, SizeAssumption DEF Offset

\* A row that enough newer ones precede is not skipped by the page: it is on it, or
\* the page is full and comes before it as a whole.
LEMMA PageGoesOn ==
    ASSUME TypeOK, NEW p \in Nat \ {0}, NEW result \in SUBSET rows, Page(result, p),
           NEW l \in rows \ result, ~Tied(l), Cardinality(Newer(l)) >= Offset(p)
    PROVE  Cardinality(result) = PageSize /\ Cardinality(Newer(l)) >= Offset(p + 1)
<1>1. PICK skipped \in SUBSET (rows \ result) :
        /\ Cardinality(skipped) =
             IF Offset(p) < Cardinality(rows) THEN Offset(p) ELSE Cardinality(rows)
        /\ \/ Cardinality(result) = PageSize
           \/ Cardinality(result) < PageSize /\ rows \ (result \cup skipped) = {}
        /\ NotOlder(skipped, result \cup (rows \ (result \cup skipped)))
        /\ NotOlder(result, rows \ (result \cup skipped))
  BY DEF Page
<1>2. /\ IsFiniteSet(rows) /\ IsFiniteSet(skipped) /\ IsFiniteSet(result) /\ IsFiniteSet(Newer(l))
      /\ Cardinality(rows) \in Nat /\ Cardinality(skipped) \in Nat
      /\ Cardinality(result) \in Nat /\ Cardinality(Newer(l)) \in Nat
  BY NewerIsFinite, FS_Subset, FS_CardinalityType
<1>3. \A k \in rows : logged_in_at[k] \in Nat
  BY SizeAssumption DEF TypeOK
<1>4. Offset(p) \in Nat /\ Offset(p + 1) = Offset(p) + PageSize
  BY NextOffset
<1>5. l \notin skipped
  <2> SUFFICES ASSUME l \in skipped PROVE FALSE
    OBVIOUS
  <2>1. ASSUME NEW k \in Newer(l) PROVE k \in skipped \ {l}
    <3>1. k \in rows /\ logged_in_at[k] > logged_in_at[l] /\ k # l
      BY <1>3 DEF Newer
    <3>2. k \notin skipped => logged_in_at[l] >= logged_in_at[k]
      BY <1>1, <3>1 DEF NotOlder
    <3> QED
      BY <1>3, <3>1, <3>2
  <2>2. /\ IsFiniteSet(skipped \ {l})
        /\ Cardinality(skipped \ {l}) = Cardinality(skipped) - 1
    BY <1>2, FS_RemoveElement
  <2>3. Cardinality(Newer(l)) <= Cardinality(skipped \ {l})
    BY <2>1, <2>2, FS_Subset
  <2>4. Cardinality(skipped) <= Offset(p)
    BY <1>1, <1>2, <1>4
  <2> QED
    BY <1>2, <1>4, <2>2, <2>3, <2>4
<1>6. l \in rows \ (result \cup skipped)
  BY <1>5
<1>7. Cardinality(result) = PageSize
  BY <1>1, <1>6
<1>8. Cardinality(skipped) = Offset(p)
  <2>1. skipped # rows
    BY <1>5
  <2>2. Cardinality(skipped) # Cardinality(rows)
    BY <1>2, <2>1, FS_Subset
  <2> QED
    BY <1>1, <2>2
<1>9. ASSUME NEW k \in skipped \cup result PROVE k \in Newer(l)
  <2>1. k \in rows /\ k # l /\ logged_in_at[k] >= logged_in_at[l]
    BY <1>1, <1>6 DEF NotOlder
  <2>2. logged_in_at[k] # logged_in_at[l]
    BY <2>1 DEF Tied
  <2> QED
    BY <1>3, <2>1, <2>2 DEF Newer
<1>10. /\ IsFiniteSet(skipped \cup result) /\ skipped \cap result = {}
       /\ Cardinality(skipped \cup result) = Cardinality(skipped) + Cardinality(result)
  <2>1. skipped \cap result = {}
    OBVIOUS
  <2>2. Cardinality(skipped \cap result) = 0
    BY <2>1, FS_EmptySet
  <2>3. /\ IsFiniteSet(skipped \cup result)
        /\ Cardinality(skipped \cup result)
              = Cardinality(skipped) + Cardinality(result) - Cardinality(skipped \cap result)
    BY <1>2, FS_Union
  <2> QED
    BY <1>2, <2>1, <2>2, <2>3
<1>11. Cardinality(skipped \cup result) <= Cardinality(Newer(l))
  BY <1>2, <1>9, FS_Subset
<1> QED
  BY <1>2, <1>4, <1>7, <1>8, <1>10, <1>11, SizeAssumption

-----------------------------------------------------------------------------
(* Nothing is missed *)

\* A row that is owed and not found yet is ahead of the client.
FoundOrAhead ==
    \A c \in Readers :
        \A l \in owed[c].answered \cup owed[c].committed :
            pages[c][l] = {} /\ ~Tied(l) =>
                page[c] # 0 /\ Cardinality(Newer(l)) >= Offset(page[c])

\* A step of a login only adds rows, and moves no row that is there.
LEMMA LoginAdds ==
    ASSUME Base, NEW l \in Logins,
           FlushHistory(l) \/ CommitHistory(l) \/ SwallowFailure(l) \/ Die(l)
    PROVE  /\ rows \subseteq rows' /\ \A k \in rows : logged_in_at'[k] = logged_in_at[k]
           /\ UNCHANGED <<page, pages, owed>>
  BY DEF Base, TypeOK, RowsAreKnown, FlushHistory, CommitHistory, SwallowFailure, Die

LEMMA RowsGoOn ==
    ASSUME Base, Base', FoundOrAhead,
           rows \subseteq rows', \A k \in rows : logged_in_at'[k] = logged_in_at[k],
           UNCHANGED <<page, pages, owed>>
    PROVE  FoundOrAhead'
<1> SUFFICES ASSUME NEW c \in Readers, NEW l \in owed[c].answered \cup owed[c].committed,
                    pages[c][l] = {}, ~Tied(l)'
             PROVE  page[c] # 0 /\ Cardinality(Newer(l)') >= Offset(page[c])
  BY DEF FoundOrAhead, Offset
<1>1. l \in rows
  BY DEF Base, RowsAreKnown
<1>2. ~Tied(l)
  BY <1>1 DEF Tied
<1>3. page[c] # 0 /\ Cardinality(Newer(l)) >= Offset(page[c])
  BY <1>2 DEF FoundOrAhead
<1>4. Newer(l) \subseteq Newer(l)'
  BY <1>1 DEF Newer
<1>5. IsFiniteSet(Newer(l)') /\ Cardinality(Newer(l)') \in Nat
  <2>1. IsFiniteSet(rows') /\ Newer(l)' \subseteq rows'
    BY LoginsAssumption, FS_Subset DEF Base, TypeOK, Newer
  <2> QED
    BY <2>1, FS_Subset, FS_CardinalityType
<1>6. Cardinality(Newer(l)) <= Cardinality(Newer(l)')
  BY <1>4, <1>5, FS_Subset
<1>7. Cardinality(Newer(l)) \in Nat /\ Offset(page[c]) \in Nat
  BY <1>3, NewerIsFinite, NextOffset DEF Base, TypeOK
<1> QED
  BY <1>3, <1>5, <1>6, <1>7

\* A page leaves what it does not show ahead of the client.
LEMMA ReaderGoesOn ==
    ASSUME Base, FoundOrAhead, NEW c \in Readers, GetLoginHistory(c)
    PROVE  FoundOrAhead'
<1> USE DEF Base, TypeOK
<1>1. PICK result \in SUBSET rows :
        /\ Page(result, page[c])
        /\ pages' = [pages EXCEPT ![c] = [l \in Logins |->
                        IF l \in result THEN @[l] \cup {page[c]} ELSE @[l]]]
        /\ page' = [page EXCEPT ![c] = IF Cardinality(result) = PageSize THEN @ + 1 ELSE 0]
  BY DEF GetLoginHistory
<1>2. page[c] \in Nat \ {0} /\ UNCHANGED <<rows, logged_in_at>>
  BY DEF GetLoginHistory
<1>3. \A l : (Tied(l)' <=> Tied(l)) /\ Newer(l)' = Newer(l)
  BY <1>2 DEF Tied, Newer
<1>4. ASSUME NEW l \in owed'[c].answered \cup owed'[c].committed, pages'[c][l] = {}, ~Tied(l)
      PROVE  page'[c] # 0 /\ Cardinality(Newer(l)) >= Offset(page'[c])
  <2>1. l \in rows
    BY <1>4 DEF GetLoginHistory, RowsAreKnown
  <2>2. l \notin result /\ pages[c][l] = {}
    BY <1>1, <1>4, <2>1
  <2>3. Cardinality(Newer(l)) >= Offset(page[c])
    <3>1. CASE page[c] = 1
      BY <3>1, NewerIsFinite, NextOffset
    <3>2. CASE page[c] # 1
      BY <1>4, <2>2, <3>2 DEF GetLoginHistory, FoundOrAhead
    <3> QED
      BY <3>1, <3>2
  <2>4. Cardinality(result) = PageSize /\ Cardinality(Newer(l)) >= Offset(page[c] + 1)
    BY <1>1, <1>2, <1>4, <2>1, <2>2, <2>3, PageGoesOn
  <2> QED
    BY <1>1, <1>2, <2>4
<1>5. \A d \in Readers \ {c} : owed'[d] = owed[d] /\ pages'[d] = pages[d] /\ page'[d] = page[d]
  BY <1>1 DEF GetLoginHistory
<1> QED
  BY <1>3, <1>4, <1>5 DEF FoundOrAhead, Offset

LEMMA AheadStep == ASSUME Base, FoundOrAhead, [Next]_vars PROVE FoundOrAhead'
<1>1. Base'
  BY BaseStep
<1>2. ASSUME NEW l \in Logins, FlushHistory(l) \/ CommitHistory(l) \/ SwallowFailure(l) \/ Die(l)
      PROVE  FoundOrAhead'
  BY <1>1, <1>2, LoginAdds, RowsGoOn
<1>3. ASSUME NEW c \in Readers, GetLoginHistory(c) PROVE FoundOrAhead'
  BY <1>3, ReaderGoesOn
<1>4. CASE Tick \/ UNCHANGED vars
  BY <1>1, <1>4, RowsGoOn DEF Tick, vars
<1> QED
  BY <1>2, <1>3, <1>4 DEF Next

\* A client that reads page after page to the last one misses no login that was
\* answered, and no row that was committed, before its first page, but for rows that
\* share their timestamp with another (service_user.py:93-104).
THEOREM NothingIsMissedHolds == Spec => []NothingIsMissed
<1>1. Init => FoundOrAhead
  BY DEF Init, FoundOrAhead
<1>2. FoundOrAhead => NothingIsMissed
  BY DEF FoundOrAhead, NothingIsMissed
<1> QED
  BY <1>1, <1>2, BaseInit, BaseStep, AheadStep, PTL DEF Spec

=============================================================================
