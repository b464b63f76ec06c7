--------------------------- MODULE ChatQuotaProofs ---------------------------
(***************************************************************************)
(* Machine-checked proofs about ChatQuota, for every set of requests, every *)
(* plan limit, any number of months and any number of failures.            *)
(***************************************************************************)
EXTENDS ChatQuota, FiniteSetTheorems, TLAPS

(* What a request owns at each point of its handler.                       *)
StageOK(r) ==
    /\ pc[r] \in {"idle", "reserve", "lookup", "open", "rejected"} =>
           r \notin holding /\ r \notin called
    /\ pc[r] \in {"cache", "retrieve", "hit", "empty"} =>
           r \in holding /\ r \notin called
    /\ pc[r] \in {"llm", "save"} => r \in holding /\ r \in called
    /\ pc[r] = "done" /\ r \in holding => r \in called

Stages == \A r \in Request : StageOK(r)

(* Nothing is reserved before the row exists, and no reservation is counted *)
(* in a month later than the row's.                                        *)
Periods ==
    /\ ~open => used = 0 /\ holding = {} /\ called = {}
    /\ resetAt <= month
    /\ \A r \in holding \cup called : period[r] <= resetAt

QuotaInv ==
    /\ TypeOK
    /\ Stages
    /\ Periods
    /\ CounterWithinPlan
    /\ CounterCovers

-----------------------------------------------------------------------------

\* The consumed queries are a finite set, so they can be counted.
LEMMA ConsumedFinite ==
    ASSUME TypeOK
    PROVE  IsFiniteSet(Consumed) /\ Cardinality(Consumed) \in Nat
  <1>1. Consumed \in SUBSET Request
    BY DEF Consumed, Current
  <1>2. IsFiniteSet(Consumed)
    BY <1>1, QuotaAssumption, FS_Subset
  <1> QED
    BY <1>2, FS_CardinalityType

\* Every state of the system is well typed.
THEOREM QuotaTyped == Spec => []TypeOK
  <1> USE QuotaAssumption
  <1>1. Init => TypeOK
    BY DEF Init, TypeOK, Control
  <1>2. TypeOK /\ [Next]_vars => TypeOK'
    <2> SUFFICES ASSUME TypeOK, [Next]_vars PROVE TypeOK'
      OBVIOUS
    <2> USE DEF TypeOK, Control, Serving, Final, row, ghosts, Goto, Fail
    <2>1. CASE OpenSubscription
      BY <2>1 DEF OpenSubscription, InsertSubscription
    <2>2. CASE ResetIfNewMonth
      BY <2>2 DEF ResetIfNewMonth
    <2>3. CASE MonthEnds
      BY <2>3 DEF MonthEnds
    <2>4. CASE Crash
      BY <2>4 DEF Crash
    <2>5. ASSUME NEW r \in Request, Arrive(r) PROVE TypeOK'
      BY <2>5 DEF Arrive
    <2>6. ASSUME NEW r \in Request, ReserveQuery(r) PROVE TypeOK'
      BY <2>6 DEF ReserveQuery
    <2>7. ASSUME NEW r \in Request, ReserveMisses(r) PROVE TypeOK'
      BY <2>7 DEF ReserveMisses
    <2>8. ASSUME NEW r \in Request, LookupSubscription(r) PROVE TypeOK'
      BY <2>8 DEF LookupSubscription
    <2>9. ASSUME NEW r \in Request, OpenAndRetry(r) PROVE TypeOK'
      BY <2>9 DEF OpenAndRetry, InsertSubscription
    <2>10. ASSUME NEW r \in Request, ReadCache(r) PROVE TypeOK'
      BY <2>10 DEF ReadCache
    <2>11. ASSUME NEW r \in Request, Retrieve(r) PROVE TypeOK'
      BY <2>11 DEF Retrieve
    <2>12. ASSUME NEW r \in Request, CallLLM(r) PROVE TypeOK'
      BY <2>12 DEF CallLLM
    <2>13. ASSUME NEW r \in Request, SaveAnswer(r) PROVE TypeOK'
      BY <2>13 DEF SaveAnswer
    <2>14. ASSUME NEW r \in Request, Release(r) PROVE TypeOK'
      BY <2>14 DEF Release, GiveBack, CountSurplus
    <2>15. ASSUME NEW r \in Request, ReleaseRaises(r) PROVE TypeOK'
      BY <2>15 DEF ReleaseRaises, GiveBack, CountSurplus
    <2>16. ASSUME NEW r \in Request, Disconnect(r) PROVE TypeOK'
      BY <2>16 DEF Disconnect
    <2>17. CASE UNCHANGED vars
      BY <2>17 DEF vars
    <2> QED
      BY <2>1, <2>2, <2>3, <2>4, <2>5, <2>6, <2>7, <2>8, <2>9, <2>10, <2>11,
         <2>12, <2>13, <2>14, <2>15, <2>16, <2>17 DEF Next, Serve
  <1> QED
    BY <1>1, <1>2, PTL DEF Spec

-----------------------------------------------------------------------------

\* A request keeps what its place in the handler says it owns.
LEMMA StagesPreserved ==
    ASSUME TypeOK, Stages, [Next]_vars
    PROVE  Stages'
  <1> USE DEF Stages, StageOK, TypeOK, Control, Serving, Final, row, ghosts, Goto, Fail
  <1>1. CASE OpenSubscription
    BY <1>1 DEF OpenSubscription, InsertSubscription
  <1>2. CASE ResetIfNewMonth
    BY <1>2 DEF ResetIfNewMonth, RolledOver
  <1>3. CASE MonthEnds
    BY <1>3 DEF MonthEnds
  <1>4. CASE Crash
    BY <1>4 DEF Crash
  <1>5. ASSUME NEW r \in Request, Arrive(r) PROVE Stages'
    BY <1>5 DEF Arrive
  <1>6. ASSUME NEW r \in Request, ReserveQuery(r) PROVE Stages'
    BY <1>6 DEF ReserveQuery, RolledOver
  <1>7. ASSUME NEW r \in Request, ReserveMisses(r) PROVE Stages'
    BY <1>7 DEF ReserveMisses
  <1>8. ASSUME NEW r \in Request, LookupSubscription(r) PROVE Stages'
    BY <1>8 DEF LookupSubscription
  <1>9. ASSUME NEW r \in Request, OpenAndRetry(r) PROVE Stages'
    BY <1>9 DEF OpenAndRetry, InsertSubscription
  <1>10. ASSUME NEW r \in Request, ReadCache(r) PROVE Stages'
    BY <1>10 DEF ReadCache
  <1>11. ASSUME NEW r \in Request, Retrieve(r) PROVE Stages'
    BY <1>11 DEF Retrieve
  <1>12. ASSUME NEW r \in Request, CallLLM(r) PROVE Stages'
    BY <1>12 DEF CallLLM
  <1>13. ASSUME NEW r \in Request, SaveAnswer(r) PROVE Stages'
    BY <1>13 DEF SaveAnswer
  <1>14. ASSUME NEW r \in Request, Release(r) PROVE Stages'
    BY <1>14 DEF Release, GiveBack, CountSurplus
  <1>15. ASSUME NEW r \in Request, ReleaseRaises(r) PROVE Stages'
    BY <1>15 DEF ReleaseRaises, GiveBack, CountSurplus
  <1>16. ASSUME NEW r \in Request, Disconnect(r) PROVE Stages'
    BY <1>16 DEF Disconnect
  <1>17. CASE UNCHANGED vars
    BY <1>17 DEF vars
  <1> QED
    BY <1>1, <1>2, <1>3, <1>4, <1>5, <1>6, <1>7, <1>8, <1>9, <1>10, <1>11, <1>12,
       <1>13, <1>14, <1>15, <1>16, <1>17
       DEF Next, Serve

\* Reservations stay counted in the row's month or an earlier one.
LEMMA PeriodsPreserved ==
    ASSUME TypeOK, Stages, Periods, [Next]_vars
    PROVE  Periods'
  <1> USE DEF Stages, StageOK, Periods, TypeOK, Control, Serving, Final, row,
        ghosts, Goto, Fail
  <1>1. CASE OpenSubscription
    BY <1>1 DEF OpenSubscription, InsertSubscription
  <1>2. CASE ResetIfNewMonth
    BY <1>2 DEF ResetIfNewMonth, RolledOver
  <1>3. CASE MonthEnds
    BY <1>3 DEF MonthEnds
  <1>4. CASE Crash
    BY <1>4 DEF Crash
  <1>5. ASSUME NEW r \in Request, Arrive(r) PROVE Periods'
    BY <1>5 DEF Arrive
  <1>6. ASSUME NEW r \in Request, ReserveQuery(r) PROVE Periods'
    BY <1>6 DEF ReserveQuery, RolledOver
  <1>7. ASSUME NEW r \in Request, ReserveMisses(r) PROVE Periods'
    BY <1>7 DEF ReserveMisses
  <1>8. ASSUME NEW r \in Request, LookupSubscription(r) PROVE Periods'
    BY <1>8 DEF LookupSubscription
  <1>9. ASSUME NEW r \in Request, OpenAndRetry(r) PROVE Periods'
    BY <1>9 DEF OpenAndRetry, InsertSubscription
  <1>10. ASSUME NEW r \in Request, ReadCache(r) PROVE Periods'
    BY <1>10 DEF ReadCache
  <1>11. ASSUME NEW r \in Request, Retrieve(r) PROVE Periods'
    BY <1>11 DEF Retrieve
  <1>12. ASSUME NEW r \in Request, CallLLM(r) PROVE Periods'
    BY <1>12 DEF CallLLM
  <1>13. ASSUME NEW r \in Request, SaveAnswer(r) PROVE Periods'
    BY <1>13 DEF SaveAnswer
  <1>14. ASSUME NEW r \in Request, Release(r) PROVE Periods'
    BY <1>14 DEF Release, GiveBack, CountSurplus
  <1>15. ASSUME NEW r \in Request, ReleaseRaises(r) PROVE Periods'
    BY <1>15 DEF ReleaseRaises, GiveBack, CountSurplus
  <1>16. ASSUME NEW r \in Request, Disconnect(r) PROVE Periods'
    BY <1>16 DEF Disconnect
  <1>17. CASE UNCHANGED vars
    BY <1>17 DEF vars
  <1> QED
    BY <1>1, <1>2, <1>3, <1>4, <1>5, <1>6, <1>7, <1>8, <1>9, <1>10, <1>11, <1>12,
       <1>13, <1>14, <1>15, <1>16, <1>17
       DEF Next, Serve

\* The plan limit: only the guarded increment raises the counter.
LEMMA PlanPreserved ==
    ASSUME TypeOK, CounterWithinPlan, [Next]_vars
    PROVE  CounterWithinPlan'
  <1> USE QuotaAssumption DEF CounterWithinPlan, TypeOK, row
  <1>1. CASE OpenSubscription
    BY <1>1 DEF OpenSubscription, InsertSubscription
  <1>2. CASE ResetIfNewMonth
    BY <1>2 DEF ResetIfNewMonth
  <1>3. ASSUME NEW r \in Request, ReserveQuery(r) PROVE CounterWithinPlan'
    BY <1>3 DEF ReserveQuery, UnderLimit
  <1>4. ASSUME NEW r \in Request, OpenAndRetry(r) PROVE CounterWithinPlan'
    BY <1>4 DEF OpenAndRetry, InsertSubscription
  <1>5. ASSUME NEW r \in Request, Release(r) \/ ReleaseRaises(r)
        PROVE  CounterWithinPlan'
    BY <1>5 DEF Release, ReleaseRaises, GiveBack
  <1>6. ASSUME UNCHANGED used PROVE CounterWithinPlan'
    BY <1>6
  <1> QED
    BY <1>1, <1>2, <1>3, <1>4, <1>5, <1>6
       DEF Next, Serve, vars, Arrive, ReserveMisses, LookupSubscription,
           ReadCache, Retrieve, CallLLM, SaveAnswer, MonthEnds, Crash, Disconnect

\* A new month starts with nothing consumed: every earlier reservation is
\* counted in an earlier month.
LEMMA NewMonthIsEmpty ==
    ASSUME TypeOK, Periods, RolledOver, resetAt' = month,
           UNCHANGED <<period, holding, called>>
    PROVE  Consumed' = {}
  BY DEF TypeOK, Periods, RolledOver, Consumed, Current

\* The first reservation of a new month is the only one counted in it.
LEMMA NewMonthCountsOne ==
    ASSUME TypeOK, Periods, RolledOver, NEW r \in Request, ReserveQuery(r)
    PROVE  Consumed' \subseteq {r}
  BY DEF TypeOK, Periods, RolledOver, Consumed, Current, ReserveQuery

\* A give-back lowers the counter by at most one, and then either frees a
\* query of this month or is booked as surplus.
LEMMA GiveBackCovers ==
    ASSUME TypeOK, CounterCovers, NEW r \in Request,
           GiveBack, CountSurplus(r), holding' = holding \ {r},
           UNCHANGED <<open, resetAt, period, called>>
    PROVE  CounterCovers'
  <1>1. IsFiniteSet(Consumed) /\ Cardinality(Consumed) \in Nat
    BY ConsumedFinite
  <1>2. Consumed' \in SUBSET Consumed
    BY DEF Consumed, Current
  <1>3. Cardinality(Consumed') <= Cardinality(Consumed)
    BY <1>1, <1>2, FS_Subset
  <1>4. Cardinality(Consumed') \in Nat
    BY <1>1, <1>2, FS_Subset, FS_CardinalityType
  <1>5. CASE used' = used
    <2>1. surplus' = surplus
      BY <1>5 DEF CountSurplus, TypeOK
    <2> QED
      BY <1>1, <1>3, <1>4, <1>5, <2>1 DEF CounterCovers, TypeOK
  <1>6. CASE used' = used - 1 /\ surplus' = surplus + 1
    BY <1>1, <1>3, <1>4, <1>6 DEF CounterCovers, TypeOK
  <1>7. CASE used' = used - 1 /\ surplus' # surplus + 1
    <2>1. period[r] = resetAt /\ r \in holding /\ r \notin called /\ surplus' = surplus
      BY <1>7 DEF CountSurplus, TypeOK
    <2>2. r \in Consumed /\ Consumed' = Consumed \ {r}
      BY <2>1 DEF Consumed, Current, TypeOK
    <2>3. Cardinality(Consumed') = Cardinality(Consumed) - 1
      BY <1>1, <2>2, FS_RemoveElement
    <2> QED
      BY <1>1, <1>7, <2>1, <2>3 DEF CounterCovers, TypeOK
  <1> QED
    BY <1>5, <1>6, <1>7 DEF GiveBack

\* The counter and the surplus together cover what this month consumed.
LEMMA CoversPreserved ==
    ASSUME TypeOK, Stages, Periods, CounterCovers, [Next]_vars
    PROVE  CounterCovers'
  <1>1. IsFiniteSet(Consumed) /\ Cardinality(Consumed) \in Nat
    BY ConsumedFinite
  <1>2. Cardinality({}) = 0
    BY FS_EmptySet
  <1>3. CASE OpenSubscription
    <2>1. Consumed' = {} /\ used' = 0 /\ surplus' = 0
      BY <1>3 DEF OpenSubscription, InsertSubscription, Periods, Consumed, Current
    <2> QED
      BY <2>1, <1>2 DEF CounterCovers
  <1>4. CASE ResetIfNewMonth
    <2>1. Consumed' = {} /\ used' = 0 /\ surplus' = 0
      BY <1>4, NewMonthIsEmpty DEF ResetIfNewMonth
    <2> QED
      BY <2>1, <1>2 DEF CounterCovers
  <1>5. ASSUME NEW r \in Request, ReserveQuery(r), RolledOver PROVE CounterCovers'
    <2>1. Consumed' \in SUBSET {r}
      BY <1>5, NewMonthCountsOne
    <2>2. Consumed' = {} \/ Consumed' = {r}
      BY <2>1
    <2>3. Cardinality(Consumed') \in {0, 1}
      BY <2>2, <1>2, FS_Singleton
    <2> QED
      BY <1>5, <2>3 DEF ReserveQuery, CounterCovers
  <1>6. ASSUME NEW r \in Request, ReserveQuery(r), ~RolledOver PROVE CounterCovers'
    <2>1. r \notin Consumed /\ Consumed' = Consumed \cup {r}
      BY <1>6 DEF ReserveQuery, Stages, StageOK, Consumed, Current, TypeOK
    <2>2. Cardinality(Consumed') = Cardinality(Consumed) + 1
      BY <1>1, <2>1, FS_AddElement
    <2> QED
      BY <1>1, <1>6, <2>2 DEF ReserveQuery, CounterCovers, TypeOK
  <1>7. ASSUME NEW r \in Request, OpenAndRetry(r) PROVE CounterCovers'
    <2>1. CASE open
      BY <1>7, <2>1 DEF OpenAndRetry, InsertSubscription, CounterCovers, Consumed, Current
    <2>2. CASE ~open
      <3>1. Consumed' = {} /\ used' = 0 /\ surplus' = 0
        BY <1>7, <2>2 DEF OpenAndRetry, InsertSubscription, Periods, Consumed, Current
      <3> QED
        BY <3>1, <1>2 DEF CounterCovers
    <2> QED
      BY <2>1, <2>2
  <1>8. ASSUME NEW r \in Request, Retrieve(r) PROVE CounterCovers'
    <2>1. Consumed' = Consumed
      BY <1>8 DEF Retrieve, Stages, StageOK, Consumed, Current, row, ghosts
    <2> QED
      BY <1>8, <2>1 DEF Retrieve, CounterCovers, row, ghosts
  <1>9. ASSUME NEW r \in Request, Release(r) PROVE CounterCovers'
    BY <1>9, GiveBackCovers DEF Release
  <1>10. ASSUME NEW r \in Request, ReleaseRaises(r) PROVE CounterCovers'
    <2>1. CASE UNCHANGED <<used, surplus, holding>>
      BY <1>10, <2>1 DEF ReleaseRaises, CounterCovers, Consumed, Current
    <2>2. CASE GiveBack /\ CountSurplus(r) /\ holding' = holding \ {r}
      BY <1>10, <2>2, GiveBackCovers DEF ReleaseRaises
    <2> QED
      BY <1>10, <2>1, <2>2 DEF ReleaseRaises
  <1>11. ASSUME UNCHANGED <<used, surplus, resetAt, period, holding, called>>
         PROVE  CounterCovers'
    BY <1>11 DEF CounterCovers, Consumed, Current
  <1> QED
    BY <1>3, <1>4, <1>5, <1>6, <1>7, <1>8, <1>9, <1>10, <1>11
       DEF Next, Serve, vars, row, ghosts, Arrive, ReserveMisses,
           LookupSubscription, ReadCache, CallLLM, SaveAnswer, MonthEnds, Crash,
           Disconnect

-----------------------------------------------------------------------------

\* QuotaInv is an invariant: it holds at first and every step keeps it.
THEOREM QuotaInvariant == Spec => []QuotaInv
  <1>1. Init => QuotaInv
    <2> SUFFICES ASSUME Init PROVE QuotaInv
      OBVIOUS
    <2>1. TypeOK /\ Stages /\ Periods /\ CounterWithinPlan
      BY QuotaAssumption
         DEF Init, TypeOK, Control, Stages, StageOK, Periods, CounterWithinPlan
    <2>2. Consumed = {}
      BY DEF Init, Consumed
    <2> QED
      BY <2>1, <2>2, FS_EmptySet DEF QuotaInv, CounterCovers, Init
  <1>2. TypeOK' /\ QuotaInv /\ [Next]_vars => QuotaInv'
    BY StagesPreserved, PeriodsPreserved, PlanPreserved, CoversPreserved DEF QuotaInv
  <1> QED
    BY <1>1, <1>2, QuotaTyped, PTL DEF Spec

\* The counter of a limited plan stays within the plan, whatever interleaves.
THEOREM CounterStaysWithinPlan == Spec => []CounterWithinPlan
  <1>1. QuotaInv => CounterWithinPlan
    BY DEF QuotaInv
  <1> QED
    BY <1>1, QuotaInvariant, PTL

\* LLM calls of a month exceed the plan by at most the surplus give-backs.
THEOREM OvershootIsAccounted == Spec => []OvershootAccounted
  <1>1. QuotaInv => OvershootAccounted
    <2> SUFFICES ASSUME QuotaInv, Limited PROVE Cardinality(Current \cap called) <= MaxQueries + surplus
      BY DEF OvershootAccounted
    <2>1. IsFiniteSet(Consumed) /\ Cardinality(Consumed) \in Nat
      BY ConsumedFinite DEF QuotaInv
    <2>2. Current \cap called \in SUBSET Consumed
      BY DEF Consumed
    <2>3. /\ Cardinality(Current \cap called) <= Cardinality(Consumed)
          /\ IsFiniteSet(Current \cap called)
      BY <2>1, <2>2, FS_Subset
    <2>4. Cardinality(Current \cap called) \in Nat
      BY <2>3, FS_CardinalityType
    <2> QED
      BY <2>1, <2>3, <2>4, QuotaAssumption
         DEF QuotaInv, CounterCovers, CounterWithinPlan, TypeOK
  <1> QED
    BY <1>1, QuotaInvariant, PTL

\* A finished request keeps its query only if it reached the LLM.
THEOREM ExitsSettle == Spec => []EveryExitSettles
  <1>1. QuotaInv => EveryExitSettles
    BY DEF QuotaInv, Stages, StageOK, EveryExitSettles
  <1> QED
    BY <1>1, QuotaInvariant, PTL

-----------------------------------------------------------------------------

\* A give-back that is not booked as surplus lowers the counter and what is
\* consumed together: it frees a query of this month, or there was none.
LEMMA GiveBackExact ==
    ASSUME TypeOK, Periods, CounterExact, NEW r \in Request,
           GiveBack, CountSurplus(r), holding' = holding \ {r},
           UNCHANGED <<open, resetAt, period, called>>
    PROVE  CounterExact'
  <1> SUFFICES ASSUME surplus' = 0 PROVE used' = Cardinality(Consumed')
    BY DEF CounterExact
  <1>1. surplus' = surplus /\ surplus = 0
    BY DEF CountSurplus, TypeOK
  <1>2. /\ IsFiniteSet(Consumed)
        /\ used = Cardinality(Consumed)
    BY <1>1, ConsumedFinite DEF CounterExact
  <1>3. CASE open /\ used > 0
    <2>1. used' = used - 1 /\ used' < used
      BY <1>3 DEF GiveBack, TypeOK
    <2>2. period[r] = resetAt /\ r \in holding /\ r \notin called
      BY <1>1, <2>1 DEF CountSurplus, TypeOK
    <2>3. r \in Consumed /\ Consumed' = Consumed \ {r}
      BY <2>2 DEF Consumed, Current
    <2> QED
      BY <1>2, <2>1, <2>3, FS_RemoveElement
  <1>4. CASE ~(open /\ used > 0)
    <2>1. used' = used /\ used = 0
      BY <1>4 DEF GiveBack, TypeOK, Periods
    <2>2. Consumed = {}
      BY <1>2, <2>1, FS_EmptySet
    <2>3. Consumed' = {}
      BY <2>2 DEF Consumed, Current
    <2> QED
      BY <2>1, <2>3, FS_EmptySet
  <1> QED
    BY <1>3, <1>4

\* While no give-back of the month was a surplus one, every step changes the
\* counter and what is consumed alike.
LEMMA ExactPreserved ==
    ASSUME TypeOK, Stages, Periods, CounterExact, [Next]_vars
    PROVE  CounterExact'
  <1>1. IsFiniteSet(Consumed) /\ Cardinality(Consumed) \in Nat
    BY ConsumedFinite
  <1>2. Cardinality({}) = 0
    BY FS_EmptySet
  <1>3. CASE OpenSubscription
    <2>1. Consumed' = {} /\ used' = 0
      BY <1>3 DEF OpenSubscription, InsertSubscription, Periods, Consumed, Current
    <2> QED
      BY <2>1, <1>2 DEF CounterExact
  <1>4. CASE ResetIfNewMonth
    <2>1. Consumed' = {} /\ used' = 0
      BY <1>4, NewMonthIsEmpty DEF ResetIfNewMonth
    <2> QED
      BY <2>1, <1>2 DEF CounterExact
  <1>5. ASSUME NEW r \in Request, ReserveQuery(r), RolledOver PROVE CounterExact'
    <2>1. Consumed' = {r}
      <3>1. r \in Consumed'
        BY <1>5 DEF ReserveQuery, Consumed, Current, TypeOK
      <3> QED
        BY <1>5, <3>1, NewMonthCountsOne
    <2> QED
      BY <1>5, <2>1, FS_Singleton DEF ReserveQuery, CounterExact
  <1>6. ASSUME NEW r \in Request, ReserveQuery(r), ~RolledOver PROVE CounterExact'
    <2>1. r \notin Consumed /\ Consumed' = Consumed \cup {r}
      BY <1>6 DEF ReserveQuery, Stages, StageOK, Consumed, Current, TypeOK
    <2>2. Cardinality(Consumed') = Cardinality(Consumed) + 1
      BY <1>1, <2>1, FS_AddElement
    <2> QED
      BY <1>1, <1>6, <2>2 DEF ReserveQuery, CounterExact
  <1>7. ASSUME NEW r \in Request, OpenAndRetry(r) PROVE CounterExact'
    <2>1. CASE open
      BY <1>7, <2>1 DEF OpenAndRetry, InsertSubscription, CounterExact, Consumed, Current
    <2>2. CASE ~open
      <3>1. Consumed' = {} /\ used' = 0
        BY <1>7, <2>2 DEF OpenAndRetry, InsertSubscription, Periods, Consumed, Current
      <3> QED
        BY <3>1, <1>2 DEF CounterExact
    <2> QED
      BY <2>1, <2>2
  <1>8. ASSUME NEW r \in Request, Retrieve(r) PROVE CounterExact'
    <2>1. Consumed' = Consumed
      BY <1>8 DEF Retrieve, Stages, StageOK, Consumed, Current, row, ghosts
    <2> QED
      BY <1>8, <2>1 DEF Retrieve, CounterExact, row, ghosts
  <1>9. ASSUME NEW r \in Request, Release(r) PROVE CounterExact'
    BY <1>9, GiveBackExact DEF Release
  <1>10. ASSUME NEW r \in Request, ReleaseRaises(r) PROVE CounterExact'
    <2>1. CASE UNCHANGED <<used, surplus, holding>>
      BY <1>10, <2>1 DEF ReleaseRaises, CounterExact, Consumed, Current
    <2>2. CASE GiveBack /\ CountSurplus(r) /\ holding' = holding \ {r}
      BY <1>10, <2>2, GiveBackExact DEF ReleaseRaises
    <2> QED
      BY <1>10, <2>1, <2>2 DEF ReleaseRaises
  <1>11. ASSUME UNCHANGED <<used, surplus, resetAt, period, holding, called>>
         PROVE  CounterExact'
    BY <1>11 DEF CounterExact, Consumed, Current
  <1> QED
    BY <1>3, <1>4, <1>5, <1>6, <1>7, <1>8, <1>9, <1>10, <1>11
       DEF Next, Serve, vars, row, ghosts, Arrive, ReserveMisses,
           LookupSubscription, ReadCache, CallLLM, SaveAnswer, MonthEnds, Crash,
           Disconnect

\* Until a month sees its first surplus give-back, its counter is exactly the
\* queries its requests hold or have spent, disconnects and crashes included.
THEOREM CounterStaysExact == Spec => []CounterExact
  <1>1. Init => CounterExact
    <2> SUFFICES ASSUME Init PROVE CounterExact
      OBVIOUS
    <2>1. Consumed = {} /\ used = 0
      BY DEF Init, Consumed
    <2> QED
      BY <2>1, FS_EmptySet DEF CounterExact
  <1>2. QuotaInv /\ CounterExact /\ [Next]_vars => CounterExact'
    BY ExactPreserved DEF QuotaInv
  <1> QED
    BY <1>1, <1>2, QuotaInvariant, PTL DEF Spec

-----------------------------------------------------------------------------

(* No month change, no failing give-back, and no /chat request whose failed  *)
(* LLM call is given back.  Disconnects and crashes may still happen.        *)
Calm == MaxMonth = 0 /\ "release" \notin Failures /\ "chat" \notin Kinds

CalmInv ==
    /\ surplus = 0
    /\ \A r \in Request :
          /\ pc[r] # "idle" => kind[r] = "stream"
          /\ pc[r] = "error" => r \in holding /\ r \notin called

\* Under those conditions a month's LLM calls never exceed the plan.
THEOREM CalmNeverOvershoots ==
    ASSUME Calm
    PROVE  Spec => []NoOvershoot
  <1> USE Calm DEF Calm
  <1>1. Init => CalmInv
    BY DEF Init, CalmInv
  <1>2. QuotaInv /\ CalmInv /\ [Next]_vars => CalmInv'
    <2> SUFFICES ASSUME QuotaInv, CalmInv, [Next]_vars PROVE CalmInv'
      OBVIOUS
    <2>1. TypeOK /\ Stages
      BY DEF QuotaInv
    <2>2. \A r \in Request : period[r] = resetAt
      BY <2>1 DEF TypeOK
    <2> USE <2>1 DEF CalmInv, TypeOK, row, ghosts, Goto
    <2>3. CASE OpenSubscription \/ ResetIfNewMonth \/ MonthEnds
      BY <2>3 DEF OpenSubscription, InsertSubscription, ResetIfNewMonth, MonthEnds
    <2>4. CASE Crash
      BY <2>4 DEF Crash
    <2>5. ASSUME NEW r \in Request, Arrive(r) PROVE CalmInv'
      <3>1. PICK k \in Kinds : kind' = [kind EXCEPT ![r] = k]
        BY <2>5 DEF Arrive
      <3>2. k = "stream"
        BY QuotaAssumption
      <3> QED
        BY <2>5, <3>1, <3>2 DEF Arrive
    <2>6. ASSUME NEW r \in Request, ReserveQuery(r) PROVE CalmInv'
      BY <2>6 DEF ReserveQuery
    <2>7. ASSUME NEW r \in Request, ReserveMisses(r) PROVE CalmInv'
      BY <2>7 DEF ReserveMisses
    <2>8. ASSUME NEW r \in Request, LookupSubscription(r) PROVE CalmInv'
      BY <2>8 DEF LookupSubscription
    <2>9. ASSUME NEW r \in Request, OpenAndRetry(r) PROVE CalmInv'
      BY <2>9 DEF OpenAndRetry, InsertSubscription
    <2>10. ASSUME NEW r \in Request, ReadCache(r) PROVE CalmInv'
      BY <2>10 DEF ReadCache
    <2>11. ASSUME NEW r \in Request, Retrieve(r) PROVE CalmInv'
      BY <2>11 DEF Retrieve, Stages, StageOK
    <2>12. ASSUME NEW r \in Request, CallLLM(r) PROVE CalmInv'
      BY <2>12 DEF CallLLM
    <2>13. ASSUME NEW r \in Request, SaveAnswer(r) PROVE CalmInv'
      BY <2>13 DEF SaveAnswer
    <2>14. ASSUME NEW r \in Request, Release(r) PROVE CalmInv'
      <3>1. r \in holding /\ r \notin called /\ period[r] = resetAt
        BY <2>14, <2>2 DEF Release, Stages, StageOK
      <3>2. surplus' = surplus
        BY <2>14, <3>1 DEF Release, CountSurplus
      <3> QED
        BY <2>14, <3>2 DEF Release
    <2>15. ASSUME NEW r \in Request, ReleaseRaises(r) PROVE CalmInv'
      BY <2>15 DEF ReleaseRaises, Fail
    <2>16. ASSUME NEW r \in Request, Disconnect(r) PROVE CalmInv'
      BY <2>16 DEF Disconnect
    <2>17. CASE UNCHANGED vars
      BY <2>17 DEF vars
    <2> QED
      BY <2>3, <2>4, <2>5, <2>6, <2>7, <2>8, <2>9, <2>10, <2>11, <2>12, <2>13,
         <2>14, <2>15, <2>16, <2>17 DEF Next, Serve
  <1>3. CalmInv /\ OvershootAccounted => NoOvershoot
    <2> SUFFICES ASSUME CalmInv, OvershootAccounted PROVE NoOvershoot
      OBVIOUS
    <2>1. MaxQueries + surplus = MaxQueries
      BY QuotaAssumption DEF CalmInv
    <2> QED
      BY <2>1 DEF OvershootAccounted, NoOvershoot
  <1> QED
    BY <1>1, <1>2, <1>3, QuotaInvariant, OvershootIsAccounted, PTL DEF Spec
=============================================================================
