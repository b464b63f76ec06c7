------------------------------ MODULE ChatQuota ------------------------------
(***************************************************************************)
(* The monthly query quota of one company: its row of the subscriptions    *)
(* table (app/metering/service.py) and the chat requests of the API        *)
(* process that reserve a query from it and give it back                   *)
(* (app/retrieval/router.py).                                              *)
(*                                                                         *)
(* Each SQL statement is one atomic step, each await point of a handler a  *)
(* place where other requests run.  What a statement returns and what the  *)
(* cache, the retriever and the provider answer is nondeterministic.       *)
(***************************************************************************)
EXTENDS Integers, FiniteSets

CONSTANTS
    Request,      \* the chat requests, each made once
    Kinds,        \* the endpoints in use: "chat", "stream"
    Limited,      \* FALSE for a plan whose max_queries is NULL
    MaxQueries,   \* plan_limits.max_queries of the company's plan
    Failures,     \* what may fail: "release", "disconnect", "crash"
    MaxMonth,     \* bound: the clock's last month
    MaxFaults     \* bound: how many failures

ASSUME QuotaAssumption ==
    /\ IsFiniteSet(Request)
    /\ Kinds \subseteq {"chat", "stream"}
    /\ Limited \in BOOLEAN
    /\ MaxQueries \in Nat \ {0}
    /\ Failures \subseteq {"release", "disconnect", "crash"}
    /\ MaxMonth \in Nat
    /\ MaxFaults \in Nat

VARIABLES
    open,      \* the company has a row in subscriptions
    used,      \* queries_used_this_month
    resetAt,   \* date_trunc('month', queries_reset_at)
    month,     \* date_trunc('month', now())
    pc,        \* where each request is
    kind,      \* which endpoint it called
    retried,   \* requests whose reserve_query runs with _open_if_missing=False
    holding,   \* requests whose reservation has not been given back
    called,    \* requests whose LLM call started
    faults,    \* failures so far
    period,    \* history: the month a request's reservation was counted in
    surplus    \* history: give-backs this month that freed no query of it

vars == <<open, used, resetAt, month, pc, kind, retried, holding, called,
          faults, period, surplus>>

row    == <<open, used, resetAt>>
ghosts == <<period, surplus>>

Final   == {"done", "rejected", "failed", "gone"}
Serving == {"cache", "retrieve", "hit", "empty", "error", "llm", "save"}
Control == {"idle", "reserve", "lookup", "open"} \cup Serving \cup Final

Init ==
    /\ open \in BOOLEAN
    /\ used = 0
    /\ resetAt = 0
    /\ month = 0
    /\ pc = [r \in Request |-> "idle"]
    /\ kind = [r \in Request |-> "chat"]
    /\ retried = {}
    /\ holding = {}
    /\ called = {}
    /\ faults = 0
    /\ period = [r \in Request |-> 0]
    /\ surplus = 0

Goto(r, label) == pc' = [pc EXCEPT ![r] = label]

RolledOver == month > resetAt
\* Mutant: an off-by-one in the UPDATE's WHERE clause.
UnderLimitOffByOne == Limited => used <= MaxQueries

UnderLimit == Limited => used < MaxQueries

Fail(what) ==
    /\ what \in Failures
    /\ faults < MaxFaults
    /\ faults' = faults + 1

-----------------------------------------------------------------------------
(* The subscription row.                                                   *)

\* INSERT ... ON CONFLICT DO NOTHING: the new row starts this month at zero.
InsertSubscription ==
    /\ open' = TRUE
    /\ IF open THEN UNCHANGED <<used, resetAt, surplus>>
               ELSE used' = 0 /\ resetAt' = month /\ surplus' = 0

\* The registration hook and the usage report open the row.
OpenSubscription ==
    /\ ~open
    /\ InsertSubscription
    /\ UNCHANGED <<month, pc, kind, retried, holding, called, faults, period>>

\* The usage report rolls the counter over first.
ResetIfNewMonth ==
    /\ open
    /\ RolledOver
    /\ used' = 0
    /\ resetAt' = month
    /\ surplus' = 0
    /\ UNCHANGED <<open, month, pc, kind, retried, holding, called, faults,
                   period>>

MonthEnds ==
    /\ month < MaxMonth
    /\ month' = month + 1
    /\ UNCHANGED <<row, pc, kind, retried, holding, called, faults, ghosts>>

\* Mutant: the UPDATE matches a rolled-over row only.
GiveBackStaleOnly == used' = IF open /\ RolledOver /\ used > 0 THEN used - 1 ELSE used

\* GREATEST(0, used - 1), whatever month the reservation was made in.
GiveBack == used' = IF open /\ used > 0 THEN used - 1 ELSE used

-----------------------------------------------------------------------------
(* reserve_query.                                                          *)

Arrive(r) ==
    /\ pc[r] = "idle"
    /\ \E k \in Kinds : kind' = [kind EXCEPT ![r] = k]
    /\ Goto(r, "reserve")
    /\ UNCHANGED <<row, month, retried, holding, called, faults, ghosts>>

\* The single UPDATE matched the row: count one query, in the row's month.
ReserveQuery(r) ==
    /\ pc[r] = "reserve"
    /\ open
    /\ RolledOver \/ UnderLimit
    /\ IF RolledOver THEN used' = 1 /\ resetAt' = month /\ surplus' = 0
                     ELSE used' = used + 1 /\ UNCHANGED <<resetAt, surplus>>
    /\ period' = [period EXCEPT ![r] = resetAt']
    /\ holding' = holding \cup {r}
    /\ Goto(r, "cache")
    /\ UNCHANGED <<open, month, kind, retried, called, faults>>

\* It matched nothing: no row, or the row is at its limit.
ReserveMisses(r) ==
    /\ pc[r] = "reserve"
    /\ ~(open /\ (RolledOver \/ UnderLimit))
    /\ Goto(r, "lookup")
    /\ UNCHANGED <<row, month, kind, retried, holding, called, faults, period,
                   surplus>>

\* The follow-up SELECT tells the two cases apart.
LookupSubscription(r) ==
    /\ pc[r] = "lookup"
    /\ Goto(r, IF open THEN "rejected"
               ELSE IF r \notin retried THEN "open" ELSE "failed")
    /\ UNCHANGED <<row, month, kind, retried, holding, called, faults, ghosts>>

OpenAndRetry(r) ==
    /\ pc[r] = "open"
    /\ InsertSubscription
    /\ retried' = retried \cup {r}
    /\ Goto(r, "reserve")
    /\ UNCHANGED <<month, kind, holding, called, faults, period>>

-----------------------------------------------------------------------------
(* The handlers, after the reservation.                                    *)

\* get_cached swallows its errors and skip_cache skips it: both are a miss.
ReadCache(r) ==
    /\ pc[r] = "cache"
    /\ \E label \in {"hit", "retrieve"} : Goto(r, label)
    /\ UNCHANGED <<row, month, kind, retried, holding, called, faults, ghosts>>

\* Mutant: no context answers at once, without the give-back.
RetrieveForgetsRelease(r) ==
    /\ pc[r] = "retrieve"
    /\ \/ Goto(r, "llm") /\ called' = called \cup {r}
       \/ Goto(r, "done") /\ UNCHANGED called
       \/ Goto(r, "error") /\ UNCHANGED called
    /\ UNCHANGED <<row, month, kind, retried, holding, faults, ghosts>>

\* Retrieval finds context (the LLM call starts), finds none, or raises.
Retrieve(r) ==
    /\ pc[r] = "retrieve"
    /\ \/ Goto(r, "llm") /\ called' = called \cup {r}
       \/ Goto(r, "empty") /\ UNCHANGED called
       \/ Goto(r, "error") /\ UNCHANGED called
    /\ UNCHANGED <<row, month, kind, retried, holding, faults, ghosts>>

\* A failed call is given back by /chat and stays counted by /chat/stream.
CallLLM(r) ==
    /\ pc[r] = "llm"
    /\ \/ Goto(r, "save")
       \/ Goto(r, IF kind[r] = "chat" THEN "error" ELSE "done")
    /\ UNCHANGED <<row, month, kind, retried, holding, called, faults, ghosts>>

\* History, audit and set_cached, or an exception in them: neither endpoint
\* touches the quota again.
SaveAnswer(r) ==
    /\ pc[r] = "save"
    /\ Goto(r, "done")
    /\ UNCHANGED <<row, month, kind, retried, holding, called, faults, ghosts>>

\* Bookkeeping of a give-back by r: it is a surplus one when it lowers the
\* counter although r holds no query of the row's month that no LLM call used.
CountSurplus(r) ==
    surplus' = IF /\ used' < used
                  /\ period[r] # resetAt \/ r \notin holding \/ r \in called
               THEN surplus + 1 ELSE surplus

\* release_query succeeds.  The three call sites are a cache hit, no context,
\* and the outer exception handler, which then answers with the error.
Release(r) ==
    /\ pc[r] \in {"hit", "empty", "error"}
    /\ GiveBack
    /\ CountSurplus(r)
    /\ holding' = holding \ {r}
    /\ Goto(r, "done")
    /\ UNCHANGED <<open, resetAt, month, kind, retried, called, faults, period>>

\* release_query raises, before or after its UPDATE committed.  The outer
\* handler then releases again; raised from there it ends the request.
ReleaseRaises(r) ==
    /\ pc[r] \in {"hit", "empty", "error"}
    /\ Fail("release")
    /\ \/ GiveBack /\ CountSurplus(r) /\ holding' = holding \ {r}
       \/ UNCHANGED <<used, surplus, holding>>
    /\ Goto(r, IF pc[r] = "error" THEN "failed" ELSE "error")
    /\ UNCHANGED <<open, resetAt, month, kind, retried, called, period>>

\* The client of a stream goes away: the response task is cancelled, and
\* CancelledError passes the generator's "except Exception".
Disconnect(r) ==
    /\ kind[r] = "stream"
    /\ pc[r] \in Serving
    /\ Fail("disconnect")
    /\ Goto(r, "gone")
    /\ UNCHANGED <<row, month, kind, retried, holding, called, ghosts>>

\* The API process dies with every request it was serving.
Crash ==
    /\ Fail("crash")
    /\ pc' = [r \in Request |->
                IF pc[r] \in Final \cup {"idle"} THEN pc[r] ELSE "gone"]
    /\ UNCHANGED <<row, month, kind, retried, holding, called, ghosts>>

-----------------------------------------------------------------------------
Serve(r) ==
    \/ ReserveQuery(r)
    \/ ReserveMisses(r)
    \/ LookupSubscription(r)
    \/ OpenAndRetry(r)
    \/ ReadCache(r)
    \/ Retrieve(r)
    \/ CallLLM(r)
    \/ SaveAnswer(r)
    \/ Release(r)

Next ==
    \/ OpenSubscription
    \/ ResetIfNewMonth
    \/ MonthEnds
    \/ \E r \in Request : Arrive(r) \/ Serve(r) \/ ReleaseRaises(r) \/ Disconnect(r)
    \/ Crash

Spec == Init /\ [][Next]_vars

-----------------------------------------------------------------------------
(* Properties.                                                             *)

TypeOK ==
    /\ open \in BOOLEAN
    /\ used \in Nat
    /\ resetAt \in 0..MaxMonth
    /\ month \in 0..MaxMonth
    /\ pc \in [Request -> Control]
    /\ kind \in [Request -> {"chat", "stream"}]
    /\ retried \subseteq Request
    /\ holding \subseteq Request
    /\ called \subseteq Request
    /\ faults \in 0..MaxFaults
    /\ period \in [Request -> 0..MaxMonth]
    /\ surplus \in Nat

\* The queries the row's month owes: reservations counted in it that are
\* still held, or that led to an LLM call.
Current  == {r \in Request : period[r] = resetAt}
Consumed == Current \cap (holding \cup called)

\* However reservations, give-backs, month changes, failures and crashes
\* interleave, the counter of a limited plan never passes the plan's limit.
CounterWithinPlan == Limited => used <= MaxQueries

\* The counter never loses a query of the current month except through a
\* surplus give-back.
CounterCovers == Cardinality(Consumed) <= used + surplus

\* Hence LLM calls of a month exceed the plan by at most the surplus
\* give-backs of that month, which are the only way to overshoot.
OvershootAccounted ==
    Limited => Cardinality(Current \cap called) <= MaxQueries + surplus

\* A request whose handler ran to its end holds a query only if it reached
\* the LLM, and one that was refused holds none.
EveryExitSettles ==
    \A r \in Request :
        /\ pc[r] = "done" /\ r \in holding => r \in called
        /\ pc[r] = "rejected" => r \notin holding

\* Strict reading of reserve_query's docstring ("so concurrent requests can't
\* overshoot"): a month's LLM calls stay within the plan.  Without a month
\* change, a failing provider behind /chat or a failing give-back it holds.
NoOvershoot == Limited => Cardinality(Current \cap called) <= MaxQueries

\* While the month has seen no surplus give-back, the counter is exactly what
\* its requests hold or have spent, disconnects and crashes included: nobody is
\* refused for a query that has been given back.
CounterExact == surplus = 0 => used = Cardinality(Consumed)
=============================================================================
