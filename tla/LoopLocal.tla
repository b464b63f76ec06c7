------------------------------ MODULE LoopLocal ------------------------------
(***************************************************************************)
(* One pool, driver or client per event loop (app/shared/loop_local.py,    *)
(* with the holders of db.py, neo4j.py, cache.py and the OpenAI clients).  *)
(* A worker process runs one loop after another, a fresh one for each task *)
(* (run_in_fresh_loop); the API's single loop, whose lifespan closes three *)
(* of the holders by name, is not modelled.  Coroutines of a loop take     *)
(* turns only where they await: at the lock, at the factory of a resource, *)
(* at its closer, and while they use what they got.                        *)
(***************************************************************************)
EXTENDS Integers

CONSTANTS
    Holder,      \* the module-level holders
    Locked,      \* those that are LoopLocal; the others are per_loop
    Coroutine,   \* the coroutines of each loop
    Nobody,
    MaxLoops,    \* bound: loops run
    MaxItems,    \* bound: resources created
    MaxFaults    \* bound: cancellations, failing closers, loops left early

Loops == 1 .. MaxLoops
Items == 1 .. MaxItems

ASSUME LoopLocalAssumption ==
    /\ Holder # {} /\ Locked \subseteq Holder
    /\ Nobody \notin Coroutine
    /\ MaxLoops \in Nat \ {0} /\ MaxItems \in Nat /\ MaxFaults \in Nat

VARIABLES
    loop, phase, \* the running loop: "running", "closing" or "closed"
    items,       \* _items of each holder, by loop; 0 for none
    lock,        \* _locks of each holder, by loop
    pc, want,    \* what each coroutine awaits, and of which holder
    held,        \* the resource it uses
    made,        \* resources created so far; they are numbered
    of,          \* the holder and the loop of each
    open,        \* those not closed
    toClose,     \* holders close_loop_resources has not come to
    closing,     \* the resource whose closer is awaited
    faults,
    popped,      \* history: resources detached from their holder
    broken,      \* history: resources whose closer failed
    left         \* history: loops whose main coroutine left others running

vars == <<loop, phase, items, lock, pc, want, held, made, of, open, toClose, closing,
          faults, popped, broken, left>>

Init ==
    /\ loop = 1 /\ phase = "running"
    /\ items = [k \in Holder \X Loops |-> 0]
    /\ lock = [k \in Holder \X Loops |-> Nobody]
    /\ pc = [c \in Coroutine |-> "idle"]
    /\ want \in [Coroutine -> Holder]
    /\ held = [c \in Coroutine |-> 0]
    /\ made = 0
    /\ of = [i \in Items |-> <<CHOOSE h \in Holder : TRUE, 1>>]
    /\ open = {}
    /\ toClose = {} /\ closing = 0
    /\ faults = 0
    /\ popped = {} /\ broken = {} /\ left = {}

closers == <<toClose, closing, popped, broken>>

\* Mutant: a plain module-level singleton.
KeyOfNone(h) == <<h, 1>>

Key(h) == <<h, loop>>

Goto(c, to) == pc' = [pc EXCEPT ![c] = to]

\* The factory's result is stored and used.
Store(c, h) ==
    /\ made < MaxItems
    /\ made' = made + 1
    /\ of' = [of EXCEPT ![made + 1] = <<h, loop>>]
    /\ open' = open \cup {made + 1}
    /\ items' = [items EXCEPT ![Key(h)] = made + 1]
    /\ held' = [held EXCEPT ![c] = made + 1]
    /\ Goto(c, "using")

Fault == faults < MaxFaults /\ faults' = faults + 1

-----------------------------------------------------------------------------
(* get().                                                                  *)

\* A coroutine starts to get while its loop's main coroutine runs, or after
\* it when it was left behind.
Asks(c) ==
    /\ pc[c] = "idle"
    /\ phase = "running" \/ (phase = "closing" /\ loop \in left)

GetExisting(c) ==
    /\ Asks(c) /\ items[Key(want[c])] # 0
    /\ held' = [held EXCEPT ![c] = items[Key(want[c])]]
    /\ Goto(c, "using")
    /\ UNCHANGED <<loop, phase, items, lock, want, made, of, open, closers, faults, left>>

\* per_loop makes a missing one at once.
GetPerLoop(c) ==
    /\ Asks(c) /\ items[Key(want[c])] = 0 /\ want[c] \notin Locked
    /\ Store(c, want[c])
    /\ UNCHANGED <<loop, phase, lock, want, closers, faults, left>>

\* A lock that is free and that nobody waits for is taken without awaiting,
\* and the second look finds what the first did.
GetLock(c) ==
    /\ Asks(c) /\ items[Key(want[c])] = 0 /\ want[c] \in Locked
    /\ IF /\ lock[Key(want[c])] = Nobody
          /\ \A d \in Coroutine : ~(pc[d] = "wait" /\ want[d] = want[c])
       THEN Goto(c, "create") /\ lock' = [lock EXCEPT ![Key(want[c])] = c]
       ELSE Goto(c, "wait") /\ UNCHANGED lock
    /\ UNCHANGED <<loop, phase, items, want, held, made, of, open, closers, faults, left>>

\* Mutant: no second look inside the lock.
AcquireAndCreate(c) ==
    /\ pc[c] = "wait" /\ lock[Key(want[c])] = Nobody
    /\ Goto(c, "create")
    /\ lock' = [lock EXCEPT ![Key(want[c])] = c]
    /\ UNCHANGED <<loop, phase, items, want, held, made, of, open, closers, faults, left>>

\* The lock is passed on; what was created meanwhile is used.
Acquire(c) ==
    LET k == Key(want[c]) IN
    /\ pc[c] = "wait" /\ lock[k] = Nobody
    /\ \/ /\ items[k] # 0
          /\ held' = [held EXCEPT ![c] = items[k]]
          /\ Goto(c, "using") /\ UNCHANGED lock
       \/ /\ items[k] = 0
          /\ Goto(c, "create") /\ lock' = [lock EXCEPT ![k] = c] /\ UNCHANGED held
    /\ UNCHANGED <<loop, phase, items, want, made, of, open, closers, faults, left>>

Created(c) ==
    /\ pc[c] = "create"
    /\ Store(c, want[c])
    /\ lock' = [lock EXCEPT ![Key(want[c])] = Nobody]
    /\ UNCHANGED <<loop, phase, want, closers, faults, left>>

\* Mutant: acquire and release without try or async with.
CreateFailsLocked(c) ==
    /\ pc[c] = "create"
    /\ Goto(c, "ended")
    /\ UNCHANGED <<loop, phase, items, lock, want, held, made, of, open, closers, faults, left>>

\* The server cannot be reached: the caller gets the exception.
CreateFails(c) ==
    /\ pc[c] = "create"
    /\ Goto(c, "ended")
    /\ lock' = [lock EXCEPT ![Key(want[c])] = Nobody]
    /\ UNCHANGED <<loop, phase, items, want, held, made, of, open, closers, faults, left>>

\* Done with it; the coroutine ends or gets another.
Use(c) ==
    /\ pc[c] = "using"
    /\ held' = [held EXCEPT ![c] = 0]
    /\ \/ Goto(c, "ended") /\ UNCHANGED want
       \/ Goto(c, "idle") /\ \E h \in Holder : want' = [want EXCEPT ![c] = h]
    /\ UNCHANGED <<loop, phase, items, lock, made, of, open, closers, faults, left>>

\* A cancelled coroutine leaves the lock to the next.
Cancel(c) ==
    /\ pc[c] \in {"wait", "create", "using"}
    /\ Fault
    /\ Goto(c, "ended")
    /\ held' = [held EXCEPT ![c] = 0]
    /\ lock' = IF pc[c] = "create" THEN [lock EXCEPT ![Key(want[c])] = Nobody] ELSE lock
    /\ UNCHANGED <<loop, phase, items, want, made, of, open, closers, left>>

-----------------------------------------------------------------------------
(* The end of a loop.                                                      *)

\* Mutant: coroutines are started without being awaited.
FinishEarly ==
    /\ phase = "running"
    /\ phase' = "closing" /\ toClose' = Holder
    /\ UNCHANGED <<left, faults>>
    /\ UNCHANGED <<loop, items, lock, pc, want, held, made, of, open, closing, popped, broken>>

\* The main coroutine returns or raises: whatever it awaited has ended, or,
\* when one of a gather raised, goes on behind it.
Finish ==
    /\ phase = "running"
    /\ phase' = "closing" /\ toClose' = Holder
    /\ \/ (\A c \in Coroutine : pc[c] \in {"idle", "ended"}) /\ UNCHANGED <<left, faults>>
       \/ Fault /\ left' = left \cup {loop}
    /\ UNCHANGED <<loop, items, lock, pc, want, held, made, of, open, closing, popped, broken>>

\* The order of the holders is the order of import: any.
Pop(h) ==
    /\ phase = "closing" /\ closing = 0 /\ h \in toClose
    /\ toClose' = toClose \ {h}
    /\ closing' = items[Key(h)]
    /\ popped' = popped \cup ({items[Key(h)]} \ {0})
    /\ items' = [items EXCEPT ![Key(h)] = 0]
    /\ UNCHANGED <<loop, phase, lock, pc, want, held, made, of, open, faults, broken, left>>

Closed ==
    /\ closing # 0
    /\ open' = open \ {closing}
    /\ closing' = 0
    /\ UNCHANGED <<loop, phase, items, lock, pc, want, held, made, of, toClose, faults,
                   popped, broken, left>>

\* Mutant: the exception of one closer keeps the others from running.
CloseFailsForAll ==
    /\ closing # 0 /\ Fault
    /\ broken' = broken \cup {closing}
    /\ closing' = 0 /\ toClose' = {}
    /\ UNCHANGED <<loop, phase, items, lock, pc, want, held, made, of, open, popped, left>>

\* A closer that raises is logged, and the next holder's turn comes.
CloseFails ==
    /\ closing # 0 /\ Fault
    /\ broken' = broken \cup {closing}
    /\ closing' = 0
    /\ UNCHANGED <<loop, phase, items, lock, pc, want, held, made, of, open, toClose,
                   popped, left>>

\* loop.close(): coroutines left behind are never resumed.
EndLoop ==
    /\ phase = "closing" /\ toClose = {} /\ closing = 0
    /\ phase' = "closed"
    /\ pc' = [c \in Coroutine |-> "ended"]
    /\ held' = [c \in Coroutine |-> 0]
    /\ UNCHANGED <<loop, items, lock, want, made, of, open, closers, faults, left>>

NewLoop ==
    /\ phase = "closed" /\ loop < MaxLoops
    /\ loop' = loop + 1 /\ phase' = "running"
    /\ pc' = [c \in Coroutine |-> "idle"]
    /\ want' \in [Coroutine -> Holder]
    /\ UNCHANGED <<items, lock, held, made, of, open, closers, faults, left>>

Next ==
    \/ \E c \in Coroutine :
          \/ GetExisting(c) \/ GetPerLoop(c) \/ GetLock(c) \/ Acquire(c)
          \/ Created(c) \/ CreateFails(c) \/ Use(c) \/ Cancel(c)
    \/ Finish \/ (\E h \in Holder : Pop(h)) \/ Closed \/ CloseFails
    \/ EndLoop \/ NewLoop

Spec == Init /\ [][Next]_vars

\* The loop resumes whatever is ready, a factory returns or raises (both have
\* timeouts), and what a coroutine got it is done with some day.
Fairness ==
    /\ \A c \in Coroutine : WF_vars(Acquire(c)) /\ WF_vars(Created(c) \/ CreateFails(c))
                            /\ WF_vars(Use(c))
    /\ WF_vars(Finish) /\ WF_vars(\E h \in Holder : Pop(h)) /\ WF_vars(Closed)
    /\ WF_vars(EndLoop)

FairSpec == Spec /\ Fairness

-----------------------------------------------------------------------------
\* Every variable has the type of what it stands for.
TypeOK ==
    /\ loop \in Loops /\ phase \in {"running", "closing", "closed"}
    /\ items \in [Holder \X Loops -> Items \cup {0}]
    /\ lock \in [Holder \X Loops -> Coroutine \cup {Nobody}]
    /\ pc \in [Coroutine -> {"idle", "wait", "create", "using", "ended"}]
    /\ want \in [Coroutine -> Holder]
    /\ held \in [Coroutine -> Items \cup {0}]
    /\ made \in Items \cup {0}
    /\ of \in [Items -> Holder \X Loops]
    /\ open \subseteq Items /\ popped \subseteq Items /\ broken \subseteq Items
    /\ toClose \subseteq Holder /\ closing \in Items \cup {0}
    /\ faults \in Nat
    /\ left \subseteq Loops

\* However many coroutines of a loop ask at once, they share one instance: a
\* holder makes a second one only after the loop's first was detached.
OneInstancePerLoop ==
    \A i, j \in 1 .. made : i # j /\ of[i] = of[j] => i \in popped \/ j \in popped

\* Nothing is used on a loop that did not create it, nor through a holder it
\* was not made for, whatever an earlier loop left behind.
UsedWhereMade ==
    \A c \in Coroutine : pc[c] = "using" => of[held[c]] = <<want[c], loop>>

\* Nothing is closed under a coroutine that uses it, unless the main coroutine
\* had left that one behind.
NotClosedInUse ==
    \A c \in Coroutine : pc[c] = "using" => held[c] \in open \/ loop \in left

\* Once a loop is closed so is all it created, but for a resource whose own
\* closer failed, and in loops that ended with coroutines still at work.
NothingLeftOpen ==
    \A i \in open :
        of[i][2] < loop \/ phase = "closed" => i \in broken \/ of[i][2] \in left

\* A coroutine that waits for the lock is served, whatever becomes of the one
\* that holds it.
EventuallyServed ==
    \A c \in Coroutine : pc[c] = "wait" ~> pc[c] # "wait"
=============================================================================
