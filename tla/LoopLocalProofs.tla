--------------------------- MODULE LoopLocalProofs ---------------------------
(***************************************************************************)
(* Proofs about LoopLocal: one instance per loop, never used elsewhere,    *)
(* not closed in use, and closed with its loop, for any number of holders, *)
(* coroutines and loops.                                                   *)
(***************************************************************************)
EXTENDS LoopLocal, TLAPS

(* A holder's instance is open and its own, and whatever was created is one *)
(* of these until it is detached.                                           *)
Kept ==
    /\ \A k \in Holder \X Loops :
          items[k] # 0 => items[k] \in ((1 .. made) \cap open) \ popped /\ of[items[k]] = k
    /\ \A i \in 1 .. made : i \in popped \/ items[of[i]] = i
    /\ popped \subseteq 1 .. made /\ open \subseteq 1 .. made
    /\ closing # 0 => closing \in popped

(* Who is at the factory has the lock, and there is no instance yet; who    *)
(* uses one got it from this loop's holder.                                 *)
Creating(c) ==
    pc[c] = "create" =>
        want[c] \in Locked /\ lock[<<want[c], loop>>] = c /\ items[<<want[c], loop>>] = 0

Using(c) ==
    pc[c] = "using" =>
        /\ held[c] \in 1 .. made
        /\ of[held[c]] = <<want[c], loop>>
        /\ loop \notin left => items[<<want[c], loop>>] = held[c]

AtRest ==
    /\ phase = "closing" /\ loop \notin left =>
          \A c \in Coroutine : pc[c] \in {"idle", "ended"}
    /\ phase = "closed" => \A c \in Coroutine : pc[c] = "ended"

\* A coroutine that waits for the lock wants a holder that has one.
Waiting(c) == pc[c] = "wait" => want[c] \in Locked

Working ==
    /\ \A c \in Coroutine : Waiting(c) /\ Creating(c) /\ Using(c)
    /\ AtRest

(* What closing has come to is gone, and detached is closed, being closed,  *)
(* or broken.                                                               *)
Gone ==
    /\ \A h \in Holder, l \in Loops :
          l \notin left /\ (l < loop \/ (l = loop /\ phase = "closed")
                              \/ (l = loop /\ phase = "closing" /\ h \notin toClose))
              => items[<<h, l>>] = 0
    /\ \A h \in Holder, l \in Loops : loop < l => items[<<h, l>>] = 0
    /\ \A i \in open \cap popped : i = closing \/ i \in broken
    /\ closing # 0 => phase = "closing" /\ of[closing][2] = loop

IInv == TypeOK /\ Kept /\ Working /\ Gone

-----------------------------------------------------------------------------
LEMMA InitIInv == Init => IInv
<1> SUFFICES ASSUME Init PROVE IInv
  OBVIOUS
<1> USE LoopLocalAssumption DEF Init
<1>1. TypeOK
  <2>1. (CHOOSE h \in Holder : TRUE) \in Holder
    OBVIOUS
  <2>2. 1 \in Loops
    BY DEF Loops
  <2>3. of \in [Items -> Holder \X Loops]
    BY <2>1, <2>2
  <2> QED
    BY <2>2, <2>3 DEF TypeOK
<1>2. Kept
  BY DEF Kept
<1>3. Working
  BY DEF Working, Waiting, Creating, Using, AtRest
<1>4. Gone
  BY DEF Gone, Loops
<1> QED
  BY <1>1, <1>2, <1>3, <1>4 DEF IInv
-----------------------------------------------------------------------------
LEMMA TypeStep == TypeOK /\ [Next]_vars => TypeOK'
<1> SUFFICES ASSUME TypeOK, [Next]_vars PROVE TypeOK'
  OBVIOUS
<1> USE LoopLocalAssumption DEF TypeOK, Goto, Key, closers, Fault, Loops, Items
<1>1. ASSUME NEW c \in Coroutine, GetExisting(c) PROVE TypeOK'
  BY <1>1 DEF GetExisting, Asks
<1>2. ASSUME NEW c \in Coroutine, GetPerLoop(c) PROVE TypeOK'
  BY <1>2 DEF GetPerLoop, Asks, Store
<1>3. ASSUME NEW c \in Coroutine, GetLock(c) PROVE TypeOK'
  BY <1>3 DEF GetLock, Asks
<1>4. ASSUME NEW c \in Coroutine, Acquire(c) PROVE TypeOK'
  <2>1. CASE items[Key(want[c])] # 0
    BY <1>4, <2>1 DEF Acquire
  <2>2. CASE items[Key(want[c])] = 0
    <3>1. pc' = [pc EXCEPT ![c] = "create"] /\ lock' = [lock EXCEPT ![Key(want[c])] = c]
      BY <1>4, <2>2 DEF Acquire
    <3>2. UNCHANGED <<loop, phase, items, want, held, made, of, open, toClose, closing,
                      popped, broken, faults, left>>
      BY <1>4, <2>2 DEF Acquire
    <3> QED
      BY <3>1, <3>2
  <2> QED
    BY <2>1, <2>2
<1>5. ASSUME NEW c \in Coroutine, Created(c) PROVE TypeOK'
  BY <1>5 DEF Created, Store
<1>6. ASSUME NEW c \in Coroutine, CreateFails(c) PROVE TypeOK'
  BY <1>6 DEF CreateFails
<1>7. ASSUME NEW c \in Coroutine, Use(c) PROVE TypeOK'
  <2>1. CASE UNCHANGED want
    BY <1>7, <2>1 DEF Use
  <2>2. ASSUME NEW h \in Holder, want' = [want EXCEPT ![c] = h] PROVE TypeOK'
    BY <1>7, <2>2 DEF Use
  <2> QED
    BY <1>7, <2>1, <2>2 DEF Use
<1>8. ASSUME NEW c \in Coroutine, Cancel(c) PROVE TypeOK'
  BY <1>8 DEF Cancel
<1>9. CASE Finish
  <2>1. left' \subseteq Loops /\ faults' \in Nat
    <3>1. CASE UNCHANGED <<left, faults>>
      BY <3>1
    <3>2. CASE faults' = faults + 1 /\ left' = left \cup {loop}
      BY <3>2
    <3> QED
      BY <1>9, <3>1, <3>2 DEF Finish
  <2>2. phase' = "closing" /\ toClose' = Holder
    BY <1>9 DEF Finish
  <2>3. UNCHANGED <<loop, items, lock, pc, want, held, made, of, open, closing, popped,
                    broken>>
    BY <1>9 DEF Finish
  <2> QED
    BY <2>1, <2>2, <2>3
<1>10. ASSUME NEW h \in Holder, Pop(h) PROVE TypeOK'
  BY <1>10 DEF Pop
<1>11. CASE Closed
  BY <1>11 DEF Closed
<1>15. CASE CloseFails
  BY <1>15 DEF CloseFails
<1>12. CASE EndLoop
  BY <1>12 DEF EndLoop
<1>13. CASE NewLoop
  BY <1>13 DEF NewLoop
<1>14. CASE UNCHANGED vars
  BY <1>14 DEF vars
<1> QED
  BY <1>1, <1>2, <1>3, <1>4, <1>5, <1>6, <1>7, <1>8, <1>9, <1>10, <1>11, <1>12,
     <1>13, <1>14, <1>15 DEF Next

LEMMA KeptStep == TypeOK /\ Kept /\ Working /\ [Next]_vars => Kept'
<1> SUFFICES ASSUME TypeOK, Kept, Working, [Next]_vars PROVE Kept'
  OBVIOUS
<1> USE LoopLocalAssumption DEF TypeOK, Kept, Goto, Key, closers, Fault, Loops, Items
<1>1. ASSUME NEW c \in Coroutine, GetExisting(c) \/ GetLock(c) \/ Acquire(c)
      PROVE  Kept'
  <2> UNCHANGED <<items, of, made, open, popped, closing>>
    BY <1>1 DEF GetExisting, GetLock, Acquire
  <2> QED
    OBVIOUS
<1>2. ASSUME NEW h \in Holder, NEW c \in Coroutine, Store(c, h),
             items[<<h, loop>>] = 0, UNCHANGED <<popped, closing>>
      PROVE  Kept'
  <2>1. <<h, loop>> \in Holder \X Loops /\ made + 1 \in 1 .. MaxItems /\ made' = made + 1
    BY <1>2 DEF Store
  <2>2. /\ of' = [of EXCEPT ![made + 1] = <<h, loop>>]
        /\ items' = [items EXCEPT ![<<h, loop>>] = made + 1]
        /\ open' = open \cup {made + 1}
    BY <1>2 DEF Store
  <2>3. ASSUME NEW k \in Holder \X Loops, items'[k] # 0
        PROVE  items'[k] \in ((1 .. made') \cap open') \ popped' /\ of'[items'[k]] = k
    <3>1. CASE k = <<h, loop>>
      BY <1>2, <2>1, <2>2, <3>1
    <3>2. CASE k # <<h, loop>>
      BY <1>2, <2>1, <2>2, <2>3, <3>2
    <3> QED
      BY <3>1, <3>2
  <2>4. ASSUME NEW i \in 1 .. made' PROVE i \in popped' \/ items'[of'[i]] = i
    <3>1. CASE i = made + 1
      BY <2>1, <2>2, <3>1
    <3>2. CASE i \in 1 .. made
      <4>1. i \in popped \/ items[of[i]] = i
        BY <3>2
      <4>2. of'[i] = of[i] /\ of[i] \in Holder \X Loops
        BY <2>1, <2>2, <3>2
      <4>3. items[of[i]] = i => of[i] # <<h, loop>>
        <5>1. items[<<h, loop>>] = 0
          BY <1>2
        <5>2. i # 0
          BY <3>2
        <5> HIDE DEF TypeOK, Kept
        <5> QED
          BY <5>1, <5>2
      <4>4. popped' = popped
        BY <1>2
      <4> QED
        BY <2>2, <4>1, <4>2, <4>3, <4>4
    <3> QED
      BY <2>1, <2>4, <3>1, <3>2
  <2>5. /\ popped' \subseteq 1 .. made' /\ open' \subseteq 1 .. made'
        /\ closing' # 0 => closing' \in popped'
    BY <1>2, <2>1, <2>2
  <2> QED
    BY <2>3, <2>4, <2>5 DEF Kept
<1>3. ASSUME NEW c \in Coroutine, GetPerLoop(c) PROVE Kept'
  BY <1>2, <1>3 DEF GetPerLoop
<1>4. ASSUME NEW c \in Coroutine, Created(c) PROVE Kept'
  BY <1>2, <1>4 DEF Created, Working, Creating
<1>5. ASSUME NEW c \in Coroutine, CreateFails(c) \/ Use(c) \/ Cancel(c) PROVE Kept'
  <2> UNCHANGED <<items, of, made, open, popped, closing>>
    BY <1>5 DEF CreateFails, Use, Cancel
  <2> QED
    OBVIOUS
<1>6. CASE Finish \/ EndLoop \/ NewLoop \/ CloseFails
  <2>1. UNCHANGED <<items, of, made, open, popped>> /\ (closing' # 0 => closing' = closing)
    BY <1>6 DEF Finish, EndLoop, NewLoop, CloseFails
  <2> QED
    BY <2>1
<1>7. ASSUME NEW h \in Holder, Pop(h) PROVE Kept'
  <2>1. <<h, loop>> \in Holder \X Loops
    OBVIOUS
  <2>2. CASE items[<<h, loop>>] = 0
    <3>1. UNCHANGED <<of, made, open>> /\ closing' = 0 /\ popped' = popped
      BY <1>7, <2>2 DEF Pop
    <3>2. items' = items
      BY <1>7, <2>1, <2>2 DEF Pop
    <3> QED
      BY <3>1, <3>2
  <2>3. CASE items[<<h, loop>>] # 0
    <3> DEFINE x == items[<<h, loop>>]
    <3>1. x \in 1 .. made /\ x \notin popped /\ of[x] = <<h, loop>>
      BY <2>1, <2>3
    <3>2. popped' = popped \cup {x} /\ closing' = x
      BY <1>7, <2>3 DEF Pop
    <3>3. items' = [items EXCEPT ![<<h, loop>>] = 0] /\ UNCHANGED <<of, made, open>>
      BY <1>7 DEF Pop
    <3>4. ASSUME NEW k \in Holder \X Loops, items'[k] # 0
          PROVE  items'[k] \in ((1 .. made) \cap open) \ popped' /\ of[items'[k]] = k
      BY <2>1, <3>1, <3>2, <3>3, <3>4
    <3>5. ASSUME NEW i \in 1 .. made PROVE i \in popped' \/ items'[of[i]] = i
      <4>1. i \in popped \/ items[of[i]] = i
        OBVIOUS
      <4>2. of[i] \in Holder \X Loops
        OBVIOUS
      <4> QED
        BY <4>1, <4>2, <3>1, <3>2, <3>3, <2>1
    <3>6. popped' \subseteq 1 .. made' /\ open' \subseteq 1 .. made' /\ closing' \in popped'
      BY <3>1, <3>2, <3>3
    <3> QED
      BY <3>3, <3>4, <3>5, <3>6 DEF Kept
  <2> QED
    BY <2>2, <2>3
<1>8. CASE Closed
  BY <1>8 DEF Closed
<1>9. CASE UNCHANGED vars
  BY <1>9 DEF vars
<1> QED
  BY <1>1, <1>3, <1>4, <1>5, <1>6, <1>7, <1>8, <1>9 DEF Next

LEMMA WorkingStep == TypeOK /\ Kept /\ Working /\ Gone /\ [Next]_vars => Working'
<1> SUFFICES ASSUME TypeOK, Kept, Working, Gone, [Next]_vars PROVE Working'
  OBVIOUS
<1> USE LoopLocalAssumption
      DEF Goto, Key, closers, Fault, Waiting, Creating, Using, AtRest
<1>0. \A c \in Coroutine : <<want[c], loop>> \in Holder \X Loops
  BY DEF TypeOK
\* The lock is taken, by one that found it free and no instance.
<1>16. ASSUME NEW c \in Coroutine, want[c] \in Locked, items[<<want[c], loop>>] = 0,
              lock[<<want[c], loop>>] = Nobody,
              lock' = [lock EXCEPT ![<<want[c], loop>>] = c],
              pc' = [pc EXCEPT ![c] = "create"], UNCHANGED <<items, loop, want>>,
              NEW d \in Coroutine
       PROVE  Creating(d)'
  <2>1. CASE d = c
    <3>1. lock'[<<want[c], loop>>] = c
      BY <1>0, <1>16 DEF TypeOK
    <3> QED
      BY <1>16, <2>1, <3>1
  <2>2. CASE d # c
    <3>1. pc'[d] = pc[d] /\ Creating(d)
      BY <1>16, <2>2 DEF TypeOK, Working
    <3>2. pc[d] = "create" => <<want[d], loop>> # <<want[c], loop>>
      BY <1>16, <3>1
    <3>3. pc[d] = "create" => lock'[<<want[d], loop>>] = lock[<<want[d], loop>>]
      BY <1>0, <1>16, <3>2 DEF TypeOK
    <3> QED
      BY <1>16, <3>1, <3>3
  <2> QED
    BY <2>1, <2>2
\* What is stored is used by its creator; the others use other holders'.
<1>15. ASSUME NEW c \in Coroutine, Store(c, want[c]), items[<<want[c], loop>>] = 0,
              UNCHANGED <<loop, want, left>>, NEW d \in Coroutine
       PROVE  Using(d)'
  <2> DEFINE k == <<want[c], loop>>
  <2>1. /\ held' = [held EXCEPT ![c] = made + 1] /\ pc' = [pc EXCEPT ![c] = "using"]
        /\ items' = [items EXCEPT ![k] = made + 1] /\ of' = [of EXCEPT ![made + 1] = k]
        /\ made' = made + 1 /\ made + 1 \in Items
    BY <1>15 DEF Store, TypeOK, Items
  <2>2. k \in Holder \X Loops
    BY <1>0
  <2>3. CASE d = c
    <3>1. held'[c] = made + 1 /\ made + 1 \in 1 .. made'
      BY <2>1 DEF TypeOK, Items
    <3>2. of'[made + 1] = k
      BY <2>1 DEF TypeOK
    <3>3. items'[k] = made + 1
      BY <2>1, <2>2 DEF TypeOK
    <3>4. <<want'[c], loop'>> = k
      BY <1>15
    <3> HIDE DEF k
    <3> QED
      BY <2>3, <3>1, <3>2, <3>3, <3>4
  <2>4. CASE d # c
    <3>1. pc'[d] = pc[d] /\ held'[d] = held[d] /\ Using(d)
      BY <2>1, <2>4 DEF TypeOK, Working
    <3> SUFFICES ASSUME pc[d] = "using" PROVE Using(d)'
      BY <3>1
    <3>2. held[d] \in 1 .. made /\ held[d] \in 1 .. made' /\ of'[held[d]] = of[held[d]]
      BY <2>1, <3>1 DEF TypeOK, Items
    <3>3. ASSUME loop \notin left PROVE items'[<<want[d], loop>>] = held[d]
      <4>1. items[<<want[d], loop>>] = held[d] /\ held[d] # 0
        BY <3>1, <3>2, <3>3
      <4>2. <<want[d], loop>> # k
        BY <1>15, <4>1
      <4> QED
        BY <1>0, <2>1, <4>1, <4>2 DEF TypeOK
    <3>4. <<want'[d], loop'>> = <<want[d], loop>> /\ left' = left /\ loop' = loop
      BY <1>15
    <3> QED
      BY <3>1, <3>2, <3>3, <3>4
  <2> QED
    BY <2>3, <2>4
<1>1. ASSUME NEW c \in Coroutine, GetExisting(c) PROVE Working'
  <2> DEFINE x == items[<<want[c], loop>>]
  <2>a. pc' = [pc EXCEPT ![c] = "using"] /\ held' = [held EXCEPT ![c] = x] /\ x # 0
    BY <1>1 DEF GetExisting
  <2>b. UNCHANGED <<loop, items, lock, want, made, of, left>>
    BY <1>1 DEF GetExisting
  <2>c. x \in 1 .. made /\ of[x] = <<want[c], loop>>
    BY <1>0, <2>a DEF Kept
  <2> HIDE DEF x
  <2>1. ASSUME NEW d \in Coroutine PROVE Waiting(d)'
    BY <2>a, <2>b DEF Working, TypeOK
  <2>2. ASSUME NEW d \in Coroutine PROVE Creating(d)'
    BY <2>a, <2>b DEF Working, TypeOK
  <2>3. ASSUME NEW d \in Coroutine PROVE Using(d)'
    BY <2>a, <2>b, <2>c DEF Working, TypeOK, x
  <2>4. AtRest'
    BY <1>0, <1>1 DEF GetExisting, Asks, Working, TypeOK, Kept
  <2> QED
    BY <2>1, <2>2, <2>3, <2>4 DEF Working
<1>2. ASSUME NEW c \in Coroutine, GetPerLoop(c) PROVE Working'
  <2>a. /\ pc' = [pc EXCEPT ![c] = "using"] /\ held' = [held EXCEPT ![c] = made + 1]
        /\ items' = [items EXCEPT ![<<want[c], loop>>] = made + 1]
        /\ made' = made + 1 /\ made + 1 \in Items
        /\ of' = [of EXCEPT ![made + 1] = <<want[c], loop>>]
    BY <1>2 DEF GetPerLoop, Store, TypeOK, Items
  <2>b. UNCHANGED <<loop, lock, want, left>> /\ want[c] \notin Locked
    BY <1>2 DEF GetPerLoop
  <2>c. items[<<want[c], loop>>] = 0
    BY <1>2 DEF GetPerLoop
  <2>1. ASSUME NEW d \in Coroutine PROVE Waiting(d)'
    BY <2>a, <2>b DEF Working, TypeOK
  <2>2. ASSUME NEW d \in Coroutine PROVE Creating(d)'
    BY <1>0, <2>a, <2>b DEF Working, TypeOK
  <2>3. ASSUME NEW d \in Coroutine PROVE Using(d)'
    BY <2>b, <2>c, <1>2, <1>15 DEF GetPerLoop
  <2>4. AtRest'
    BY <1>0, <1>2 DEF GetPerLoop, Store, Asks, Working, TypeOK, Kept
  <2> QED
    BY <2>1, <2>2, <2>3, <2>4 DEF Working
<1>3. ASSUME NEW c \in Coroutine, GetLock(c) PROVE Working'
  <2>1. ASSUME NEW d \in Coroutine PROVE Waiting(d)'
    BY <1>0, <1>3 DEF GetLock, Asks, Working, TypeOK
  <2>2. ASSUME NEW d \in Coroutine PROVE Creating(d)'
    <3>a. UNCHANGED <<items, loop, want>>
      BY <1>3 DEF GetLock
    <3>1. CASE pc' = [pc EXCEPT ![c] = "wait"] /\ UNCHANGED lock
      BY <3>a, <3>1 DEF Working, TypeOK
    <3>2. CASE /\ pc' = [pc EXCEPT ![c] = "create"] /\ lock[<<want[c], loop>>] = Nobody
               /\ lock' = [lock EXCEPT ![<<want[c], loop>>] = c]
      <4>1. want[c] \in Locked /\ items[<<want[c], loop>>] = 0
        BY <1>3 DEF GetLock
      <4> QED
        BY <1>16, <3>a, <3>2, <4>1
    <3> QED
      BY <1>3, <3>1, <3>2 DEF GetLock
  <2>3. ASSUME NEW d \in Coroutine PROVE Using(d)'
    BY <1>0, <1>3 DEF GetLock, Asks, Working, TypeOK
  <2>4. AtRest'
    BY <1>0, <1>3 DEF GetLock, Asks, Working, TypeOK
  <2> QED
    BY <2>1, <2>2, <2>3, <2>4 DEF Working
<1>4. ASSUME NEW c \in Coroutine, Acquire(c) PROVE Working'
  <2> DEFINE k == <<want[c], loop>>
  <2>a. UNCHANGED <<loop, phase, items, want, made, of, left>> /\ pc[c] = "wait"
    BY <1>4 DEF Acquire
  <2>b. k \in Holder \X Loops /\ want[c] \in Locked /\ lock[k] = Nobody
    BY <1>0, <1>4 DEF Acquire, Working
  <2>1. CASE /\ items[k] # 0 /\ held' = [held EXCEPT ![c] = items[k]]
             /\ pc' = [pc EXCEPT ![c] = "using"] /\ UNCHANGED lock
    <3>c. items[k] \in 1 .. made /\ of[items[k]] = k
      BY <2>b, <2>1 DEF Kept
    <3>1. ASSUME NEW d \in Coroutine PROVE Waiting(d)' /\ Creating(d)'
      BY <2>a, <2>1 DEF Working, TypeOK
    <3>2. ASSUME NEW d \in Coroutine PROVE Using(d)'
      <4>1. CASE d = c
        <5>1. pc'[c] = "using" /\ held'[c] = items[k]
          BY <2>1 DEF TypeOK
        <5> HIDE DEF k
        <5> QED
          BY <2>a, <3>c, <4>1, <5>1 DEF k
      <4>2. CASE d # c
        BY <2>a, <2>1, <4>2 DEF Working, TypeOK
      <4> QED
        BY <4>1, <4>2
    <3>3. AtRest'
      BY <2>a, <2>1 DEF Working, TypeOK
    <3> QED
      BY <3>1, <3>2, <3>3 DEF Working
  <2>2. CASE /\ items[k] = 0 /\ lock' = [lock EXCEPT ![k] = c]
             /\ pc' = [pc EXCEPT ![c] = "create"] /\ UNCHANGED held
    <3>1. ASSUME NEW d \in Coroutine PROVE Waiting(d)' /\ Using(d)'
      BY <2>a, <2>2 DEF Working, TypeOK
    <3>2. ASSUME NEW d \in Coroutine PROVE Creating(d)'
      BY <1>16, <2>a, <2>b, <2>2
    <3>3. AtRest'
      BY <2>a, <2>2 DEF Working, TypeOK
    <3> QED
      BY <3>1, <3>2, <3>3 DEF Working
  <2> QED
    BY <1>4, <2>1, <2>2 DEF Acquire
<1>5. ASSUME NEW c \in Coroutine, Created(c) PROVE Working'
  <2> DEFINE k == <<want[c], loop>>
  <2>a. /\ pc' = [pc EXCEPT ![c] = "using"] /\ held' = [held EXCEPT ![c] = made + 1]
        /\ items' = [items EXCEPT ![k] = made + 1] /\ lock' = [lock EXCEPT ![k] = Nobody]
        /\ made' = made + 1 /\ made + 1 \in Items
        /\ of' = [of EXCEPT ![made + 1] = k]
    BY <1>5 DEF Created, Store, TypeOK, Items
  <2>b. UNCHANGED <<loop, phase, want, left>> /\ k \in Holder \X Loops
    BY <1>0, <1>5 DEF Created
  <2>c. pc[c] = "create" /\ lock[k] = c /\ items[k] = 0
    BY <1>5 DEF Created, Working
  <2>1. ASSUME NEW d \in Coroutine PROVE Waiting(d)'
    BY <2>a, <2>b DEF Working, TypeOK
  <2>2. ASSUME NEW d \in Coroutine PROVE Creating(d)'
    <3>1. CASE d = c
      BY <2>a, <3>1 DEF TypeOK
    <3>2. CASE d # c
      <4>1. pc'[d] = pc[d] /\ Creating(d)
        BY <2>a, <3>2 DEF TypeOK, Working
      <4>2. pc[d] = "create" => <<want[d], loop>> # k
        BY <2>c, <3>2, <4>1
      <4> QED
        BY <1>0, <2>a, <2>b, <4>1, <4>2 DEF TypeOK
    <3> QED
      BY <3>1, <3>2
  <2>3. ASSUME NEW d \in Coroutine PROVE Using(d)'
    BY <2>b, <2>c, <1>5, <1>15 DEF Created
  <2>4. AtRest'
    BY <2>a, <2>b, <2>c DEF Working, TypeOK
  <2> QED
    BY <2>1, <2>2, <2>3, <2>4 DEF Working
<1>6. ASSUME NEW c \in Coroutine, CreateFails(c) PROVE Working'
  BY <1>0, <1>6 DEF CreateFails, Working, TypeOK
<1>7. ASSUME NEW c \in Coroutine, Use(c) PROVE Working'
  BY <1>0, <1>7 DEF Use, Working, TypeOK
<1>8. ASSUME NEW c \in Coroutine, Cancel(c) PROVE Working'
  BY <1>0, <1>8 DEF Cancel, Working, TypeOK
<1>9. CASE Finish
  BY <1>9 DEF Finish, Working, TypeOK
<1>10. ASSUME NEW h \in Holder, Pop(h) PROVE Working'
  BY <1>0, <1>10 DEF Pop, Working, TypeOK
<1>11. CASE Closed \/ CloseFails
  BY <1>11 DEF Closed, CloseFails, Working, TypeOK
<1>12. CASE EndLoop
  BY <1>12 DEF EndLoop, Working, TypeOK
<1>13. CASE NewLoop
  BY <1>13 DEF NewLoop, Working, TypeOK, Gone
<1>14. CASE UNCHANGED vars
  BY <1>14 DEF vars, Working
<1> QED
  BY <1>1, <1>2, <1>3, <1>4, <1>5, <1>6, <1>7, <1>8, <1>9, <1>10, <1>11, <1>12,
     <1>13, <1>14 DEF Next

LEMMA GoneStep == TypeOK /\ Kept /\ Working /\ Gone /\ [Next]_vars => Gone'
<1> SUFFICES ASSUME TypeOK, Kept, Working, Gone, [Next]_vars PROVE Gone'
  OBVIOUS
<1> USE LoopLocalAssumption DEF Goto, Key, closers, Fault
<1>1. ASSUME NEW c \in Coroutine,
             GetExisting(c) \/ GetLock(c) \/ Acquire(c) \/ CreateFails(c) \/ Use(c) \/ Cancel(c)
      PROVE  Gone'
  <2> UNCHANGED <<loop, phase, items, of, open, closing, toClose, popped, broken, left>>
    BY <1>1 DEF GetExisting, GetLock, Acquire, CreateFails, Use, Cancel
  <2> QED
    BY DEF Gone
<1>2. ASSUME NEW h \in Holder, NEW c \in Coroutine, Store(c, h),
             phase = "running" \/ loop \in left,
             UNCHANGED <<loop, phase, closing, toClose, popped, broken, left>>
      PROVE  Gone'
  BY <1>2 DEF Store, Gone, TypeOK, Kept, Loops, Items
<1>3. ASSUME NEW c \in Coroutine, GetPerLoop(c) PROVE Gone'
  BY <1>2, <1>3 DEF GetPerLoop, Asks, TypeOK
<1>4. ASSUME NEW c \in Coroutine, Created(c) PROVE Gone'
  BY <1>2, <1>4 DEF Created, TypeOK, Working, AtRest
<1>5. CASE Finish
  BY <1>5 DEF Finish, Gone, TypeOK
<1>6. ASSUME NEW h \in Holder, Pop(h) PROVE Gone'
  BY <1>6 DEF Pop, Gone, TypeOK, Kept
<1>7. CASE Closed
  BY <1>7 DEF Closed, Gone, TypeOK
<1>8. CASE CloseFails
  BY <1>8 DEF CloseFails, Gone, TypeOK
<1>9. CASE EndLoop
  BY <1>9 DEF EndLoop, Gone, TypeOK
<1>10. CASE NewLoop
  BY <1>10 DEF NewLoop, Gone, TypeOK, Loops
<1>11. CASE UNCHANGED vars
  BY <1>11 DEF vars, Gone
<1> QED
  BY <1>1, <1>3, <1>4, <1>5, <1>6, <1>7, <1>8, <1>9, <1>10, <1>11 DEF Next

-----------------------------------------------------------------------------
(* The invariant of get() and close_loop_resources (shared/loop_local.py):  *)
(* an instance belongs to its holder's entry until it is detached, and who  *)
(* creates one does so under the lock and finds the entry empty.            *)
THEOREM LoopLocalInvariant == Spec => []IInv
<1>1. IInv /\ [Next]_vars => IInv'
  BY TypeStep, KeptStep, WorkingStep, GoneStep DEF IInv
<1> QED
  BY InitIInv, <1>1, PTL DEF Spec

(* Every variable keeps its type.                                          *)
THEOREM LoopLocalTyped == Spec => []TypeOK
<1>1. IInv => TypeOK
  BY DEF IInv
<1> QED
  BY LoopLocalInvariant, <1>1, PTL

(* The second look inside the lock of LoopLocal.get, and per_loop's get     *)
(* without an await, make at most one undetached instance of a holder on a  *)
(* loop.                                                                    *)
THEOREM OneInstance == Spec => []OneInstancePerLoop
<1>1. IInv => OneInstancePerLoop
  BY DEF IInv, Kept, OneInstancePerLoop
<1> QED
  BY LoopLocalInvariant, <1>1, PTL

(* What a coroutine got was created by its own holder on its own loop: no   *)
(* worker task meets the pool of the task before it.                        *)
THEOREM NothingFromOtherLoops == Spec => []UsedWhereMade
<1>1. IInv => UsedWhereMade
  BY DEF IInv, Working, Using, UsedWhereMade
<1> QED
  BY LoopLocalInvariant, <1>1, PTL

(* close_loop_resources closes nothing under a coroutine but one the main   *)
(* coroutine of run_in_fresh_loop left at work.                             *)
THEOREM ClosedWhenUnused == Spec => []NotClosedInUse
<1>1. IInv => NotClosedInUse
  <2> SUFFICES ASSUME IInv, NEW c \in Coroutine, pc[c] = "using", loop \notin left
               PROVE  held[c] \in open
    BY DEF NotClosedInUse
  <2>1. <<want[c], loop>> \in Holder \X Loops
    BY DEF IInv, TypeOK
  <2>2. items[<<want[c], loop>>] = held[c] /\ held[c] # 0
    BY DEF IInv, Working, Using
  <2> QED
    BY <2>1, <2>2 DEF IInv, Kept
<1> QED
  BY LoopLocalInvariant, <1>1, PTL

(* run_in_fresh_loop closes all that its loop created, but for what cannot  *)
(* be closed and for loops that ended with coroutines still at work.        *)
THEOREM ClosedWithItsLoop == Spec => []NothingLeftOpen
<1>1. IInv => NothingLeftOpen
  <2> SUFFICES ASSUME IInv, NEW i \in open, of[i][2] < loop \/ phase = "closed",
                      of[i][2] \notin left
               PROVE  i \in broken
    BY DEF NothingLeftOpen
  <2>1. i \in 1 .. made /\ of[i] \in Holder \X Loops /\ i # 0
    BY DEF IInv, Kept, TypeOK, Items
  <2>2. PICK h \in Holder, l \in Loops : of[i] = <<h, l>>
    BY <2>1
  <2>3. items[<<h, l>>] = 0
    BY <2>1, <2>2 DEF IInv, Gone, TypeOK, Loops
  <2>4. i \in popped
    BY <2>1, <2>2, <2>3 DEF IInv, Kept
  <2>5. i # closing
    <3> SUFFICES ASSUME i = closing PROVE FALSE
      OBVIOUS
    <3>1. phase = "closing" /\ of[i][2] = loop
      BY <2>1 DEF IInv, Gone
    <3> QED
      BY <3>1, LoopLocalAssumption DEF IInv, TypeOK, Loops
  <2> QED
    BY <2>4, <2>5 DEF IInv, Gone
<1> QED
  BY LoopLocalInvariant, <1>1, PTL
=============================================================================
