------------------------ MODULE ThreadSafeStackProofs ------------------------
(***************************************************************************)
(* Proofs about ThreadSafeStack for any set of workers and sockets.        *)
(***************************************************************************)
EXTENDS ThreadSafeStack, SequenceLemmas, TLAPS

(* Every step keeps the types; a worker that closes its socket has one,    *)
(* which is why PointerInv is needed.                                      *)
LEMMA TypeStep ==
    ASSUME TypeOK, PointerInv, [Next]_vars
    PROVE  TypeOK'
<1> USE StackAssumption DEF TypeOK, MainPcs, WorkerPcs, StackGone, locks, signal, main, MainAt, At
<1>seq. /\ \A e \in Sockets \cup {NullPtr} : Append(mStack, e) \in Seq(Sockets \cup {NullPtr})
        /\ mStack # <<>> => [mStack EXCEPT ![Len(mStack)] = NullPtr] \in Seq(Sockets \cup {NullPtr})
        /\ mStack # <<>> => Last(mStack) \in Sockets \cup {NullPtr}
        /\ mStack # <<>> => Front(mStack) \in Seq(Sockets \cup {NullPtr})
        /\ ToSet(mStack) \subseteq Sockets \cup {NullPtr}
        /\ <<>> \in Seq(Sockets \cup {NullPtr})
    BY SequenceFacts, EmptySeq
<1>1. CASE WaitClients
    BY <1>1 DEF WaitClients
<1>e. CASE EpollFails
    BY <1>e DEF EpollFails
<1>2. CASE MainStep
    <2>1. CASE AddSocketLock
        BY <2>1 DEF AddSocketLock
    <2>2. CASE AddSocketPush
        BY <2>2, <1>seq DEF AddSocketPush, PushAndUnlock
    <2>3. CASE NotifyOneLock
        BY <2>3 DEF NotifyOneLock
    <2>4. CASE NotifyOne
        BY <2>4 DEF NotifyOne
    <2>5. CASE LoopTest
        BY <2>5 DEF LoopTest
    <2>6. CASE Join
        BY <2>6, <1>seq DEF Join, DestroyStack
    <2>7. CASE Unwind
        BY <2>7, <1>seq DEF Unwind, DestroyStack
    <2>8. CASE ExitJoin
        BY <2>8 DEF ExitJoin, AllDone
    <2>9. QED BY <1>2, <2>1, <2>2, <2>3, <2>4, <2>5, <2>6, <2>7, <2>8 DEF MainStep
<1>3. CASE Signal
    BY <1>3 DEF Signal
<1>4. CASE Handler
    <2>1. CASE NextCallback
        BY <2>1 DEF NextCallback
    <2>2. CASE NotifyAll
        BY <2>2 DEF NotifyAll
    <2>3. QED BY <1>4, <2>1, <2>2 DEF Handler
<1>5. ASSUME NEW w \in Workers,
             WorkerStep(w) \/ WakeUnnotified(w) \/ Dangling(w)
      PROVE TypeOK'
    <2>1. CASE LockStack(w)
        BY <2>1 DEF LockStack
    <2>2. CASE EnterWait(w)
        BY <2>2 DEF EnterWait
    <2>3. CASE RegisterCallback(w)
        BY <2>3 DEF RegisterCallback
    <2>4. CASE TestPredicate(w)
        BY <2>4 DEF TestPredicate
    <2>5. CASE LockCv(w)
        BY <2>5 DEF LockCv
    <2>6. CASE TestStop(w)
        BY <2>6 DEF TestStop
    <2>7. CASE ~StackGone /\ Block(w)
        BY <2>7 DEF Block
    <2>8. CASE WakeUnnotified(w)
        BY <2>8 DEF WakeUnnotified
    <2>9. CASE Awake(w)
        BY <2>9 DEF Awake
    <2>10. CASE Relock(w)
        BY <2>10 DEF Relock
    <2>11. CASE Deregister(w)
        BY <2>11 DEF Deregister
    <2>12. CASE ReturnNull(w)
        BY <2>12 DEF ReturnNull, ReturnNullKeeping
    <2>13. CASE ~StackGone /\ MoveTop(w)
        BY <2>13, <1>seq DEF MoveTop, MoveTopKeeping
    <2>14. CASE ~StackGone /\ Pop(w)
        BY <2>14, <1>seq DEF Pop, PointerInv
    <2>15. CASE Returned(w)
        BY <2>15 DEF Returned, DropSocket
    <2>16. CASE Dangling(w)
        BY <2>16 DEF Dangling, InCall, Without
    <2>17. QED
        BY <1>5, <2>1, <2>2, <2>3, <2>4, <2>5, <2>6, <2>7, <2>8,
           <2>9, <2>10, <2>11, <2>12, <2>13, <2>14, <2>15, <2>16
        DEF WorkerStep, CallStep
<1>6. ASSUME NEW w \in Workers, EndServe(w) PROVE TypeOK'
    BY <1>6 DEF EndServe, PointerInv
<1>7. CASE UNCHANGED vars
    BY <1>7 DEF vars
<1>8. QED BY <1>1, <1>e, <1>2, <1>3, <1>4, <1>5, <1>6, <1>7 DEF Next

(* Every step keeps the two locks with their owners.                       *)
LEMMA LockStep ==
    ASSUME TypeOK, LockInv, [Next]_vars
    PROVE  LockInv'
<1> USE StackAssumption DEF TypeOK, MainPcs, WorkerPcs, StackGone, LockInv, HoldsStack, locks, signal, main, MainAt, At
<1>1. CASE WaitClients
    BY <1>1 DEF WaitClients
<1>e. CASE EpollFails
    BY <1>e DEF EpollFails
<1>2. CASE MainStep
    <2>1. CASE AddSocketLock
        BY <2>1 DEF AddSocketLock
    <2>2. CASE AddSocketPush
        BY <2>2 DEF AddSocketPush, PushAndUnlock
    <2>3. CASE NotifyOneLock
        BY <2>3 DEF NotifyOneLock
    <2>4. CASE NotifyOne
        BY <2>4 DEF NotifyOne
    <2>5. CASE LoopTest
        BY <2>5 DEF LoopTest
    <2>6. CASE Join
        BY <2>6 DEF Join, DestroyStack
    <2>7. CASE Unwind
        BY <2>7 DEF Unwind, DestroyStack
    <2>8. CASE ExitJoin
        BY <2>8 DEF ExitJoin, AllDone
    <2>9. QED BY <1>2, <2>1, <2>2, <2>3, <2>4, <2>5, <2>6, <2>7, <2>8 DEF MainStep
<1>3. CASE Signal
    BY <1>3 DEF Signal
<1>4. CASE Handler
    <2>1. CASE NextCallback
        BY <2>1 DEF NextCallback
    <2>2. CASE NotifyAll
        BY <2>2 DEF NotifyAll
    <2>3. QED BY <1>4, <2>1, <2>2 DEF Handler
<1>5. ASSUME NEW w \in Workers,
             WorkerStep(w) \/ WakeUnnotified(w) \/ Dangling(w)
      PROVE LockInv'
    <2>1. CASE LockStack(w)
        BY <2>1 DEF LockStack
    <2>2. CASE EnterWait(w)
        BY <2>2 DEF EnterWait
    <2>3. CASE RegisterCallback(w)
        BY <2>3 DEF RegisterCallback
    <2>4. CASE TestPredicate(w)
        BY <2>4 DEF TestPredicate
    <2>5. CASE LockCv(w)
        BY <2>5 DEF LockCv
    <2>6. CASE TestStop(w)
        BY <2>6 DEF TestStop
    <2>7. CASE ~StackGone /\ Block(w)
        BY <2>7 DEF Block
    <2>8. CASE WakeUnnotified(w)
        BY <2>8 DEF WakeUnnotified
    <2>9. CASE Awake(w)
        BY <2>9 DEF Awake
    <2>10. CASE Relock(w)
        BY <2>10 DEF Relock
    <2>11. CASE Deregister(w)
        BY <2>11 DEF Deregister
    <2>12. CASE ReturnNull(w)
        BY <2>12 DEF ReturnNull, ReturnNullKeeping
    <2>13. CASE ~StackGone /\ MoveTop(w)
        BY <2>13 DEF MoveTop, MoveTopKeeping
    <2>14. CASE ~StackGone /\ Pop(w)
        BY <2>14 DEF Pop
    <2>15. CASE Returned(w)
        BY <2>15 DEF Returned, DropSocket
    <2>16. CASE Dangling(w)
        BY <2>16 DEF Dangling, InCall, Without
    <2>17. QED
        BY <1>5, <2>1, <2>2, <2>3, <2>4, <2>5, <2>6, <2>7, <2>8,
           <2>9, <2>10, <2>11, <2>12, <2>13, <2>14, <2>15, <2>16
        DEF WorkerStep, CallStep
<1>6. ASSUME NEW w \in Workers, EndServe(w) PROVE LockInv'
    BY <1>6 DEF EndServe
<1>7. CASE UNCHANGED vars
    BY <1>7 DEF vars
<1>8. QED BY <1>1, <1>e, <1>2, <1>3, <1>4, <1>5, <1>6, <1>7 DEF Next

(* Every step keeps what the local pointers hold at each place.            *)
LEMMA PointerStep ==
    ASSUME TypeOK, LockInv, PointerInv, [Next]_vars
    PROVE  PointerInv'
<1> USE StackAssumption DEF TypeOK, MainPcs, WorkerPcs, StackGone, LockInv, PointerInv, HoldsStack, locks, signal, main, MainAt, At
<1>top. mStack # <<>> => LET t == [mStack EXCEPT ![Len(mStack)] = NullPtr]
                         IN  t # <<>> /\ Last(t) = NullPtr
    BY SequenceFacts, LenProperties, ExceptSeq, EmptySeq DEF Last
<1>1. CASE WaitClients
    BY <1>1 DEF WaitClients
<1>e. CASE EpollFails
    BY <1>e DEF EpollFails
<1>2. CASE MainStep
    <2>1. CASE AddSocketLock
        BY <2>1 DEF AddSocketLock
    <2>2. CASE AddSocketPush
        BY <2>2 DEF AddSocketPush, PushAndUnlock
    <2>3. CASE NotifyOneLock
        BY <2>3 DEF NotifyOneLock
    <2>4. CASE NotifyOne
        BY <2>4 DEF NotifyOne
    <2>5. CASE LoopTest
        BY <2>5 DEF LoopTest
    <2>6. CASE Join
        BY <2>6 DEF Join, AllDone, DestroyStack
    <2>7. CASE Unwind
        BY <2>7 DEF Unwind, DestroyStack
    <2>8. CASE ExitJoin
        BY <2>8 DEF ExitJoin, AllDone
    <2>9. QED BY <1>2, <2>1, <2>2, <2>3, <2>4, <2>5, <2>6, <2>7, <2>8 DEF MainStep
<1>3. CASE Signal
    BY <1>3 DEF Signal
<1>4. CASE Handler
    <2>1. CASE NextCallback
        BY <2>1 DEF NextCallback
    <2>2. CASE NotifyAll
        BY <2>2 DEF NotifyAll
    <2>3. QED BY <1>4, <2>1, <2>2 DEF Handler
<1>5. ASSUME NEW w \in Workers,
             WorkerStep(w) \/ WakeUnnotified(w) \/ Dangling(w)
      PROVE PointerInv'
    <2>1. CASE LockStack(w)
        BY <2>1 DEF LockStack
    <2>2. CASE EnterWait(w)
        BY <2>2 DEF EnterWait
    <2>3. CASE RegisterCallback(w)
        BY <2>3 DEF RegisterCallback
    <2>4. CASE TestPredicate(w)
        BY <2>4 DEF TestPredicate
    <2>5. CASE LockCv(w)
        BY <2>5 DEF LockCv
    <2>6. CASE TestStop(w)
        BY <2>6 DEF TestStop
    <2>7. CASE ~StackGone /\ Block(w)
        BY <2>7 DEF Block
    <2>8. CASE WakeUnnotified(w)
        BY <2>8 DEF WakeUnnotified
    <2>9. CASE Awake(w)
        BY <2>9 DEF Awake
    <2>10. CASE Relock(w)
        BY <2>10 DEF Relock
    <2>11. CASE Deregister(w)
        BY <2>11 DEF Deregister
    <2>12. CASE ReturnNull(w)
        BY <2>12 DEF ReturnNull, ReturnNullKeeping
    <2>13. CASE ~StackGone /\ MoveTop(w)
        BY <2>13, <1>top DEF MoveTop, MoveTopKeeping
    <2>14. CASE ~StackGone /\ Pop(w)
        BY <2>14 DEF Pop
    <2>15. CASE Returned(w)
        BY <2>15 DEF Returned, DropSocket
    <2>16. CASE Dangling(w)
        BY <2>16 DEF Dangling, InCall, Without
    <2>17. QED
        BY <1>5, <2>1, <2>2, <2>3, <2>4, <2>5, <2>6, <2>7, <2>8,
           <2>9, <2>10, <2>11, <2>12, <2>13, <2>14, <2>15, <2>16
        DEF WorkerStep, CallStep
<1>6. ASSUME NEW w \in Workers, EndServe(w) PROVE PointerInv'
    BY <1>6 DEF EndServe
<1>7. CASE UNCHANGED vars
    BY <1>7 DEF vars
<1>8. QED BY <1>1, <1>e, <1>2, <1>3, <1>4, <1>5, <1>6, <1>7 DEF Next

(* Every step keeps the argument that no wakeup is missed.                 *)
LEMMA WakeupStep ==
    ASSUME TypeOK, LockInv, WakeupInv, [Next]_vars
    PROVE  WakeupInv'
<1> USE StackAssumption DEF TypeOK, MainPcs, WorkerPcs, StackGone, LockInv, WakeupInv, HoldsStack, Asleep, locks, signal, main, MainAt, At
<1>1. CASE WaitClients
    BY <1>1 DEF WaitClients
<1>e. CASE EpollFails
    BY <1>e DEF EpollFails
<1>2. CASE MainStep
    <2>1. CASE AddSocketLock
        BY <2>1 DEF AddSocketLock
    <2>2. CASE AddSocketPush
        BY <2>2 DEF AddSocketPush, PushAndUnlock
    <2>3. CASE NotifyOneLock
        BY <2>3 DEF NotifyOneLock
    <2>4. CASE NotifyOne
        BY <2>4 DEF NotifyOne
    <2>5. CASE LoopTest
        BY <2>5 DEF LoopTest
    <2>6. CASE Join
        BY <2>6 DEF Join, DestroyStack
    <2>7. CASE Unwind
        BY <2>7 DEF Unwind, DestroyStack
    <2>8. CASE ExitJoin
        BY <2>8 DEF ExitJoin, AllDone
    <2>9. QED BY <1>2, <2>1, <2>2, <2>3, <2>4, <2>5, <2>6, <2>7, <2>8 DEF MainStep
<1>3. CASE Signal
    BY <1>3 DEF Signal
<1>4. CASE Handler
    <2>1. CASE NextCallback
        BY <2>1 DEF NextCallback
    <2>2. CASE NotifyAll
        BY <2>2 DEF NotifyAll
    <2>3. QED BY <1>4, <2>1, <2>2 DEF Handler
<1>5. ASSUME NEW w \in Workers,
             WorkerStep(w) \/ WakeUnnotified(w) \/ Dangling(w)
      PROVE WakeupInv'
    <2>1. CASE LockStack(w)
        BY <2>1 DEF LockStack
    <2>2. CASE EnterWait(w)
        BY <2>2 DEF EnterWait
    <2>3. CASE RegisterCallback(w)
        BY <2>3 DEF RegisterCallback
    <2>4. CASE TestPredicate(w)
        BY <2>4 DEF TestPredicate
    <2>5. CASE LockCv(w)
        BY <2>5 DEF LockCv
    <2>6. CASE TestStop(w)
        BY <2>6 DEF TestStop
    <2>7. CASE ~StackGone /\ Block(w)
        BY <2>7 DEF Block
    <2>8. CASE WakeUnnotified(w)
        BY <2>8 DEF WakeUnnotified
    <2>9. CASE Awake(w)
        BY <2>9 DEF Awake
    <2>10. CASE Relock(w)
        BY <2>10 DEF Relock
    <2>11. CASE Deregister(w)
        BY <2>11 DEF Deregister
    <2>12. CASE ReturnNull(w)
        BY <2>12 DEF ReturnNull, ReturnNullKeeping
    <2>13. CASE ~StackGone /\ MoveTop(w)
        BY <2>13 DEF MoveTop, MoveTopKeeping
    <2>14. CASE ~StackGone /\ Pop(w)
        BY <2>14 DEF Pop
    <2>15. CASE Returned(w)
        BY <2>15 DEF Returned, DropSocket
    <2>16. CASE Dangling(w)
        BY <2>16 DEF Dangling, InCall, Without
    <2>17. QED
        BY <1>5, <2>1, <2>2, <2>3, <2>4, <2>5, <2>6, <2>7, <2>8,
           <2>9, <2>10, <2>11, <2>12, <2>13, <2>14, <2>15, <2>16
        DEF WorkerStep, CallStep
<1>6. ASSUME NEW w \in Workers, EndServe(w) PROVE WakeupInv'
    BY <1>6 DEF EndServe
<1>7. CASE UNCHANGED vars
    BY <1>7 DEF vars
<1>8. QED BY <1>1, <1>e, <1>2, <1>3, <1>4, <1>5, <1>6, <1>7 DEF Next

(* Every step keeps a callback for everyone who sleeps.                    *)
LEMMA CallbackStep ==
    ASSUME TypeOK, LockInv, WakeupInv, CallbackInv, [Next]_vars
    PROVE  CallbackInv'
<1> USE StackAssumption DEF TypeOK, MainPcs, WorkerPcs, StackGone, LockInv, WakeupInv, CallbackInv, HoldsStack, Asleep, locks, signal, main, MainAt, At
<1>1. CASE WaitClients
    BY <1>1 DEF WaitClients
<1>e. CASE EpollFails
    BY <1>e DEF EpollFails
<1>2. CASE MainStep
    <2>1. CASE AddSocketLock
        BY <2>1 DEF AddSocketLock
    <2>2. CASE AddSocketPush
        BY <2>2 DEF AddSocketPush, PushAndUnlock
    <2>3. CASE NotifyOneLock
        BY <2>3 DEF NotifyOneLock
    <2>4. CASE NotifyOne
        BY <2>4 DEF NotifyOne
    <2>5. CASE LoopTest
        BY <2>5 DEF LoopTest
    <2>6. CASE Join
        BY <2>6 DEF Join, DestroyStack
    <2>7. CASE Unwind
        BY <2>7 DEF Unwind, DestroyStack
    <2>8. CASE ExitJoin
        BY <2>8 DEF ExitJoin, AllDone
    <2>9. QED BY <1>2, <2>1, <2>2, <2>3, <2>4, <2>5, <2>6, <2>7, <2>8 DEF MainStep
<1>3. CASE Signal
    BY <1>3 DEF Signal
<1>4. CASE Handler
    <2>1. CASE NextCallback
        BY <2>1 DEF NextCallback
    <2>2. CASE NotifyAll
        BY <2>2 DEF NotifyAll
    <2>3. QED BY <1>4, <2>1, <2>2 DEF Handler
<1>5. ASSUME NEW w \in Workers,
             WorkerStep(w) \/ WakeUnnotified(w) \/ Dangling(w)
      PROVE CallbackInv'
    <2>1. CASE LockStack(w)
        BY <2>1 DEF LockStack
    <2>2. CASE EnterWait(w)
        BY <2>2 DEF EnterWait
    <2>3. CASE RegisterCallback(w)
        BY <2>3 DEF RegisterCallback
    <2>4. CASE TestPredicate(w)
        BY <2>4 DEF TestPredicate
    <2>5. CASE LockCv(w)
        BY <2>5 DEF LockCv
    <2>6. CASE TestStop(w)
        BY <2>6 DEF TestStop
    <2>7. CASE ~StackGone /\ Block(w)
        BY <2>7 DEF Block
    <2>8. CASE WakeUnnotified(w)
        BY <2>8 DEF WakeUnnotified
    <2>9. CASE Awake(w)
        BY <2>9 DEF Awake
    <2>10. CASE Relock(w)
        BY <2>10 DEF Relock
    <2>11. CASE Deregister(w)
        BY <2>11 DEF Deregister
    <2>12. CASE ReturnNull(w)
        BY <2>12 DEF ReturnNull, ReturnNullKeeping
    <2>13. CASE ~StackGone /\ MoveTop(w)
        BY <2>13 DEF MoveTop, MoveTopKeeping
    <2>14. CASE ~StackGone /\ Pop(w)
        BY <2>14 DEF Pop
    <2>15. CASE Returned(w)
        BY <2>15 DEF Returned, DropSocket
    <2>16. CASE Dangling(w)
        BY <2>16 DEF Dangling, InCall, Without
    <2>17. QED
        BY <1>5, <2>1, <2>2, <2>3, <2>4, <2>5, <2>6, <2>7, <2>8,
           <2>9, <2>10, <2>11, <2>12, <2>13, <2>14, <2>15, <2>16
        DEF WorkerStep, CallStep
<1>6. ASSUME NEW w \in Workers, EndServe(w) PROVE CallbackInv'
    BY <1>6 DEF EndServe
<1>7. CASE UNCHANGED vars
    BY <1>7 DEF vars
<1>8. QED BY <1>1, <1>e, <1>2, <1>3, <1>4, <1>5, <1>6, <1>7 DEF Next

-----------------------------------------------------------------------------
(* The inductive invariant: types, locks, pointers, wakeups and callbacks. *)
LEMMA Invariant == Spec => [](TypeOK /\ StackInv)
<1>1. Init => TypeOK /\ StackInv
    <2>1. Init => TypeOK
        <3>1. <<>> \in Seq(Sockets \cup {NullPtr}) /\ 0 \in 0..MaxNulls
            BY StackAssumption, EmptySeq
        <3>2. QED BY <3>1 DEF Init, TypeOK, MainPcs, WorkerPcs
    <2>2. Init => LockInv /\ PointerInv
        BY StackAssumption DEF Init, LockInv, HoldsStack, PointerInv
    <2>3. Init => WakeupInv /\ CallbackInv
        BY StackAssumption DEF Init, WakeupInv, CallbackInv, Asleep
    <2>4. QED BY <2>1, <2>2, <2>3 DEF StackInv
<1>2. TypeOK /\ StackInv /\ [Next]_vars => (TypeOK /\ StackInv)'
    BY TypeStep, LockStep, PointerStep, WakeupStep, CallbackStep DEF StackInv
<1>3. QED BY <1>1, <1>2, PTL DEF Spec

(* ThreadSafeStack.cpp, main.cpp and Worker.cpp: every variable keeps its  *)
(* type, for any number of workers, sockets and failed accepts.            *)
THEOREM TypeCorrect == Spec => []TypeOK
BY Invariant, PTL

(* The locks have the owners the code believes, null pointers are where    *)
(* the code expects them, and sleepers have their notifier and callback.   *)
THEOREM StackCorrect == Spec => []StackInv
BY Invariant, PTL

(* notify_one after the unlock (ThreadSafeStack.cpp 9-16) misses no        *)
(* wakeup: the stack is not left full with everybody asleep.               *)
THEOREM NoMissedWakeupHolds == Spec => []NoMissedWakeup
<1>1. TypeOK /\ StackInv => NoMissedWakeup
    BY DEF StackInv, WakeupInv, NoMissedWakeup, Asleep
<1>2. QED BY <1>1, Invariant, PTL

(* The stop token given to cv.wait_for (ThreadSafeStack.cpp 21) leaves     *)
(* nobody asleep once sig_handler has run its callbacks.                   *)
THEOREM StopWakesAllHolds == Spec => []StopWakesAll
<1>1. TypeOK /\ StackInv => StopWakesAll
    BY StackAssumption
    DEF TypeOK, StackInv, CallbackInv, WakeupInv, StopWakesAll, Asleep
<1>2. QED BY <1>1, Invariant, PTL

(* Whoever owns the mutex in cv goes on: nobody waits for m_mutex, or for  *)
(* a callback to end, while he owns it.  When it is free the handler goes  *)
(* on, so no callback is running when the owner of m_mutex is asked.       *)
LEMMA SomebodyGoesOn ==
    ASSUME TypeOK, StackInv, ~SignalDeadlock, ~LostInStack
    PROVE  SomebodyRuns \/ AllOutside
<1> USE StackAssumption DEF TypeOK, StackInv, LockInv, CallbackInv, StackGone
<1>0. \A w \in Workers : StackGone => pc[w] \in {"returned", "serve", "done"}
    BY DEF LostInStack, InCall
<1>1. ASSUME NEW w \in Workers, cvMutex = w PROVE WorkerRuns(w)
    <2>1. pc[w] \in {"stopTest", "block"}
        BY <1>1
    <2>2. QED BY <1>0, <2>1 DEF WorkerRuns, CallRuns
<1>2. CASE handlerPc # "none"
    <2>1. CASE handlerPc = "next"
        BY <2>1 DEF SomebodyRuns, HandlerRuns
    <2>2. CASE handlerPc = "notify" /\ cvMutex = NoThread
        BY <2>2 DEF SomebodyRuns, HandlerRuns
    <2>3. CASE handlerPc = "notify" /\ cvMutex # NoThread
        <3>1. cvMutex \in Workers
            BY <2>3 DEF SignalDeadlock
        <3>2. QED BY <1>1, <3>1 DEF SomebodyRuns
    <2>4. QED BY <1>2, <2>1, <2>2, <2>3
<1>3. CASE handlerPc = "none" /\ cvMutex # NoThread
    <2>1. CASE cvMutex \in Workers
        BY <1>1, <2>1 DEF SomebodyRuns
    <2>2. CASE cvMutex = Main
        <3>1. mainPc = "notify"
            BY <2>2
        <3>2. QED BY <1>3, <3>1 DEF SomebodyRuns, MainRuns
    <2>3. QED BY <1>3, <2>1, <2>2
<1>4. CASE handlerPc = "none" /\ cvMutex = NoThread /\ mutex # NoThread
    <2>1. CASE mutex = Main
        <3>1. mainPc = "push"
            BY <2>1
        <3>2. QED BY <1>4, <3>1 DEF SomebodyRuns, MainRuns
    <2>2. ASSUME NEW w \in Workers, mutex = w PROVE WorkerRuns(w)
        <3>1. pc[w] \in HoldsStack
            BY <2>2
        <3>2. running # w
            BY <1>4
        <3>3. QED BY <1>0, <1>4, <3>1, <3>2 DEF HoldsStack, WorkerRuns, CallRuns
    <2>3. QED BY <1>4, <2>1, <2>2 DEF SomebodyRuns
<1>5. CASE handlerPc = "none" /\ cvMutex = NoThread /\ mutex = NoThread
    <2>1. SUFFICES ASSUME ~SomebodyRuns PROVE AllOutside
        OBVIOUS
    <2>2. ASSUME NEW w \in Workers PROVE pc[w] \in {"serve", "done"}
        <3>1. ~WorkerRuns(w) /\ pc[w] \in WorkerPcs /\ running # w
            BY <1>5, <2>1 DEF SomebodyRuns
        <3>2. QED BY <1>0, <1>5, <3>1 DEF WorkerPcs, WorkerRuns, CallRuns
    <2>3. mainPc \in {"wait", "join", "exitJoin", "joined"}
        <3>1. ~MainRuns /\ \A w \in Workers : pc[w] # "asleep"
            BY <2>1, <2>2 DEF SomebodyRuns
        <3>2. QED BY <1>5, <3>1 DEF MainPcs, MainRuns
    <2>4. QED BY <2>2, <2>3 DEF AllOutside
<1>6. QED BY <1>2, <1>3, <1>4, <1>5

(* main, sig_handler and the workers (main.cpp 22-27, ThreadSafeStack.cpp) *)
(* never wait for each other's mutexes in a circle: only sig_handler can   *)
(* wait for good, for the notify_one that it interrupted, and a worker     *)
(* that was inside the stack when an exception destroyed it.               *)
THEOREM NoCircularWaitHolds == Spec => []NoCircularWait
<1>1. TypeOK /\ StackInv => NoCircularWait
    BY SomebodyGoesOn DEF NoCircularWait
<1>2. QED BY <1>1, Invariant, PTL

-----------------------------------------------------------------------------
(* One owner, said place by place.                                         *)
OnStack(s) == \E i \in DOMAIN mStack : mStack[i] = s
WithWorker(s) == \E w \in Workers : held[w] = s

OwnedOnce(s) ==
    /\ s \in arriving \/ mainArg = s \/ OnStack(s) \/ WithWorker(s) \/ s \in closed
    /\ s \in arriving => mainArg # s /\ ~OnStack(s) /\ ~WithWorker(s) /\ s \notin closed
    /\ mainArg = s => ~OnStack(s) /\ ~WithWorker(s) /\ s \notin closed
    /\ OnStack(s) => ~WithWorker(s) /\ s \notin closed
    /\ WithWorker(s) => s \notin closed
    /\ \A i, j \in DOMAIN mStack : mStack[i] = s /\ mStack[j] = s => i = j
    /\ \A v, w \in Workers : held[v] = s /\ held[w] = s => v = w

(* A socket that is owned once is in one place.                            *)
LEMMA OwnedOncePlaces ==
    ASSUME NEW s \in Sockets, OwnedOnce(s)
    PROVE  \E p \in Places(s) : Places(s) = {p}
<1>1. CASE s \in arriving
    <2>1. Places(s) = {<<"arriving">>}
        BY <1>1 DEF OwnedOnce, OnStack, WithWorker, Places
    <2>2. QED BY <2>1
<1>2. CASE mainArg = s
    <2>1. Places(s) = {<<"main">>}
        BY <1>2 DEF OwnedOnce, OnStack, WithWorker, Places
    <2>2. QED BY <2>1
<1>3. ASSUME NEW i \in DOMAIN mStack, mStack[i] = s
      PROVE  \E p \in Places(s) : Places(s) = {p}
    <2>1. Places(s) = {<<"stack", i>>}
        BY <1>3 DEF OwnedOnce, OnStack, WithWorker, Places
    <2>2. QED BY <2>1
<1>4. ASSUME NEW w \in Workers, held[w] = s
      PROVE  \E p \in Places(s) : Places(s) = {p}
    <2>1. Places(s) = {<<"worker", w>>}
        BY <1>4 DEF OwnedOnce, OnStack, WithWorker, Places
    <2>2. QED BY <2>1
<1>5. CASE s \in closed
    <2>1. Places(s) = {<<"closed">>}
        BY <1>5 DEF OwnedOnce, OnStack, WithWorker, Places
    <2>2. QED BY <2>1
<1>6. QED BY <1>1, <1>2, <1>3, <1>4, <1>5 DEF OwnedOnce, OnStack, WithWorker

(* Every step keeps one owner: a pointer that is overwritten was null, and *)
(* what pop() removes was moved out.                                       *)
LEMMA OwnerStep ==
    ASSUME TypeOK, LockInv, PointerInv, \A s \in Sockets : OwnedOnce(s), [Next]_vars
    PROVE  \A s \in Sockets : OwnedOnce(s)'
<1> USE StackAssumption DEF TypeOK, MainPcs, WorkerPcs, StackGone, OwnedOnce, OnStack, WithWorker, locks, signal, main, MainAt, At
<1>seq. /\ DOMAIN <<>> = {}
        /\ ToSet(mStack) = {mStack[i] : i \in DOMAIN mStack}
        /\ mStack # <<>> => /\ Len(mStack) \in DOMAIN mStack
                            /\ Last(mStack) = mStack[Len(mStack)]
                            /\ DOMAIN Front(mStack) = DOMAIN mStack \ {Len(mStack)}
                            /\ \A i \in DOMAIN Front(mStack) : Front(mStack)[i] = mStack[i]
    BY PlaceFacts
<1>1. CASE WaitClients
    BY <1>1 DEF WaitClients, PointerInv
<1>e. CASE EpollFails
    BY <1>e DEF EpollFails
<1>2. CASE MainStep
    <2>1. CASE AddSocketLock
        BY <2>1 DEF AddSocketLock
    <2>2. CASE AddSocketPush
        BY <2>2 DEF AddSocketPush, PushAndUnlock
    <2>3. CASE NotifyOneLock
        BY <2>3 DEF NotifyOneLock
    <2>4. CASE NotifyOne
        BY <2>4 DEF NotifyOne
    <2>5. CASE LoopTest
        BY <2>5 DEF LoopTest
    <2>6. CASE Join
        BY <2>6, <1>seq DEF Join, DestroyStack
    <2>7. CASE Unwind
        BY <2>7, <1>seq DEF Unwind, DestroyStack
    <2>8. CASE ExitJoin
        BY <2>8 DEF ExitJoin, AllDone
    <2>9. QED BY <1>2, <2>1, <2>2, <2>3, <2>4, <2>5, <2>6, <2>7, <2>8 DEF MainStep
<1>3. CASE Signal
    BY <1>3 DEF Signal
<1>4. CASE Handler
    <2>1. CASE NextCallback
        BY <2>1 DEF NextCallback
    <2>2. CASE NotifyAll
        BY <2>2 DEF NotifyAll
    <2>3. QED BY <1>4, <2>1, <2>2 DEF Handler
<1>5. ASSUME NEW w \in Workers,
             WorkerStep(w) \/ WakeUnnotified(w) \/ Dangling(w)
      PROVE \A s \in Sockets : OwnedOnce(s)'
    <2>1. CASE LockStack(w)
        BY <2>1 DEF LockStack
    <2>2. CASE EnterWait(w)
        BY <2>2 DEF EnterWait
    <2>3. CASE RegisterCallback(w)
        BY <2>3 DEF RegisterCallback
    <2>4. CASE TestPredicate(w)
        BY <2>4 DEF TestPredicate
    <2>5. CASE LockCv(w)
        BY <2>5 DEF LockCv
    <2>6. CASE TestStop(w)
        BY <2>6 DEF TestStop
    <2>7. CASE ~StackGone /\ Block(w)
        BY <2>7 DEF Block
    <2>8. CASE WakeUnnotified(w)
        BY <2>8 DEF WakeUnnotified
    <2>9. CASE Awake(w)
        BY <2>9 DEF Awake
    <2>10. CASE Relock(w)
        BY <2>10 DEF Relock
    <2>11. CASE Deregister(w)
        BY <2>11 DEF Deregister
    <2>12. CASE ReturnNull(w)
        BY <2>12 DEF ReturnNull, ReturnNullKeeping
    <2>13. CASE ~StackGone /\ MoveTop(w)
        BY <2>13, <1>seq DEF MoveTop, MoveTopKeeping, PointerInv
    <2>14. CASE ~StackGone /\ Pop(w)
        BY <2>14, <1>seq DEF Pop, PointerInv
    <2>15. CASE Returned(w)
        BY <2>15 DEF Returned, DropSocket
    <2>16. CASE Dangling(w)
        BY <2>16 DEF Dangling, InCall, Without
    <2>17. QED
        BY <1>5, <2>1, <2>2, <2>3, <2>4, <2>5, <2>6, <2>7, <2>8,
           <2>9, <2>10, <2>11, <2>12, <2>13, <2>14, <2>15, <2>16
        DEF WorkerStep, CallStep
<1>6. ASSUME NEW w \in Workers, EndServe(w) PROVE \A s \in Sockets : OwnedOnce(s)'
    BY <1>6 DEF EndServe
<1>7. CASE UNCHANGED vars
    BY <1>7 DEF vars
<1>8. QED BY <1>1, <1>e, <1>2, <1>3, <1>4, <1>5, <1>6, <1>7 DEF Next

(* Every socket is owned once, at any time.                                *)
LEMMA Ownership == Spec => [](\A s \in Sockets : OwnedOnce(s))
<1> DEFINE IInv == TypeOK /\ StackInv
           OInv == \A s \in Sockets : OwnedOnce(s)
<1>1. Init => OInv
    BY StackAssumption, LenProperties DEF Init, OwnedOnce, OnStack, WithWorker
<1>2. IInv /\ OInv /\ [Next]_vars => OInv'
    BY OwnerStep DEF StackInv
<1>3. Spec => []IInv
    BY Invariant
<1> HIDE DEF IInv, OInv
<1>4. Spec => []OInv
    BY <1>1, <1>2, <1>3, PTL DEF Spec
<1>5. QED BY <1>4 DEF OInv

(* AddSocket, GetSocket and Worker: no interleaving of any number of       *)
(* threads loses a socket or gives it to two owners.                       *)
THEOREM OneOwnerHolds == Spec => []OneOwner
<1>1. (\A s \in Sockets : OwnedOnce(s)) => OneOwner
    BY OwnedOncePlaces DEF OneOwner
<1>2. QED BY <1>1, Ownership, PTL

-----------------------------------------------------------------------------
(* ThreadSafeStack implements SocketPool: the push is Add, the move out of *)
(* top() is Take, the end of the worker's local pointer is Close, and      *)
(* every other step changes nothing the callers can see.                   *)

(* What a step that touches none of the pool's parts leaves as it was.     *)
LEMMA PoolUnchanged ==
    ASSUME UNCHANGED <<mStack, held, arriving, mainArg, closed>>,
           \A w \in Workers : /\ pc'[w] = "pop" /\ ~StackGone' => pc[w] = "pop" /\ ~StackGone
                              /\ pc[w] = "pop" /\ ~StackGone => pc'[w] = "pop" /\ ~StackGone'
    PROVE  UNCHANGED Pool!poolVars
BY DEF NotPushed, Popping, Content, Pool!poolVars

(* Whoever owns m_mutex outside of pop() sees the stack as it is.          *)
LEMMA NobodyPops ==
    ASSUME TypeOK, LockInv,
           mutex = Main \/ \E w \in Workers : mutex = w /\ pc[w] # "pop"
    PROVE  ~Popping /\ Content = mStack
BY StackAssumption DEF TypeOK, LockInv, HoldsStack, Popping, Content

(* Two sequences that differ at their last element only have one front.    *)
LEMMA SameFront ==
    ASSUME NEW S, NEW s \in Seq(S), NEW t \in Seq(S), s # <<>>,
           Len(t) = Len(s), \A j \in 1..(Len(s) - 1) : t[j] = s[j]
    PROVE  Front(t) = Front(s)
<1> DEFINE f == [i \in 1..(Len(s) - 1) |-> s[i]]
           g == [i \in 1..(Len(s) - 1) |-> t[i]]
<1>1. f = g
    OBVIOUS
<1>2. Front(s) = f /\ Front(t) = g
    BY DEF Front
<1>3. QED BY <1>1, <1>2

(* Moving the top out leaves the rest of the stack as it was.              *)
LEMMA TopFacts ==
    ASSUME TypeOK, mStack # <<>>
    PROVE  Front([mStack EXCEPT ![Len(mStack)] = NullPtr]) = Front(mStack)
<1>1. mStack \in Seq(Sockets \cup {NullPtr})
    BY DEF TypeOK
<1>2. Len(mStack) \in Nat /\ Len(mStack) \in 1..Len(mStack)
    BY <1>1, LenProperties, EmptySeq
<1>3. SUFFICES ASSUME NEW t \in Seq(Sockets \cup {NullPtr}),
                      t = [mStack EXCEPT ![Len(mStack)] = NullPtr],
                      Len(t) = Len(mStack),
                      \A j \in 1..Len(mStack) :
                         t[j] = IF j = Len(mStack) THEN NullPtr ELSE mStack[j]
               PROVE  Front(t) = Front(mStack)
    BY <1>1, <1>2, ExceptSeq
<1>4. \A j \in 1..(Len(mStack) - 1) : t[j] = mStack[j]
    <2>1. SUFFICES ASSUME NEW j \in 1..(Len(mStack) - 1) PROVE t[j] = mStack[j]
        OBVIOUS
    <2>2. j \in 1..Len(mStack) /\ j # Len(mStack)
        BY <1>2, <2>1
    <2>3. QED BY <1>3, <2>2, Zenon
<1>5. QED BY <1>1, <1>3, <1>4, SameFront

(* ~ThreadSafeStack is Destroy: the slot of a worker that is between the   *)
(* move out of top() and pop() holds a null, which nobody has to close.    *)
LEMMA PoolDestroyed ==
    ASSUME TypeOK, StackInv, DestroyStack, ~StackGone, ~Popping'
    PROVE  [Pool!PoolNext]_Pool!poolVars
<1>seq. /\ DOMAIN <<>> = {}
        /\ ToSet(mStack) = {mStack[i] : i \in DOMAIN mStack}
        /\ mStack # <<>> => /\ Len(mStack) \in DOMAIN mStack
                            /\ Last(mStack) = mStack[Len(mStack)]
                            /\ DOMAIN Front(mStack) = DOMAIN mStack \ {Len(mStack)}
                            /\ \A i \in DOMAIN Front(mStack) : Front(mStack)[i] = mStack[i]
    BY PlaceFacts DEF TypeOK
<1>1. Content' = <<>> /\ UNCHANGED <<NotPushed, held>>
    BY DEF DestroyStack, Content, NotPushed
<1>2. ToSet(Content) \ {NullPtr} = ToSet(mStack) \ {NullPtr}
    <2>1. CASE ~Popping
        BY <2>1 DEF Content
    <2>2. CASE Popping
        <3>1. mStack # <<>> /\ Last(mStack) = NullPtr /\ Content = Front(mStack)
            BY <2>2 DEF Popping, Content, StackInv, PointerInv
        <3>2. ToSet(Content) = {mStack[i] : i \in DOMAIN mStack \ {Len(mStack)}}
            BY <3>1, <1>seq DEF ToSet
        <3>3. QED BY <3>1, <3>2, <1>seq
    <2>3. QED BY <2>1, <2>2
<1>3. CASE Content = <<>>
    <2>1. ToSet(Content) = {}
        BY <1>3 DEF ToSet
    <2>2. closed' = closed
        BY <1>2, <2>1 DEF DestroyStack
    <2>3. QED BY <1>1, <1>3, <2>2 DEF Pool!poolVars
<1>4. CASE Content # <<>>
    <2>1. Pool!Destroy
        BY <1>1, <1>2, <1>4 DEF DestroyStack, Pool!Destroy, ToSet, Pool!ToSet
    <2>2. QED BY <2>1 DEF Pool!PoolNext
<1>5. QED BY <1>3, <1>4

(* Every step is a step of the pool or changes nothing of it.              *)
LEMMA PoolStep ==
    ASSUME TypeOK, StackInv, \A s \in Sockets : OwnedOnce(s), [Next]_vars
    PROVE  [Pool!PoolNext]_Pool!poolVars
<1> USE StackAssumption DEF TypeOK, MainPcs, WorkerPcs, StackGone, locks, signal, main, MainAt, At
<1>1. CASE WaitClients
    <2>1. UNCHANGED NotPushed
        BY <1>1 DEF WaitClients, NotPushed, StackInv, PointerInv
    <2>2. UNCHANGED Content
        BY <1>1 DEF WaitClients, Content, Popping
    <2>3. QED BY <1>1, <2>1, <2>2 DEF WaitClients, Pool!poolVars
<1>e. CASE EpollFails
    BY <1>e, PoolUnchanged DEF EpollFails
<1>2. CASE MainStep
    <2>1. CASE AddSocketLock
        BY <2>1, PoolUnchanged DEF AddSocketLock
    <2>2. CASE AddSocketPush
        <3>1. ~Popping /\ Content = mStack
            BY <2>2, NobodyPops DEF AddSocketPush, PushAndUnlock, StackInv, LockInv
        <3>2. Content' = Append(Content, mainArg)
            BY <2>2, <3>1 DEF AddSocketPush, PushAndUnlock, Content, Popping
        <3>3. mainArg \in NotPushed \cup {NullPtr} /\ NotPushed' = NotPushed \ {mainArg}
            BY <2>2 DEF AddSocketPush, PushAndUnlock, NotPushed, OwnedOnce
        <3>4. Pool!Add(mainArg)
            BY <2>2, <3>2, <3>3 DEF AddSocketPush, PushAndUnlock, Pool!Add
        <3>5. QED BY <3>4 DEF Pool!PoolNext
    <2>3. CASE NotifyOneLock
        BY <2>3, PoolUnchanged DEF NotifyOneLock
    <2>4. CASE NotifyOne
        BY <2>4, PoolUnchanged DEF NotifyOne
    <2>5. CASE LoopTest
        BY <2>5, PoolUnchanged DEF LoopTest
    <2>6. CASE Join
        <3>1. ~Popping' /\ DestroyStack /\ ~StackGone
            BY <2>6 DEF Join, AllDone, DestroyStack, Popping
        <3>2. QED BY <3>1, PoolDestroyed
    <2>7. CASE Unwind
        BY <2>7, PoolDestroyed DEF Unwind, Popping
    <2>8. CASE ExitJoin
        BY <2>8, PoolUnchanged DEF ExitJoin, AllDone
    <2>9. QED BY <1>2, <2>1, <2>2, <2>3, <2>4, <2>5, <2>6, <2>7, <2>8 DEF MainStep
<1>3. CASE Signal
    BY <1>3, PoolUnchanged DEF Signal
<1>4. CASE Handler
    <2>1. CASE NextCallback
        BY <2>1, PoolUnchanged DEF NextCallback
    <2>2. CASE NotifyAll
        BY <2>2, PoolUnchanged DEF NotifyAll
    <2>3. QED BY <1>4, <2>1, <2>2 DEF Handler
<1>5. ASSUME NEW w \in Workers,
             WorkerStep(w) \/ WakeUnnotified(w) \/ Dangling(w)
      PROVE [Pool!PoolNext]_Pool!poolVars
    <2>1. CASE LockStack(w)
        BY <2>1, PoolUnchanged DEF LockStack
    <2>2. CASE EnterWait(w)
        BY <2>2, PoolUnchanged DEF EnterWait
    <2>3. CASE RegisterCallback(w)
        BY <2>3, PoolUnchanged DEF RegisterCallback
    <2>4. CASE TestPredicate(w)
        BY <2>4, PoolUnchanged DEF TestPredicate
    <2>5. CASE LockCv(w)
        BY <2>5, PoolUnchanged DEF LockCv
    <2>6. CASE TestStop(w)
        BY <2>6, PoolUnchanged DEF TestStop
    <2>7. CASE ~StackGone /\ Block(w)
        BY <2>7, PoolUnchanged DEF Block
    <2>8. CASE WakeUnnotified(w)
        BY <2>8, PoolUnchanged DEF WakeUnnotified
    <2>9. CASE Awake(w)
        BY <2>9, PoolUnchanged DEF Awake
    <2>10. CASE Relock(w)
        BY <2>10, PoolUnchanged DEF Relock
    <2>11. CASE Deregister(w)
        BY <2>11, PoolUnchanged DEF Deregister
    <2>12. CASE ReturnNull(w)
        BY <2>12, PoolUnchanged DEF ReturnNull, ReturnNullKeeping
    <2>13. CASE ~StackGone /\ MoveTop(w)
        <3>1. mutex = w /\ pc[w] = "decide" /\ held[w] = NullPtr /\ mStack # <<>>
            BY <2>13 DEF MoveTop, MoveTopKeeping, StackInv, LockInv, HoldsStack, PointerInv
        <3>2. Content = mStack
            BY <3>1, NobodyPops DEF StackInv
        <3>3. Popping'
            BY <2>13 DEF MoveTop, MoveTopKeeping, Popping
        <3>4. Content' = Front(mStack)
            BY <2>13, <3>1, <3>3, TopFacts DEF MoveTop, MoveTopKeeping, Content
        <3>5. UNCHANGED <<NotPushed, closed>> /\ held' = [held EXCEPT ![w] = Last(mStack)]
            BY <2>13 DEF MoveTop, MoveTopKeeping, NotPushed
        <3>6. Pool!Take(w)
            BY <3>1, <3>2, <3>4, <3>5 DEF Pool!Take, Last, Front, Pool!Last, Pool!Front
        <3>7. QED BY <3>6 DEF Pool!PoolNext
    <2>14. CASE ~StackGone /\ Pop(w)
        <3>1. pc[w] = "pop" /\ \A v \in Workers : v # w => pc[v] # "pop"
            BY <2>14 DEF Pop, StackInv, LockInv, HoldsStack
        <3>2. ~Popping' /\ Content = Front(mStack)
            BY <2>14, <3>1 DEF Pop, Popping, Content
        <3>3. UNCHANGED <<Content, NotPushed, held, closed>>
            BY <2>14, <3>2 DEF Pop, Content, NotPushed
        <3>4. QED BY <3>3 DEF Pool!poolVars
    <2>15. CASE Returned(w)
        <3>1. UNCHANGED <<NotPushed, Content>>
            BY <2>15 DEF Returned, NotPushed, Content, Popping
        <3>2. CASE held[w] = NullPtr \/ UNCHANGED <<held, closed>>
            <4>1. ASSUME held[w] = NullPtr, DropSocket(w)
                  PROVE  UNCHANGED <<held, closed>>
                <5>1. {held[w]} \ {NullPtr} = {} /\ [held EXCEPT ![w] = NullPtr] = held
                    BY <4>1
                <5>2. QED BY <4>1, <5>1 DEF DropSocket
            <4>2. UNCHANGED <<held, closed>>
                BY <2>15, <3>2, <4>1 DEF Returned
            <4>3. QED BY <3>1, <4>2 DEF Pool!poolVars
        <3>3. CASE held[w] # NullPtr /\ ~UNCHANGED <<held, closed>>
            <4>1. Pool!Close(w)
                BY <2>15, <3>1, <3>3 DEF Returned, DropSocket, Pool!Close
            <4>2. QED BY <4>1 DEF Pool!PoolNext
        <3>4. QED BY <3>2, <3>3
    <2>16. CASE Dangling(w)
        BY <2>16, PoolUnchanged DEF Dangling, InCall, Without
    <2>17. QED
        BY <1>5, <2>1, <2>2, <2>3, <2>4, <2>5, <2>6, <2>7, <2>8,
           <2>9, <2>10, <2>11, <2>12, <2>13, <2>14, <2>15, <2>16
        DEF WorkerStep, CallStep
<1>6. ASSUME NEW w \in Workers, EndServe(w) PROVE [Pool!PoolNext]_Pool!poolVars
    <2>1. UNCHANGED <<NotPushed, Content>>
        BY <1>6 DEF EndServe, NotPushed, Content, Popping
    <2>2. held[w] # NullPtr
        BY <1>6 DEF EndServe, StackInv, PointerInv
    <2>3. Pool!Close(w)
        BY <1>6, <2>1, <2>2 DEF EndServe, Pool!Close
    <2>4. QED BY <2>3 DEF Pool!PoolNext
<1>7. CASE UNCHANGED vars
    BY <1>7, PoolUnchanged DEF vars
<1>8. QED BY <1>1, <1>e, <1>2, <1>3, <1>4, <1>5, <1>6, <1>7 DEF Next

(* The stack is a pool of atomic operations to its callers (main.cpp 70,   *)
(* Worker.cpp 78), for any number of workers and sockets.                  *)
THEOREM Implements == Spec => PoolSpec
<1>1. Init => Pool!PoolInit
    BY StackAssumption DEF Init, Pool!PoolInit, NotPushed, Content, Popping
<1>2. TypeOK /\ StackInv /\ (\A s \in Sockets : OwnedOnce(s)) /\ [Next]_vars
        => [Pool!PoolNext]_Pool!poolVars
    BY PoolStep
<1> DEFINE OInv == \A s \in Sockets : OwnedOnce(s)
<1>3. Spec => []OInv
    BY Ownership
<1>4. TypeOK /\ StackInv /\ OInv /\ [Next]_vars => [Pool!PoolNext]_Pool!poolVars
    BY <1>2
<1> HIDE DEF OInv
<1>5. Spec => Pool!PoolSpec
    BY <1>1, <1>3, <1>4, Invariant, PTL DEF Spec, Pool!PoolSpec
<1>6. QED BY <1>5 DEF PoolSpec
=============================================================================
