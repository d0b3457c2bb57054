--------------------------- MODULE ThreadSafeStack ---------------------------
(***************************************************************************)
(* ThreadSafeStack.cpp, step by step, together with the two loops that     *)
(* call it: main's accept loop (main.cpp) and the body of Worker           *)
(* (Worker.cpp), and with sig_handler, which runs on the main thread.      *)
(*                                                                         *)
(* std::condition_variable_any is external.  It is modelled as libstdc++   *)
(* writes it: a second mutex (cvMutex) taken by notify_one, notify_all and *)
(* by a waiter between its last test of the stop flag and the moment it    *)
(* sleeps, and a stop_callback that calls notify_all.  request_stop runs   *)
(* the callbacks one after the other in the thread that calls it, here the *)
(* signal handler, so while the handler runs main itself does not step.    *)
(* POSIX leaves the choice of the thread open; Linux gives a               *)
(* process-directed signal to the main thread while it does not block it.  *)
(*                                                                         *)
(* A signal also makes main's epoll_wait fail, and the exception destroys  *)
(* the stack while workers are inside GetSocket.  The destructor is        *)
(* modelled as glibc writes pthread_cond_destroy: it waits until nobody is *)
(* left inside the wait.  What a call does after that is undefined.        *)
(***************************************************************************)
EXTENDS Naturals, Sequences, SequencesExt

CONSTANTS Workers,    \* the worker threads
          Sockets,    \* the client sockets that may be accepted
          NullPtr,    \* a unique_ptr that owns nothing
          Main,       \* the main thread
          NoThread,   \* owner of a free mutex
          MaxNulls    \* bound: how many nulls WaitClients returns

ASSUME StackAssumption ==
    /\ Workers # {}
    /\ NullPtr \notin Sockets
    /\ Main \notin Workers
    /\ NoThread \notin Workers \cup {Main}
    /\ MaxNulls \in Nat

VARIABLES
    mutex,      \* owner of m_mutex
    cvMutex,    \* owner of the mutex inside cv
    waiting,    \* workers asleep in cv and not yet woken
    callbacks,  \* workers whose stop_callback is registered
    stopped,    \* stopSource.stop_requested()
    handlerPc,  \* where sig_handler is: "none", "next" or "notify"
    running,    \* the worker whose callback the handler is running
    mStack,     \* m_stack, last element on top
    mainPc, mainArg,   \* main's place and its local unique_ptr s
    pc, held,   \* each worker's place and its local unique_ptr socket
    arriving,   \* sockets not yet accepted
    closed,     \* sockets destroyed by their owner
    nulls       \* nulls returned by WaitClients so far

locks == <<mutex, cvMutex>>
signal == <<stopped, handlerPc, running>>
main == <<mainPc, mainArg, arriving, nulls>>
vars == <<locks, waiting, callbacks, signal, mStack, main, pc, held, closed>>

MainPcs == {"wait", "lock", "push", "cvLock", "notify", "test", "join",
            "unwind", "exitJoin", "joined"}
WorkerPcs == {"lock", "enter", "register", "test", "cvLock", "stopTest", "block",
              "asleep", "relock", "relockStop", "dereg", "decide", "pop",
              "returned", "serve", "done"}

\* The stack is destroyed under the workers; who is inside a call on it.
StackGone == mainPc = "exitJoin"
InCall(w) == pc[w] \notin {"returned", "serve", "done"}

Init ==
    /\ mutex = NoThread /\ cvMutex = NoThread
    /\ waiting = {} /\ callbacks = {}
    /\ stopped = FALSE /\ handlerPc = "none" /\ running = NoThread
    /\ mStack = <<>>
    /\ mainPc = "wait" /\ mainArg = NullPtr
    /\ pc = [w \in Workers |-> "lock"]
    /\ held = [w \in Workers |-> NullPtr]
    /\ arriving = Sockets /\ closed = {} /\ nulls = 0

-----------------------------------------------------------------------------
(* The main thread: accept loop and AddSocket.                             *)

MainAt(from, to) == /\ handlerPc = "none"
                    /\ mainPc = from
                    /\ mainPc' = to

\* WaitClients returns an accepted socket, or null when accept failed.
WaitClients ==
    /\ MainAt("wait", "lock")
    /\ \/ \E s \in arriving : /\ mainArg' = s
                              /\ arriving' = arriving \ {s}
                              /\ UNCHANGED nulls
       \/ /\ nulls < MaxNulls
          /\ nulls' = nulls + 1
          /\ UNCHANGED <<mainArg, arriving>>
    /\ UNCHANGED <<locks, waiting, callbacks, signal, mStack, pc, held, closed>>

\* Mutant: AddSocket pushes without taking m_mutex.
AddSocketLock_NoLock ==
    /\ MainAt("lock", "push")
    /\ UNCHANGED <<locks, waiting, callbacks, signal, mStack, mainArg, arriving,
                   nulls, pc, held, closed>>

AddSocketLock ==
    /\ MainAt("lock", "push")
    /\ mutex = NoThread
    /\ mutex' = Main
    /\ UNCHANGED <<cvMutex, waiting, callbacks, signal, mStack, mainArg, arriving,
                   nulls, pc, held, closed>>

PushAndUnlock(next) ==
    /\ MainAt("push", next)
    /\ mStack' = Append(mStack, mainArg)
    /\ mainArg' = NullPtr
    /\ mutex' = NoThread
    /\ UNCHANGED <<cvMutex, waiting, callbacks, signal, arriving, nulls, pc, held, closed>>

\* Mutant: AddSocket returns without cv.notify_one().
AddSocketPush_NoNotify == PushAndUnlock("test")

\* The end of the block releases the lock before cv.notify_one().
AddSocketPush == PushAndUnlock("cvLock")

NotifyOneLock ==
    /\ MainAt("cvLock", "notify")
    /\ cvMutex = NoThread
    /\ cvMutex' = Main
    /\ UNCHANGED <<mutex, waiting, callbacks, signal, mStack, mainArg, arriving,
                   nulls, pc, held, closed>>

NotifyOne ==
    /\ MainAt("notify", "test")
    /\ \/ waiting = {} /\ UNCHANGED waiting
       \/ \E w \in waiting : waiting' = waiting \ {w}
    /\ cvMutex' = NoThread
    /\ UNCHANGED <<mutex, callbacks, signal, mStack, mainArg, arriving, nulls,
                   pc, held, closed>>

\* while(!t.stop_requested())
LoopTest ==
    /\ MainAt("test", IF stopped THEN "join" ELSE "wait")
    /\ UNCHANGED <<locks, waiting, callbacks, signal, mStack, mainArg, arriving,
                   nulls, pc, held, closed>>

AllDone == \A w \in Workers : pc[w] = "done"

\* ~ThreadSafeStack destroys the sockets nobody took.
DestroyStack ==
    /\ closed' = closed \cup (ToSet(mStack) \ {NullPtr})
    /\ mStack' = <<>>
    /\ UNCHANGED <<locks, waiting, callbacks, signal, mainArg, arriving, nulls, pc, held>>

\* main joins every worker; then the stack is destroyed.
Join ==
    /\ MainAt("join", "joined")
    /\ AllDone
    /\ DestroyStack

\* Server.cpp 49-54: epoll_wait fails with EINTR when sig_handler ran while
\* main waited, and after SIGSTOP and SIGCONT without any handler.
EpollFails ==
    /\ MainAt("wait", "unwind")
    /\ UNCHANGED <<locks, waiting, callbacks, signal, mStack, mainArg, arriving,
                   nulls, pc, held, closed>>

\* "there can be deadlock in case of cv waiting": ~condition_variable waits
\* for whoever sleeps in it, or was woken and has not left yet.
Unwind ==
    /\ MainAt("unwind", "exitJoin")
    /\ \A w \in Workers : pc[w] # "asleep"
    /\ DestroyStack

\* exit() destroys the global vector of jthreads, which joins them.
ExitJoin ==
    /\ MainAt("exitJoin", "joined")
    /\ AllDone
    /\ UNCHANGED <<locks, waiting, callbacks, signal, mStack, mainArg, arriving,
                   nulls, pc, held, closed>>

-----------------------------------------------------------------------------
(* sig_handler: the first SIGINT sets the flag, then the handler runs the  *)
(* registered callbacks.  It may interrupt main anywhere.                  *)

Signal ==
    /\ mainPc # "joined"
    /\ ~stopped
    /\ stopped' = TRUE
    /\ handlerPc' = "next"
    /\ UNCHANGED <<locks, waiting, callbacks, running, mStack, main, pc, held, closed>>

NextCallback ==
    /\ handlerPc = "next"
    /\ \/ \E w \in callbacks : /\ callbacks' = callbacks \ {w}
                               /\ running' = w
                               /\ handlerPc' = "notify"
       \/ /\ callbacks = {}
          /\ handlerPc' = "none"
          /\ UNCHANGED <<callbacks, running>>
    /\ UNCHANGED <<locks, waiting, stopped, mStack, main, pc, held, closed>>

\* The callback is notify_all: it takes and releases cvMutex.
NotifyAll ==
    /\ handlerPc = "notify"
    /\ cvMutex = NoThread
    /\ waiting' = {}
    /\ running' = NoThread
    /\ handlerPc' = "next"
    /\ UNCHANGED <<locks, callbacks, stopped, mStack, main, pc, held, closed>>

Handler == NextCallback \/ NotifyAll

\* The handler interrupted main inside notify_one, whose mutex the callback
\* wants: main waits for itself.
SignalDeadlock == handlerPc = "notify" /\ cvMutex = Main

-----------------------------------------------------------------------------
(* A worker inside GetSocket.                                              *)

At(w, from, to) == /\ pc[w] = from
                   /\ pc' = [pc EXCEPT ![w] = to]

\* One of the two mutexes, given back if w has it.
Without(owner, w) == IF owner = w THEN NoThread ELSE owner

\* A call on the destroyed stack is undefined.  It may come back, with what
\* it has taken or with nothing; a hang, a crash or whatever else it does is
\* a worker that stays where it is (this step is not fair).
Dangling(w) ==
    /\ StackGone /\ InCall(w) /\ running # w
    /\ pc' = [pc EXCEPT ![w] = "returned"]
    /\ mutex' = Without(mutex, w) /\ cvMutex' = Without(cvMutex, w)
    /\ callbacks' = callbacks \ {w}
    /\ UNCHANGED <<waiting, signal, mStack, main, held, closed>>

LockStack(w) ==
    /\ At(w, "lock", "enter")
    /\ mutex = NoThread
    /\ mutex' = w
    /\ UNCHANGED <<cvMutex, waiting, callbacks, signal, mStack, main, held, closed>>

\* wait_for returns at once when the stop was already requested.
EnterWait(w) ==
    /\ At(w, "enter", IF stopped THEN "decide" ELSE "register")
    /\ UNCHANGED <<locks, waiting, callbacks, signal, mStack, main, held, closed>>

\* Mutant: cv.wait_for without the stop token registers no callback.
RegisterCallback_NoToken(w) ==
    /\ At(w, "register", "test")
    /\ UNCHANGED <<locks, waiting, callbacks, signal, mStack, main, held, closed>>

\* The stop_callback's constructor: if the stop came since the test, it runs
\* notify_all itself and registers nothing.
RegisterCallback(w) ==
    /\ At(w, "register", "test")
    /\ \/ /\ ~stopped
          /\ callbacks' = callbacks \cup {w}
          /\ UNCHANGED waiting
       \/ /\ stopped
          /\ cvMutex = NoThread
          /\ waiting' = {}
          /\ UNCHANGED callbacks
    /\ UNCHANGED <<locks, signal, mStack, main, held, closed>>

TestPredicate(w) ==
    /\ At(w, "test", IF mStack = <<>> THEN "cvLock" ELSE "dereg")
    /\ UNCHANGED <<locks, waiting, callbacks, signal, mStack, main, held, closed>>

LockCv(w) ==
    /\ At(w, "cvLock", "stopTest")
    /\ cvMutex = NoThread
    /\ cvMutex' = w
    /\ UNCHANGED <<mutex, waiting, callbacks, signal, mStack, main, held, closed>>

\* Give up when the stop was requested, else release m_mutex and go to sleep.
TestStop(w) ==
    /\ At(w, "stopTest", IF stopped THEN "dereg" ELSE "block")
    /\ IF stopped THEN cvMutex' = NoThread /\ UNCHANGED mutex
                  ELSE mutex' = NoThread /\ UNCHANGED cvMutex
    /\ UNCHANGED <<waiting, callbacks, signal, mStack, main, held, closed>>

Block(w) ==
    /\ At(w, "block", "asleep")
    /\ waiting' = waiting \cup {w}
    /\ cvMutex' = NoThread
    /\ UNCHANGED <<mutex, callbacks, signal, mStack, main, held, closed>>

\* The five seconds are over, or a spurious wakeup.
WakeUnnotified(w) ==
    /\ w \in waiting
    /\ waiting' = waiting \ {w}
    /\ UNCHANGED <<locks, callbacks, signal, mStack, main, pc, held, closed>>

\* Awake: cvMutex is taken and released around the test of clock and flag.
Awake(w) ==
    /\ w \notin waiting
    /\ cvMutex = NoThread
    /\ \/ At(w, "asleep", "relockStop")
       \/ ~stopped /\ At(w, "asleep", "relock")
    /\ UNCHANGED <<locks, waiting, callbacks, signal, mStack, main, held, closed>>

Relock(w) ==
    /\ At(w, "relock", "test") \/ At(w, "relockStop", "dereg")
    /\ mutex = NoThread
    /\ mutex' = w
    /\ UNCHANGED <<cvMutex, waiting, callbacks, signal, mStack, main, held, closed>>

\* The stop_callback's destructor waits for a callback that is running.
Deregister(w) ==
    /\ At(w, "dereg", "decide")
    /\ running # w
    /\ callbacks' = callbacks \ {w}
    /\ UNCHANGED <<locks, waiting, signal, mStack, main, held, closed>>

ReturnNullKeeping(w, owner) ==
    /\ At(w, "decide", "returned")
    /\ stopped \/ mStack = <<>>
    /\ mutex' = owner
    /\ UNCHANGED <<cvMutex, waiting, callbacks, signal, mStack, main, held, closed>>

\* Mutant: an early return that forgets to unlock.
ReturnNull_Locked(w) == ReturnNullKeeping(w, w)

\* Lines 23-31: nothing to return; unique_lock releases m_mutex.
ReturnNull(w) == ReturnNullKeeping(w, NoThread)

MoveTopKeeping(w, owner) ==
    /\ At(w, "decide", "pop")
    /\ ~stopped /\ mStack # <<>>
    /\ held' = [held EXCEPT ![w] = Last(mStack)]
    /\ mStack' = [mStack EXCEPT ![Len(mStack)] = NullPtr]
    /\ mutex' = owner
    /\ UNCHANGED <<cvMutex, waiting, callbacks, signal, main, closed>>

\* Mutant: the lock is released before pop().
MoveTop_EarlyUnlock(w) == MoveTopKeeping(w, NoThread)

\* auto s = std::move(m_stack.top()): the slot keeps a null until pop().
MoveTop(w) == MoveTopKeeping(w, mutex)

Pop(w) ==
    /\ At(w, "pop", "returned")
    /\ mStack' = Front(mStack)
    /\ mutex' = NoThread
    /\ UNCHANGED <<cvMutex, waiting, callbacks, signal, main, held, closed>>

-----------------------------------------------------------------------------
(* The worker's loop around GetSocket.                                     *)

\* The local unique_ptr goes out of scope and closes the connection.
DropSocket(w) ==
    /\ closed' = closed \cup ({held[w]} \ {NullPtr})
    /\ held' = [held EXCEPT ![w] = NullPtr]

\* Mutants of Returned: the null is served like a socket; the flag is not
\* tested.
Returned_NoNullTest(w) ==
    /\ \/ /\ stopped
          /\ At(w, "returned", "done")
          /\ DropSocket(w)
       \/ /\ ~stopped
          /\ At(w, "returned", "serve")
          /\ UNCHANGED <<held, closed>>
    /\ UNCHANGED <<locks, waiting, callbacks, signal, mStack, main>>

Returned_NoStopTest(w) ==
    /\ At(w, "returned", IF held[w] = NullPtr THEN "lock" ELSE "serve")
    /\ UNCHANGED <<locks, waiting, callbacks, signal, mStack, main, held, closed>>

\* Worker.cpp 80-83: stop, retry after a null, or serve the connection.
Returned(w) ==
    /\ \/ /\ stopped
          /\ At(w, "returned", "done")
          /\ DropSocket(w)
       \/ /\ ~stopped
          /\ At(w, "returned", IF held[w] = NullPtr THEN "lock" ELSE "serve")
          /\ UNCHANGED <<held, closed>>
    /\ UNCHANGED <<locks, waiting, callbacks, signal, mStack, main>>

\* The connection is over; an exception out of the request ends the thread.
EndServe(w) ==
    /\ \/ At(w, "serve", "done")
       \/ ~stopped /\ At(w, "serve", "lock")
    /\ closed' = closed \cup {held[w]}
    /\ held' = [held EXCEPT ![w] = NullPtr]
    /\ UNCHANGED <<locks, waiting, callbacks, signal, mStack, main>>

\* GetSocket on a stack that is there.
CallStep(w) ==
    /\ ~StackGone
    /\ \/ LockStack(w) \/ EnterWait(w) \/ RegisterCallback(w) \/ TestPredicate(w)
       \/ LockCv(w) \/ TestStop(w) \/ Block(w) \/ Awake(w) \/ Relock(w)
       \/ Deregister(w) \/ ReturnNull(w) \/ MoveTop(w) \/ Pop(w)

WorkerStep(w) == CallStep(w) \/ Returned(w)

MainStep ==
    \/ AddSocketLock \/ AddSocketPush \/ NotifyOneLock \/ NotifyOne \/ LoopTest
    \/ Join \/ Unwind \/ ExitJoin

Next ==
    \/ WaitClients \/ EpollFails \/ MainStep \/ Signal \/ Handler
    \/ \E w \in Workers : \/ WorkerStep(w) \/ WakeUnnotified(w)
                          \/ Dangling(w) \/ EndServe(w)

(***************************************************************************)
(* Fairness: the scheduler runs every thread that can run, and a           *)
(* connection ends once the stop was requested, since the loop over its    *)
(* requests tests the flag and each of its calls has a timeout.  The five  *)
(* seconds of cv.wait_for are not fair, so that no property holds only     *)
(* because a lost wakeup is made good by the timeout.  Clients and signals *)
(* owe nothing (WaitClients, EpollFails, Signal, the end of a connection   *)
(* before the stop), and neither does a call on a destroyed stack.         *)
(***************************************************************************)
Fairness ==
    /\ WF_vars(MainStep)
    /\ WF_vars(Handler)
    /\ \A w \in Workers : WF_vars(WorkerStep(w))
    /\ \A w \in Workers : WF_vars(stopped /\ EndServe(w))

Spec == Init /\ [][Next]_vars /\ Fairness

-----------------------------------------------------------------------------
(* Properties.                                                             *)

TypeOK ==
    /\ mutex \in Workers \cup {Main, NoThread}
    /\ cvMutex \in Workers \cup {Main, NoThread}
    /\ waiting \subseteq Workers
    /\ callbacks \subseteq Workers
    /\ stopped \in BOOLEAN
    /\ handlerPc \in {"none", "next", "notify"}
    /\ running \in Workers \cup {NoThread}
    /\ mStack \in Seq(Sockets \cup {NullPtr})
    /\ mainPc \in MainPcs
    /\ mainArg \in Sockets \cup {NullPtr}
    /\ pc \in [Workers -> WorkerPcs]
    /\ held \in [Workers -> Sockets \cup {NullPtr}]
    /\ arriving \subseteq Sockets
    /\ closed \subseteq Sockets
    /\ nulls \in 0..MaxNulls

\* The places a socket can be in, one by one.
Places(s) ==
    {<<"arriving">> : x \in {s} \cap arriving}
    \cup {<<"main">> : x \in {s} \cap {mainArg}}
    \cup {<<"stack", i>> : i \in {j \in DOMAIN mStack : mStack[j] = s}}
    \cup {<<"worker", w>> : w \in {v \in Workers : held[v] = s}}
    \cup {<<"closed">> : x \in {s} \cap closed}

(* A socket is never lost and never shared: at every step, also between    *)
(* moving top() out and pop(), it is in exactly one place.                 *)
OneOwner == \A s \in Sockets : \E p \in Places(s) : Places(s) = {p}

(* Notify after unlock loses no wakeup: when the stack has something and   *)
(* every worker sleeps un-notified, main is still on its way to notify_one.*)
NoMissedWakeup ==
    (mStack # <<>> /\ waiting = Workers) => mainPc \in {"cvLock", "notify"}

(* The stop wakes everybody: once the handler has run the callbacks no     *)
(* worker sleeps on, however the flag raced with its last look at it.      *)
StopWakesAll == (stopped /\ handlerPc = "none") => waiting = {}

\* What the threads wait for at each place, apart from the network.
MainRuns ==
    /\ handlerPc = "none"
    /\ \/ mainPc \in {"push", "notify", "test"}
       \/ mainPc = "lock" /\ mutex = NoThread
       \/ mainPc = "cvLock" /\ cvMutex = NoThread
       \/ mainPc \in {"join", "exitJoin"} /\ AllDone
       \/ mainPc = "unwind" /\ \A w \in Workers : pc[w] # "asleep"
HandlerRuns == handlerPc = "next" \/ (handlerPc = "notify" /\ cvMutex = NoThread)
CallRuns(w) ==
    \/ pc[w] \in {"enter", "test", "stopTest", "block", "decide", "pop"}
    \/ pc[w] \in {"lock", "relock", "relockStop"} /\ mutex = NoThread
    \/ pc[w] = "register" /\ (stopped => cvMutex = NoThread)
    \/ pc[w] = "cvLock" /\ cvMutex = NoThread
    \/ pc[w] = "asleep" /\ (w \in waiting \/ cvMutex = NoThread)
    \/ pc[w] = "dereg" /\ running # w
WorkerRuns(w) == pc[w] = "returned" \/ (~StackGone /\ CallRuns(w))
SomebodyRuns == MainRuns \/ HandlerRuns \/ \E w \in Workers : WorkerRuns(w)

\* Main waits for a client or for the workers, and they for theirs or not at all.
AllOutside ==
    /\ mainPc \in {"wait", "join", "exitJoin", "joined"}
    /\ \A w \in Workers : pc[w] \in {"serve", "done"}

\* A worker is inside a call on the destroyed stack.
LostInStack == StackGone /\ \E w \in Workers : InCall(w)

(* The locks never make the threads wait for each other in a circle: some  *)
(* thread goes on without the network's help, unless all are outside the   *)
(* stack, a signal that interrupts notify_one waits for the same thread,   *)
(* or a worker was left inside the stack that an exception destroyed.      *)
NoCircularWait == SomebodyRuns \/ AllOutside \/ SignalDeadlock \/ LostInStack

(* And a thread can go on exactly if a step of the code is possible that   *)
(* needs neither a client nor SIGINT.                                      *)
StuckOnlyBySignal ==
    /\ NoCircularWait
    /\ SomebodyRuns <=>
         ENABLED \/ MainStep \/ Handler
                 \/ \E w \in Workers : WorkerStep(w) \/ WakeUnnotified(w)

(* After SIGINT every worker thread ends without waiting for a timeout,    *)
(* unless the handler deadlocked or the worker was inside GetSocket when   *)
(* the exception out of epoll_wait destroyed the stack.                    *)
StopEndsWorkers ==
    <>stopped => \/ <>[]AllDone
                 \/ <>[]SignalDeadlock
                 \/ \E w \in Workers : <>[](StackGone /\ InCall(w))

(* The deadlock that the comment in ~ThreadSafeStack fears does not happen *)
(* after a stop: the exception out of epoll_wait gets past the destructor, *)
(* because the stop's callbacks get everybody out of the wait.             *)
DestructorReturns == (stopped /\ mainPc = "unwind") ~> mainPc # "unwind"

(* As long as some worker keeps coming back for work, a pushed socket does *)
(* not stay in the stack for ever, and it is a notification that gets it   *)
(* taken, not the five seconds (arrivals are finite: with new sockets on   *)
(* top for ever, last-in-first-out would starve the bottom one).           *)
SomeWorkerFree == \E w \in Workers : pc[w] \notin {"serve", "done"}
InStack(s) == \E i \in DOMAIN mStack : mStack[i] = s
EverySocketTaken ==
    []<>SomeWorkerFree =>
        \A s \in Sockets :
            InStack(s) ~> (~InStack(s) \/ stopped \/ mainPc = "unwind")

-----------------------------------------------------------------------------
(* The inductive invariant behind the safety properties.                   *)

HoldsStack == {"enter", "register", "test", "cvLock", "stopTest", "dereg", "decide", "pop"}

\* Who is where exactly when he owns a mutex.
LockInv ==
    /\ \A w \in Workers : /\ pc[w] \in HoldsStack <=> mutex = w
                          /\ pc[w] \in {"stopTest", "block"} <=> cvMutex = w
    /\ mainPc = "push" <=> mutex = Main
    /\ mainPc = "notify" <=> cvMutex = Main

\* What the local pointers hold at each place.
PointerInv ==
    /\ mainArg # NullPtr => mainPc \in {"lock", "push"}
    /\ \A w \in Workers :
         /\ held[w] # NullPtr => pc[w] \in {"pop", "returned", "serve"}
         /\ pc[w] = "serve" => held[w] # NullPtr
         /\ pc[w] = "pop" /\ ~StackGone => mStack # <<>> /\ Last(mStack) = NullPtr

\* A sleeper, or a worker that will sleep whatever happens to the stack.
Asleep(w) == w \in waiting \/ pc[w] = "block"

\* Whoever goes to sleep saw an empty stack, and a pusher will notify.
WakeupInv ==
    /\ \A w \in waiting : pc[w] = "asleep"
    /\ StackGone => \A w \in Workers : pc[w] # "asleep"
    /\ \A w \in Workers : pc[w] \in {"cvLock", "stopTest"} => mStack = <<>>
    /\ (mStack # <<>> /\ \A w \in Workers : Asleep(w)) => mainPc \in {"cvLock", "notify"}

\* Whoever sleeps has a callback that is still to run.
CallbackInv ==
    /\ ~stopped => handlerPc = "none"
    /\ handlerPc = "notify" <=> running # NoThread
    /\ stopped /\ handlerPc = "none" => callbacks = {}
    /\ \A w \in Workers :
         /\ Asleep(w) => w \in callbacks \/ running = w
         /\ ~stopped /\ pc[w] \in {"test", "cvLock", "stopTest", "block", "asleep", "relock"}
              => w \in callbacks

StackInv == LockInv /\ PointerInv /\ WakeupInv /\ CallbackInv

-----------------------------------------------------------------------------
(* The pool as its callers see it: a socket between WaitClients and the    *)
(* push has not arrived, and the slot top() was moved out of is gone.      *)
NotPushed == arriving \cup ({mainArg} \ {NullPtr})
Popping == ~StackGone /\ \E w \in Workers : pc[w] = "pop"
Content == IF Popping THEN Front(mStack) ELSE mStack

Pool == INSTANCE SocketPool WITH arriving <- NotPushed, pool <- Content

(* The stack implements the atomic pool.                                   *)
PoolSpec == Pool!PoolSpec
=============================================================================
