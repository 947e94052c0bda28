----------------------------- MODULE MCEventLoop -----------------------------
(***************************************************************************)
(* The bundled async-mutex Mutex and the page's load sequence on the one   *)
(* event loop they share.  Three clients take the Mutex twice each (enough *)
(* for a queue of two waiters behind a holder, and for a client to queue   *)
(* again behind others) while the page loads three commands.  JavaScript   *)
(* runs one task to completion: no Mutex code runs while timedForEach's    *)
(* loop runs synchronously (PageLoad's NoTaskRunning), and a new task (a   *)
(* load event, the ready handler, a timer, a click) starts only once the   *)
(* microtasks are drained, which here are the continuations of resolved    *)
(* tickets.  Each component's properties are checked in the composition.   *)
(***************************************************************************)
EXTENDS Naturals, FiniteSets, Sequences

CONSTANTS c1, c2, c3, none

MCClients == {c1, c2, c3}
MCRounds == 2

VARIABLES mutex, pc, rounds, acquires, grants,
          readyState, dataInline, hasStats, statsPc, i, elapsed, plotsRead, content

mvars == <<mutex, pc, rounds, acquires, grants>>
pvars == <<readyState, dataInline, hasStats, statsPc, i, elapsed, plotsRead, content>>
vars == <<mvars, pvars>>

AM == INSTANCE AsyncMutex WITH Clients <- MCClients, Rounds <- MCRounds
PL == INSTANCE PageLoad WITH NumCmds <- 3, MaxTimePerChunk <- 2,
                             ItemCosts <- {1, 2}, SleepTimes <- {1, 3}

(* Clicks go to the first command only: no property checked here reads   *)
(* the click handler's result, and click_before_hydration checks clicks on *)
(* every command.                                                          *)
ClickedCmds == {0}

(* No resolved ticket waits for its continuation. *)
MicrotasksDrained == \A c \in MCClients : pc[c] # "granted"

(* A step of Mutex code: a client's acquire(), a continuation, a release. *)
MutexStep(A) == PL!NoTaskRunning /\ A /\ UNCHANGED pvars

(* A step of the page that starts a new task. *)
TaskStep(A) == MicrotasksDrained /\ A /\ UNCHANGED mvars

(* A step of the page inside the running task or a continuation. *)
PageStep(A) == A /\ UNCHANGED mvars

Init == AM!Init /\ PL!Init

Next ==
    \/ \E c \in MCClients : \/ MutexStep(AM!CallAcquire(c))
                            \/ MutexStep(AM!Resume(c))
                            \/ MutexStep(AM!Release(c))
    \/ TaskStep(PL!DomContentLoaded) \/ TaskStep(PL!Load)
    \/ TaskStep(PL!GenerateMiscStats) \/ TaskStep(PL!Wake)
    \/ \E c \in ClickedCmds : TaskStep(PL!HandleClickOnCmd(c))
    \/ PageStep(PL!HydrateItem) \/ PageStep(PL!FinishStats)

(* The fairness of each component, on its steps in the composition. *)
Fairness ==
    /\ \A c \in MCClients : /\ WF_vars(MutexStep(AM!Resume(c)))
                            /\ WF_vars(MutexStep(AM!Release(c)))
    /\ WF_vars(TaskStep(PL!DomContentLoaded)) /\ WF_vars(TaskStep(PL!Load))
    /\ WF_vars(TaskStep(PL!GenerateMiscStats)) /\ WF_vars(TaskStep(PL!Wake))
    /\ WF_vars(PageStep(PL!HydrateItem)) /\ WF_vars(PageStep(PL!FinishStats))

Spec == Init /\ [][Next]_vars /\ Fairness

-----------------------------------------------------------------------------
TypeOK == AM!TypeOK /\ PL!TypeOK

(* At most one client holds the lock, counting a client whose ticket      *)
(* resolved but whose continuation has not run yet.  Relies on acquire()  *)
(* testing _pending and on _dispatchNext keeping it set while it hands    *)
(* the lock on (dist/main.js lines 105-152).                              *)
MutualExclusion == AM!MutualExclusion

(* Tickets resolve in the order acquire() was called (FIFO, spec section  *)
(* 5: "requests queue in FIFO order").                                    *)
GrantsInAcquireOrder == AM!GrantsInAcquireOrder

(* Every client that calls acquire() eventually holds the lock, whatever  *)
(* the page does meanwhile.                                                *)
EveryAcquireGranted == AM!EveryAcquireGranted

(* The refinement mapping: the owner is the client whose ticket resolved,  *)
(* whether or not its continuation has run; the waiting line is the        *)
(* Mutex's _queue of unresolved tickets.                                    *)
Owner == IF AM!Holders = {} THEN none ELSE CHOOSE c \in AM!Holders : TRUE

FIFO == INSTANCE FifoLock
          WITH Clients <- MCClients, Rounds <- MCRounds, NoOwner <- none,
               owner <- Owner, waiting <- mutex.queue, requests <- rounds

(* The Mutex implements a FIFO lock: every step of acquire(), of a         *)
(* continuation and of _dispatchNext is a step of FifoLock or leaves its   *)
(* state alone, and its owner always gets to release.                       *)
FifoLockSpec == FIFO!ASpec

(* The plots of stats.js read fileWriteEvents_length and the other command *)
(* data only of hydrated commands: generateMiscStats awaits the whole of   *)
(* timedForEach, across all its sleeps, before it draws (stats.js l. 15).  *)
PlotsReadHydratedData == PL!PlotsReadHydratedData

(* Every command is eventually hydrated: timedForEach runs to the end of   *)
(* the array, whatever the chunks, sleeps and Mutex steps in between.      *)
HydrationCompletes == PL!HydrationCompletes

=============================================================================
