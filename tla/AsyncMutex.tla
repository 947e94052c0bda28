----------------------------- MODULE AsyncMutex -----------------------------
(***************************************************************************)
(* The Mutex of the async-mutex package as bundled in                      *)
(* src/html-export/dist/main.js (lines 105-152).  It keeps a queue of the  *)
(* resolve functions of pending acquire() tickets and a flag _pending that *)
(* is true while some ticket holds the lock.  acquire() queues its ticket  *)
(* and, if the lock is free, dispatches; the release function handed to   *)
(* the holder is _dispatchNext itself, which passes the lock to the next  *)
(* queued ticket or clears _pending.                                       *)
(*                                                                         *)
(* A ticket whose resolve function has been called is "granted": its      *)
(* await continuation is queued in the event loop and runs later          *)
(* (Resume).  Until its holder calls release() the lock stays taken.      *)
(* The pure operators below are shared with AnnotationLineRender.          *)
(***************************************************************************)
EXTENDS Naturals, Sequences, FiniteSets, SequencesExt

CONSTANTS
  Clients,   \* the callers of acquire()
  Rounds     \* how often each client takes the lock

-----------------------------------------------------------------------------
(* The state of a Mutex object and the tickets a call resolves.            *)
MutexState == [queue : Seq(Clients), pending : BOOLEAN]

(* Mutant form: the constructor leaves _pending undefined. *)
InitialMutexNoFlag == [queue |-> << >>]

(* constructor, lines 106-109 *)
InitialMutex == [queue |-> << >>, pending |-> FALSE]

(* Mutant form: the last ticket is resolved (queue.pop for queue.shift). *)
DispatchNextLifo(m) ==
  IF Len(m.queue) > 0
  THEN [queue |-> Front(m.queue), pending |-> TRUE, resolved |-> {Last(m.queue)}]
  ELSE [queue |-> m.queue, pending |-> FALSE, resolved |-> {}]

(* _dispatchNext, lines 141-149: resolve the oldest ticket with the        *)
(* release function, or mark the lock free.                                *)
DispatchNext(m) ==
  IF Len(m.queue) > 0
  THEN [queue |-> Tail(m.queue), pending |-> TRUE, resolved |-> {Head(m.queue)}]
  ELSE [queue |-> m.queue, pending |-> FALSE, resolved |-> {}]

(* Mutant forms of acquire: the _pending test is dropped, or the dispatch *)
(* of a free lock is forgotten.                                            *)
AcquireNoPendingCheck(m, c) ==
  DispatchNext([m EXCEPT !.queue = Append(@, c)])
AcquireNoDispatch(m, c) ==
  [queue |-> Append(m.queue, c), pending |-> m.pending, resolved |-> {}]

(* acquire, lines 113-120: queue the ticket; dispatch if the lock is free. *)
Acquire(m, c) ==
  LET queued == [m EXCEPT !.queue = Append(@, c)]
  IN  IF ~m.pending THEN DispatchNext(queued)
      ELSE [queue |-> queued.queue, pending |-> TRUE, resolved |-> {}]

(* The mutex part of a result record. *)
MutexOf(r) == [queue |-> r.queue, pending |-> r.pending]

-----------------------------------------------------------------------------
VARIABLES
  mutex,     \* the Mutex object
  pc,        \* per client: idle, waiting, granted, holding
  rounds,    \* per client: how often it has acquired
  acquires,  \* history: clients in the order they called acquire()
  grants     \* history: clients in the order their tickets resolved

vars == <<mutex, pc, rounds, acquires, grants>>

Init ==
  /\ mutex = InitialMutex
  /\ pc = [c \in Clients |-> "idle"]
  /\ rounds = [c \in Clients |-> 0]
  /\ acquires = << >>
  /\ grants = << >>

(* A client calls acquire() and awaits its ticket. *)
CallAcquire(c) ==
  /\ pc[c] = "idle"
  /\ rounds[c] < Rounds
  /\ LET r == Acquire(mutex, c)
     IN  /\ mutex' = MutexOf(r)
         /\ pc' = [d \in Clients |-> IF d \in r.resolved THEN "granted"
                                     ELSE IF d = c THEN "waiting" ELSE pc[d]]
         /\ grants' = grants \o SetToSeq(r.resolved)
  /\ rounds' = [rounds EXCEPT ![c] = @ + 1]
  /\ acquires' = Append(acquires, c)

(* The event loop runs the continuation of a resolved ticket. *)
Resume(c) ==
  /\ pc[c] = "granted"
  /\ pc' = [pc EXCEPT ![c] = "holding"]
  /\ UNCHANGED <<mutex, rounds, acquires, grants>>

(* The holder calls the release function it was given (_dispatchNext). *)
Release(c) ==
  /\ pc[c] = "holding"
  /\ LET r == DispatchNext(mutex)
     IN  /\ mutex' = MutexOf(r)
         /\ pc' = [d \in Clients |-> IF d \in r.resolved THEN "granted"
                                     ELSE IF d = c THEN "idle" ELSE pc[d]]
         /\ grants' = grants \o SetToSeq(r.resolved)
  /\ UNCHANGED <<rounds, acquires>>

Next == \E c \in Clients : CallAcquire(c) \/ Resume(c) \/ Release(c)

(* The event loop eventually runs every queued continuation, and a holder *)
(* always releases (AnnotationLineRender.update releases in a finally).   *)
(* Calling acquire() is up to the client and is not fair.                 *)
Fairness == \A c \in Clients : WF_vars(Resume(c)) /\ WF_vars(Release(c))

Spec == Init /\ [][Next]_vars /\ Fairness

-----------------------------------------------------------------------------
TypeOK ==
  /\ mutex \in MutexState
  /\ pc \in [Clients -> {"idle", "waiting", "granted", "holding"}]
  /\ rounds \in [Clients -> 0..Rounds]
  /\ acquires \in Seq(Clients) /\ grants \in Seq(Clients)

Holders == {c \in Clients : pc[c] \in {"granted", "holding"}}

(* Safety: at most one client holds the lock, counting a client whose     *)
(* ticket resolved but whose continuation has not run yet.  Relies on     *)
(* acquire() testing _pending and on _dispatchNext keeping it set while   *)
(* it hands the lock on.                                                  *)
MutualExclusion == Cardinality(Holders) <= 1

(* Safety: tickets resolve in the order acquire() was called (FIFO, spec   *)
(* section 5: "requests queue in FIFO order").                             *)
GrantsInAcquireOrder == IsPrefix(grants, acquires)

(* Liveness: every client that calls acquire() eventually holds the lock. *)
EveryAcquireGranted == \A c \in Clients : pc[c] = "waiting" ~> pc[c] = "holding"

=============================================================================
