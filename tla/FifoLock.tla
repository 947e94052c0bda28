------------------------------ MODULE FifoLock ------------------------------
(***************************************************************************)
(* The lock that spec.md section 5 asks of the MutualExclusionGate, free   *)
(* of the event loop: a client requests the lock and gets it at once when  *)
(* it is free, otherwise it waits in line; the owner's release hands the   *)
(* lock to the longest waiter.  The owner always releases eventually.      *)
(* AsyncMutex implements it (MCEventLoop, property FifoLockSpec).           *)
(***************************************************************************)
EXTENDS Naturals, Sequences, SequencesExt

CONSTANTS
  Clients,   \* who takes the lock
  Rounds,    \* how often each client requests it
  NoOwner    \* the owner of a free lock

VARIABLES
  owner,     \* the client that has the lock, or NoOwner
  waiting,   \* the clients waiting for it, longest waiting first
  requests   \* per client: how often it has requested the lock

avars == <<owner, waiting, requests>>

AInit ==
  /\ owner = NoOwner
  /\ waiting = << >>
  /\ requests = [c \in Clients |-> 0]

Request(c) ==
  /\ c # owner /\ c \notin ToSet(waiting)
  /\ requests[c] < Rounds
  /\ IF owner = NoOwner
     THEN owner' = c /\ UNCHANGED waiting
     ELSE waiting' = Append(waiting, c) /\ UNCHANGED owner
  /\ requests' = [requests EXCEPT ![c] = @ + 1]

Release ==
  /\ owner # NoOwner
  /\ IF waiting = << >>
     THEN owner' = NoOwner /\ UNCHANGED waiting
     ELSE owner' = Head(waiting) /\ waiting' = Tail(waiting)
  /\ UNCHANGED requests

ANext == (\E c \in Clients : Request(c)) \/ Release

ASpec == AInit /\ [][ANext]_avars /\ WF_avars(Release)
=============================================================================
