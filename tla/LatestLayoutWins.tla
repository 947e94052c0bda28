-------------------------- MODULE LatestLayoutWins --------------------------
(***************************************************************************)
(* What spec.md sections 5 and 8 ask of the annotation renderer, free of   *)
(* the lock, the stamps and the event loop: layout requests are served one *)
(* at a time, in the order they were made; serving one first clears the    *)
(* drawn labels and then draws its own layout or gives up; only a request  *)
(* that a newer one has replaced may give up; and every request is         *)
(* eventually served.  A replaced request may still draw (the stamp is     *)
(* tested only at its yield points), so "the latest wins" means: the       *)
(* layout left once all requests are served is the latest one.             *)
(* AnnotationLineRender implements it (MCAnnotationLineRender, property    *)
(* RenderRefinesLatestWins).                                               *)
(***************************************************************************)
EXTENDS Naturals, FiniteSets

CONSTANTS
  Requests,  \* the layout requests, numbered in the order they are made
  None       \* no request

VARIABLES
  requested, \* the requests made so far
  latest,    \* the last request made
  started,   \* the requests whose serving has begun
  serving,   \* the request being served, or None
  drawn      \* the requests whose layout is on the plot

lvars == <<requested, latest, started, serving, drawn>>

LInit ==
  /\ requested = {} /\ latest = None
  /\ started = {} /\ serving = None /\ drawn = {}

(* A new layout request (a zoom); requests are made in order. *)
Request(r) ==
  /\ r \notin requested
  /\ \A q \in Requests : q < r => q \in requested
  /\ requested' = requested \cup {r}
  /\ latest' = r
  /\ UNCHANGED <<started, serving, drawn>>

(* Giving up is allowed only to a request that is no longer the latest. *)
Outcomes(r) == {{r}} \cup (IF r # latest THEN {{}} ELSE {})

(* Serving the oldest pending request begins, when none is being served: *)
(* the plot is cleared, and the request either goes on in the background *)
(* or ends at once, drawing its layout or giving up.                     *)
Start(r) ==
  /\ serving = None
  /\ r \in requested \ started
  /\ \A q \in requested \ started : r <= q
  /\ started' = started \cup {r}
  /\ \/ serving' = r /\ drawn' = {}
     \/ serving' = None /\ drawn' \in Outcomes(r)
  /\ UNCHANGED <<requested, latest>>

(* The request being served ends: it draws its layout or gives up. *)
Finish(r) ==
  /\ serving = r
  /\ serving' = None
  /\ drawn' \in Outcomes(r)
  /\ UNCHANGED <<requested, latest, started>>

LNext == \E r \in Requests : Request(r) \/ Start(r) \/ Finish(r)

(* Serving always goes on; new requests are up to the user. *)
LSpec == LInit /\ [][LNext]_lvars
         /\ WF_lvars(\E r \in Requests : Start(r))
         /\ WF_lvars(\E r \in Requests : Finish(r))

=============================================================================
