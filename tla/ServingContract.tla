--------------------------- MODULE ServingContract ---------------------------
(***************************************************************************)
(* What the gateway promises its clients, with no queue, no swap pipeline, *)
(* no subprocess and no GPU in sight.  One model at a time is loaded.  A   *)
(* request waits until its model is loaded and is then served, or is       *)
(* turned away because its model could not be loaded or the gateway is     *)
(* shutting down.  A model is loaded only because somebody waits for it,   *)
(* and taken away only when nobody is being served.                        *)
(***************************************************************************)
CONSTANTS Models, Requests, None

VARIABLES
  loaded,    \* the model being served, or None
  request,   \* how far each request has come
  asked,     \* the model each request is for, None before it is submitted
  closing    \* TRUE once the gateway no longer serves

vars == <<loaded, request, asked, closing>>

Waiting(m) == {r \in Requests : request[r] = "waiting" /\ asked[r] = m}
Granted    == {r \in Requests : request[r] = "granted"}

\* The requests of a set R all move on to the state s.
Move(R, s) == request' = [r \in Requests |-> IF r \in R THEN s ELSE request[r]]

Init == /\ loaded = None
        /\ request = [r \in Requests |-> "idle"]
        /\ asked = [r \in Requests |-> None]
        /\ closing = FALSE

Submit(r, m) == /\ ~closing
                /\ request[r] = "idle"
                /\ Move({r}, "waiting")
                /\ asked' = [asked EXCEPT ![r] = m]
                /\ UNCHANGED <<loaded, closing>>

\* Everyone who waits for the loaded model is served together.
Serve == /\ loaded # None
         /\ Waiting(loaded) # {}
         /\ Move(Waiting(loaded), "granted")
         /\ UNCHANGED <<loaded, asked, closing>>

Answer(r) == /\ request[r] = "granted"
             /\ Move({r}, "released")
             /\ UNCHANGED <<loaded, asked, closing>>

\* A load of m failed: everyone who waits for m hears of it.
Reject(m) == /\ loaded = None
             /\ Waiting(m) # {}
             /\ Move(Waiting(m), "rejected")
             /\ UNCHANGED <<loaded, asked, closing>>

\* There is no predictive prefetch: only demand loads a model.
Load(m) == /\ loaded = None
           /\ Waiting(m) # {} \/ closing
           /\ loaded' = m
           /\ UNCHANGED <<request, asked, closing>>

Unload == /\ loaded # None
          /\ Granted = {}
          /\ loaded' = None
          /\ UNCHANGED <<request, asked, closing>>

Shutdown == /\ ~closing
            /\ closing' = TRUE
            /\ Move({r \in Requests : request[r] = "waiting"}, "rejected")
            /\ UNCHANGED <<loaded, asked>>

Next == \/ \E r \in Requests : Answer(r) \/ \E m \in Models : Submit(r, m)
        \/ \E m \in Models : Reject(m) \/ Load(m)
        \/ Serve \/ Unload \/ Shutdown

Spec == Init /\ [][Next]_vars
=============================================================================
