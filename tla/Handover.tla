------------------------------- MODULE Handover -------------------------------
(***************************************************************************)
(* What a mid-session region migration promises: the user is always served *)
(* by somebody.  Workers may be added in other regions; the client is      *)
(* offered one region, which has a worker, and only during the session;    *)
(* the worker of the home region is retired only once an offer was made.   *)
(***************************************************************************)
CONSTANTS Home, Regions, None

VARIABLES
  workers,  \* regions that have a worker for the session
  offers,   \* regions whose room a message to the client names
  ended     \* the home worker ended by itself: the user left, or it failed
vars == <<workers, offers, ended>>

Init == workers = {Home} /\ offers = {} /\ ended = FALSE

Start(r) == r \in Regions \ workers /\ workers' = workers \cup {r} /\ UNCHANGED <<offers, ended>>
Offer(r) ==
  /\ r \in workers \ {Home} /\ offers \subseteq {r} /\ ~ended
  /\ offers' = {r} /\ UNCHANGED <<workers, ended>>
Retire ==
  /\ Home \in workers /\ offers # {}
  /\ workers' = workers \ {Home} /\ UNCHANGED <<offers, ended>>
Leave ==
  /\ Home \in workers /\ workers' = workers \ {Home}
  /\ ended' = TRUE /\ UNCHANGED offers

Next == Retire \/ Leave \/ \E r \in Regions : Start(r) \/ Offer(r)
Spec == Init /\ [][Next]_vars
=============================================================================
