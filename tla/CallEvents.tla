----------------------------- MODULE CallEvents -----------------------------
(***************************************************************************)
(* The events of a call in progress, as the SIP proxies publish them, the  *)
(* realtime service stores and forwards them and the portals show them.    *)
(* A full message describes the call (the proxy's Trying, or the record    *)
(* the realtime service keeps); the others only say what changed.          *)
(***************************************************************************)
EXTENDS Naturals

\* The states of a call, in the order of the proxies' numbers 0 to 4.
Rank == [Trying |-> 0, Proceeding |-> 1, Early |-> 2, Confirmed |-> 3, Terminated |-> 4]

State == DOMAIN Rank

Event == State \cup {"UpdateCLID"}

\* The time of a message: of the set-up of the call, its answer or another event.
Time == {"setup", "answer", "other"}

\* The remote party: the one first called, one it was transferred to, or none.
Party == {"first", "next", "none"}

Message ==
    {m \in [full : BOOLEAN, event : Event, time : Time, party : Party] :
        m.full => m.event # "UpdateCLID"}

Setup == [full |-> TRUE, event |-> "Trying", time |-> "setup", party |-> "first"]

\* Time is the moment of the event; only UpdateCLID names a party.
Change(event) ==
    [full |-> FALSE, event |-> event,
     time |-> IF event = "Confirmed" THEN "answer" ELSE "other",
     party |-> IF event = "UpdateCLID" THEN "next" ELSE "none"]

\* The state next may follow last: forward, or a new attempt after a failed one.
Follows(last, next) ==
    \/ Rank[next] > Rank[last]
    \/ last = "Terminated" /\ next = "Trying"

=============================================================================
