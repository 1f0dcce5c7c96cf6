------------------------------ MODULE CallsTable ------------------------------
(***************************************************************************)
(* The table of active calls of the React portals: the hook               *)
(* useRealtimeCalls, which keeps the rows twice, in a state that is        *)
(* rendered and in a reference that handlers change at once, and           *)
(* useWsClient, which opens a socket per token.  What the socket delivers  *)
(* is any feed that goes forward (CallEvents!Follows), which ActiveCalls   *)
(* shows of the realtime service.                                          *)
(*                                                                         *)
(* A call of setCalls is evaluated at once when no other is pending and    *)
(* React so chooses, and at the next render otherwise.                     *)
(***************************************************************************)
EXTENDS CallEvents, Sequences

CONSTANTS
    Call,           \* calls, by Call-ID
    NoRow,          \* the table has no row for the call
    MaxPending,     \* bound: updates of the table between two renders
    MaxSockets,     \* bound: sockets opened
    MaxGateways     \* bound: gateways tried for a call

ASSUME BoundsAssumption ==
    MaxPending \in Nat /\ MaxSockets \in Nat \ {0} /\ MaxGateways \in Nat

ASSUME NoRowAssumption == NoRow \notin [event : State, time : Time, party : Party]

VARIABLES
    portal,     \* "client", or "brand" (the platform portal is alike)
    truth,      \* the state of each call's dialog
    tried,      \* gateways that failed
    socket,     \* the socket of the current token
    opened,     \* sockets opened so far
    closing,    \* the last event of an old socket, on its way: "close", "error" or "no"
    snap,       \* full records the socket delivers before any event
    ready,      \* the table is shown
    calls,      \* the state: the rows rendered last
    sync,       \* the reference syncCallsRef.current
    pend,       \* updates of the state that wait for a render
    again,      \* a render with no update of the state is due
    old,        \* calls that are over for three hours
    calm,       \* history: no change met one that was not rendered yet
    missed,     \* history: calls with an event that no socket delivered, or a
                \* record that is not their state
    behind      \* history: calls with a record of an earlier state

envVars == <<portal, truth, tried, old, missed, behind>>
wsVars == <<socket, opened, closing, snap, ready>>
table == <<calls, sync, pend, again, calm>>
vars == <<envVars, wsVars, table>>

Row == [event : State, time : Time, party : Party]
Rows == [Call -> Row \cup {NoRow}]
Empty == [c \in Call |-> NoRow]

\* An argument of setCalls: new rows, or a function that changes the reference.
Update ==
    [kind : {"set"}, rows : Rows]
        \cup [kind : {"create"}, call : Call, row : Row]
        \cup [kind : {"confirm", "party", "delete"}, call : Call]

TypeOK ==
    /\ portal \in {"client", "brand"}
    /\ truth \in [Call -> State \cup {"none"}]
    /\ tried \in [Call -> 0 .. MaxGateways]
    /\ socket \in {"connecting", "subscribed", "deaf", "dead"}
    /\ opened \in 1 .. MaxSockets
    /\ closing \in {"no", "close", "error"}
    /\ snap \in [Call -> State \cup {"none"}]
    /\ ready \in BOOLEAN
    /\ calls \in Rows
    /\ sync \in Rows
    /\ pend \in Seq(Update)
    /\ again \in BOOLEAN
    /\ old \in SUBSET Call
    /\ calm \in BOOLEAN
    /\ missed \in SUBSET Call
    /\ behind \in SUBSET Call

Init ==
    /\ portal \in {"client", "brand"}
    /\ truth \in [Call -> {"none", "Trying", "Confirmed"}]
    /\ tried = [c \in Call |-> 0]
    /\ socket = "connecting" /\ opened = 1 /\ closing = "no"
    /\ snap = [c \in Call |-> "none"]
    /\ ready = FALSE
    /\ calls = Empty /\ sync = Empty /\ pend = <<>> /\ again = FALSE
    /\ old = {} /\ calm = TRUE /\ missed = {} /\ behind = {}

-----------------------------------------------------------------------------
(* setCalls and rendering.                                                 *)

\* The rows of the reference after an update is evaluated.
Evaluated(rows, u) ==
    CASE u.kind = "create" -> [rows EXCEPT ![u.call] = u.row]
      [] u.kind = "confirm" -> [rows EXCEPT ![u.call].time = "answer"]
      [] u.kind = "party" -> [rows EXCEPT ![u.call].party = "next"]
      [] u.kind = "delete" -> [rows EXCEPT ![u.call] = NoRow]

\* setCalls, the reference being rows already.
SetCalls(rows, u) ==
    /\ Len(pend) < MaxPending
    /\ \/ /\ u.kind # "set" /\ pend = <<>>
          /\ sync' = Evaluated(rows, u)
          /\ pend' = <<[kind |-> "set", rows |-> Evaluated(rows, u)]>>
       \/ /\ sync' = rows
          /\ pend' = Append(pend, u)
    /\ calm' = (calm /\ pend = <<>>)
    /\ UNCHANGED <<calls, again>>

\* One pending update: the state it gives, and the reference it leaves.
Step(s, u) ==
    IF u.kind = "set"
    THEN [state |-> u.rows, ref |-> s.ref]
    ELSE [state |-> Evaluated(s.ref, u), ref |-> Evaluated(s.ref, u)]

\* The first n pending updates, taken in order.
Rendered[n \in 0 .. Len(pend)] ==
    IF n = 0 THEN [state |-> calls, ref |-> sync]
    ELSE Step(Rendered[n - 1], pend[n])

\* A render takes the pending updates and resets the reference;
\* useDeferredValue renders once more after the rows have changed.
Render ==
    /\ pend # <<>> \/ again
    /\ calls' = Rendered[Len(pend)].state
    /\ sync' = calls'
    /\ pend' = <<>>
    /\ again' = (pend # <<>>)
    /\ calm' = (calm /\ (pend # <<>> \/ sync = calls))
    /\ UNCHANGED <<envVars, wsVars>>

\* Mutant: ticks only refresh durations.
TickKeepingOld ==
    /\ sync # Empty /\ Len(pend) < MaxPending
    /\ SetCalls(sync, [kind |-> "set", rows |-> sync])
    /\ UNCHANGED <<envVars, wsVars>>

\* Each second: old rows leave the reference, and all of it becomes the state.
Tick ==
    /\ sync # Empty /\ Len(pend) < MaxPending
    /\ LET left == [c \in Call |-> IF c \in old THEN NoRow ELSE sync[c]] IN
       SetCalls(left, [kind |-> "set", rows |-> left])
    /\ UNCHANGED <<envVars, wsVars>>

-----------------------------------------------------------------------------
(* Messages.                                                               *)

\* Mutant: a call without its parties.
CreateCallBare(c, state) ==
    SetCalls(sync, [kind |-> "create", call |-> c, row |-> [event |-> state, time |-> "setup"]])

\* Mutant: every new row begins at Trying, that of a running call too.
CreateCallTrying(c, state) ==
    SetCalls(sync,
        [kind |-> "create", call |-> c, row |-> [event |-> "Trying", time |-> "setup", party |-> "first"]])

CreateCall(c, state) ==
    SetCalls(sync,
        [kind |-> "create", call |-> c,
         row |-> [event |-> state, time |-> "setup",
                  party |-> "first"]])

\* Mutant: a terminated call waits for the tick to leave.
UpdateCallUntilTick(c, event) ==
    LET rows == IF event = "UpdateCLID" THEN sync ELSE [sync EXCEPT ![c].event = event] IN
    CASE event = "UpdateCLID" -> SetCalls(rows, [kind |-> "party", call |-> c])
      [] event = "Confirmed" -> SetCalls(rows, [kind |-> "confirm", call |-> c])
      [] OTHER -> /\ sync' = rows
                  /\ calm' = (calm /\ pend = <<>>)
                  /\ UNCHANGED <<calls, pend, again>>

\* The reference changes at once; only some events also update the state.
UpdateCall(c, event) ==
    LET rows == IF event = "UpdateCLID" THEN sync ELSE [sync EXCEPT ![c].event = event] IN
    CASE event = "UpdateCLID" -> SetCalls(rows, [kind |-> "party", call |-> c])
      [] event = "Confirmed" -> SetCalls(rows, [kind |-> "confirm", call |-> c])
      [] event = "Terminated" -> SetCalls(rows, [kind |-> "delete", call |-> c])
      [] OTHER -> /\ sync' = rows
                  /\ calm' = (calm /\ pend = <<>>)
                  /\ UNCHANGED <<calls, pend, again>>

\* An update of a call that the reference does not have is ignored.
OnMessage(c, m) ==
    IF ~m.full /\ sync[c] # NoRow THEN UpdateCall(c, m.event)
    ELSE IF m.full /\ m.event # "Terminated" THEN CreateCall(c, m.event)
    ELSE calm' = (calm /\ pend = <<>>) /\ UNCHANGED <<calls, sync, pend, again>>

Hears(c) == socket = "subscribed" /\ snap[c] = "none"

\* The socket delivers the record it found when it subscribed.
Snapshot(c) ==
    /\ socket = "subscribed" /\ snap[c] # "none"
    /\ OnMessage(c, [Setup EXCEPT !.event = snap[c]])
    /\ snap' = [snap EXCEPT ![c] = "none"]
    /\ UNCHANGED <<envVars, socket, opened, closing, ready>>

\* The call goes on, and a subscribed socket says so; before the snapshot is
\* delivered, the event may fall between it and the subscription.
Progress(c, state) ==
    /\ IF truth[c] = "none" THEN state = "Trying" ELSE Follows(truth[c], state)
    /\ IF state = "Trying" /\ truth[c] = "Terminated"
       THEN tried[c] < MaxGateways /\ c \notin old /\ tried' = [tried EXCEPT ![c] = tried[c] + 1]
       ELSE UNCHANGED tried
    /\ truth' = [truth EXCEPT ![c] = state]
    /\ IF Hears(c)
       THEN /\ OnMessage(c, IF state = "Trying" THEN Setup ELSE Change(state))
            /\ UNCHANGED missed
       ELSE /\ missed' = IF socket = "connecting" /\ opened = 1 THEN missed ELSE missed \cup {c}
            /\ UNCHANGED table
    /\ UNCHANGED <<portal, old, behind, socket, opened, closing, snap, ready>>

\* Only the client portal follows the users' proxy, which moves parties.
MoveParty(c) ==
    /\ portal = "client" /\ Hears(c) /\ truth[c] \notin {"none", "Terminated"}
    /\ OnMessage(c, Change("UpdateCLID"))
    /\ UNCHANGED <<envVars, wsVars>>

\* Three hours after its end, at most: messages and renders do not take that
\* long, no gateway is tried any more, and the service's key is gone.  (A dialog
\* lasts three hours from its answer and a row from the set-up, so that a call
\* that lasts them all may lose its row for as long as it rang: left out.)
Age(c) ==
    /\ truth[c] = "Terminated" /\ c \notin old
    /\ snap[c] = "none" /\ pend = <<>>
    /\ old' = old \cup {c}
    /\ UNCHANGED <<portal, truth, tried, missed, behind, wsVars, table>>

-----------------------------------------------------------------------------
(* The socket: useWsClient.                                                *)

InProgress == {c \in Call : truth[c] \notin {"none", "Terminated"}}

\* The records the service may keep of a call: its state, one it has passed, of
\* which the next event was lost or is not handled yet, or none.
Kept(c) ==
    {"none"} \cup {s \in State \ {"Terminated"} :
        /\ truth[c] # "none" /\ c \notin old
        /\ tried[c] > 0 \/ Rank[s] <= Rank[truth[c]]}

\* The service has found these records; none at all if the key of any is gone
\* by the time it reads them.
Found ==
    \E record \in [Call -> State \cup {"none"}] :
        /\ \A c \in Call : record[c] \in Kept(c)
        /\ snap' = record
        /\ missed' = missed \cup
              {c \in Call : record[c] # IF c \in InProgress THEN truth[c] ELSE "none"}
        /\ behind' = behind \cup {c \in Call : record[c] \notin {"none", truth[c]}}

\* Mutant: a table that was hidden stays so.
SubscribingUnshown ==
    /\ socket = "connecting" /\ pend = <<>>
    /\ socket' = "subscribed" /\ ready' = (closing = "no")
    /\ Found
    /\ again' = TRUE
    /\ UNCHANGED <<portal, truth, tried, old, opened, closing, calls, sync, pend, calm>>

\* Opening and registering takes answers of the network; a render due waits for none.
Subscribing ==
    /\ socket = "connecting" /\ pend = <<>>
    /\ socket' = "subscribed" /\ ready' = TRUE
    /\ Found
    /\ again' = TRUE
    /\ UNCHANGED <<portal, truth, tried, old, opened, closing, calls, sync, pend, calm>>

\* The service answers a Challenge and reads no further attempt.
Challenged ==
    /\ socket = "connecting"
    /\ socket' = "deaf"
    /\ UNCHANGED <<envVars, opened, closing, snap, ready, table>>

\* The brand portal empties the state when the table is hidden.
Hide(hidden) ==
    /\ ready' = (ready /\ ~hidden)
    /\ IF portal = "brand" /\ ready /\ hidden
       THEN SetCalls(sync, [kind |-> "set", rows |-> Empty])
       ELSE again' = TRUE /\ UNCHANGED <<calls, sync, pend, calm>>

\* Another token (or filter): the old socket is closed, its close event comes
\* later, after an error event if it was not even open; the brand portal hides
\* the table, the client portal waits for the event.
NewToken ==
    /\ opened < MaxSockets
    /\ opened' = opened + 1
    /\ \/ closing' = IF socket = "dead" THEN closing ELSE "close"
       \/ socket = "connecting" /\ closing' = "error"
    /\ socket' = "connecting"
    /\ snap' = [c \in Call |-> "none"]
    /\ Hide(portal = "brand")
    /\ UNCHANGED envVars

\* The last event of an old socket: a close only matters to the client portal.
OnClose ==
    /\ closing # "no"
    /\ closing' = "no"
    /\ Hide(portal = "client" \/ closing = "error")
    /\ UNCHANGED <<envVars, socket, opened, snap>>

\* The connection dies; whether there is an error event depends on the browser.
Die ==
    /\ socket # "dead"
    /\ socket' = "dead"
    /\ \E error \in BOOLEAN : Hide(error \/ portal = "client")
    /\ snap' = [c \in Call |-> "none"]
    /\ UNCHANGED <<envVars, opened, closing>>

-----------------------------------------------------------------------------
Next ==
    \/ Render \/ Tick
    \/ \E c \in Call : Snapshot(c) \/ MoveParty(c) \/ Age(c)
    \/ \E c \in Call, state \in State : Progress(c, state)
    \/ Subscribing \/ Challenged \/ NewToken \/ OnClose \/ Die

Spec == Init /\ [][Next]_vars

\* React renders what is pending, the interval fires, messages are delivered
\* and hours pass: strongly fair, for both wait for a moment in which the
\* updates of the ticks do not fill the bound.
FairSpec ==
    /\ Spec
    /\ WF_vars(Render) /\ WF_vars(Tick)
    /\ \A c \in Call : SF_vars(Snapshot(c)) /\ SF_vars(Age(c))

-----------------------------------------------------------------------------
(* Properties.                                                             *)

\* Whatever the order of messages, renders and ticks, the state shown in a row
\* does not go back, unless another gateway was tried or a new socket began with
\* a record that was behind the call.
ShownGoesForward ==
    [][\A c \in Call :
          calls[c] # NoRow /\ calls'[c] # NoRow /\ tried'[c] = 0 /\ c \notin behind' =>
              Rank[calls'[c].event] >= Rank[calls[c].event]]_calls

\* Only a change that meets another one not rendered yet can be lost: as long as
\* none did, the rendered table has a row for exactly the calls in progress, of
\* those of which every event was delivered and every record was their state, and
\* the reference has it in the state of the dialog.
CalmTableIsCurrent ==
    calm /\ ready /\ socket = "subscribed" /\ pend = <<>> =>
        \A c \in Call \ missed :
            snap[c] = "none" =>
                IF truth[c] \in {"none", "Terminated"}
                THEN calls[c] = NoRow /\ sync[c] = NoRow
                ELSE calls[c] # NoRow /\ sync[c] # NoRow /\ sync[c].event = truth[c]

\* A table whose socket is subscribed is shown, but for one case: an event of
\* an older socket came after the Subscribing of the new one.
SubscribedIsShown ==
    socket = "subscribed" /\ ~ready => opened > 1 /\ closing = "no"

\* A row of a call that is over leaves in the end, also one that a tick took
\* back from a pending removal, or that an old connection or a lost event left.
EveryRowLeaves ==
    \A c \in Call : truth[c] = "Terminated" ~> calls[c] = NoRow \/ truth[c] # "Terminated"

=============================================================================
