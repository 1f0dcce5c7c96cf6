----------------------------- MODULE ActiveCalls -----------------------------
(***************************************************************************)
(* Active calls from the SIP proxy to a browser.  The proxy publishes the  *)
(* events of each call on a Redis channel of its own; the control          *)
(* subscriber of the realtime service keeps one Redis record per call; a   *)
(* websocket connection sends the records it finds and then forwards the   *)
(* events; the page of the administration portal keeps a row per call.     *)
(*                                                                         *)
(* Connections meet only in the records, which none of them writes, and    *)
(* channels are independent: there is one connection, whose page may be    *)
(* opened again, and a queue per call and subscriber.                      *)
(***************************************************************************)
EXTENDS CallEvents, Sequences, FiniteSets

CONSTANTS
    Call,           \* calls, each with a channel and a Redis key (one per carrier tried)
    NoRecord,       \* no Redis key, or no row in the page
    MaxGateways,    \* bound: gateways tried for a call through the trunks
    MaxCrashes,     \* bound: crashes of the proxy
    MaxRestarts,    \* bound: restarts of the realtime service, or of its client of Redis
    MaxOpenings,    \* bound: times the page is opened
    MaxQueue        \* bound: events of a call on their way to a subscriber

ASSUME BoundsAssumption ==
    /\ MaxGateways \in Nat /\ MaxCrashes \in Nat
    /\ MaxRestarts \in Nat /\ MaxOpenings \in Nat /\ MaxQueue \in Nat

ASSUME NoRecordAssumption ==
    /\ NoRecord \notin [event : State, time : Time, party : Party]
    /\ NoRecord \notin [full : BOOLEAN, event : State \cup {"none"}, time : Time,
                     party : Party, leaving : BOOLEAN]

VARIABLES
    proxy,      \* which proxy the calls go through: "trunks" or "users"
    sip,        \* what really happens to each call
    dlg,        \* lastCallState of the call's dialog in the proxy
    tried,      \* gateways that failed
    moved,      \* whether the remote party has changed
    store,      \* the Redis record of each call
    ctl,        \* published events the control subscriber has not handled
    conn,       \* the websocket connection
    keys,       \* the keys it has listed and not read yet
    wire,       \* messages on their way to the page
    rows,       \* the rows of the page
    sent,       \* history: state last put on the wire for each call
    missed,     \* history: calls whose state changed unseen by the connection
    unsynced,   \* history: calls with an event the control subscriber lost
    crashes, restarts, openings

proxyVars == <<proxy, sip, dlg, tried, moved>>
storeVars == <<store, ctl, unsynced>>
connVars == <<conn, keys, wire, sent, missed>>
bounds == <<crashes, restarts, openings>>
vars == <<proxyVars, storeVars, connVars, rows, bounds>>

Record == [event : State, time : Time, party : Party]
Row == [full : BOOLEAN, event : State \cup {"none"}, time : Time,
        party : Party, leaving : BOOLEAN]

TypeOK ==
    /\ proxy \in {"trunks", "users"}
    /\ sip \in [Call -> {"idle", "setup", "rerouting", "talking", "over"}]
    /\ dlg \in [Call -> State \cup {"none", "lost"}]
    /\ tried \in [Call -> 0 .. MaxGateways]
    /\ moved \in [Call -> BOOLEAN]
    /\ store \in [Call -> Record \cup {NoRecord}]
    /\ ctl \in [Call -> Seq(Message)]
    /\ conn \in {"closed", "open", "deaf", "registered", "listed", "read", "forwarding"}
    /\ keys \in SUBSET Call
    /\ wire \in [Call -> Seq(Message)]
    /\ rows \in [Call -> Row \cup {NoRecord}]
    /\ sent \in [Call -> State \cup {"none"}]
    /\ missed \in SUBSET Call
    /\ unsynced \in SUBSET Call
    /\ crashes \in 0 .. MaxCrashes
    /\ restarts \in 0 .. MaxRestarts
    /\ openings \in 0 .. MaxOpenings

Nothing == [c \in Call |-> <<>>]

Init ==
    /\ proxy \in {"trunks", "users"}
    /\ sip = [c \in Call |-> "idle"]
    /\ dlg = [c \in Call |-> "none"]
    /\ tried = [c \in Call |-> 0]
    /\ moved = [c \in Call |-> FALSE]
    /\ store = [c \in Call |-> NoRecord]
    /\ ctl = Nothing
    /\ conn = "closed"
    /\ keys = {}
    /\ wire = Nothing
    /\ rows = [c \in Call |-> NoRecord]
    /\ sent = [c \in Call |-> "none"]
    /\ missed = {}
    /\ unsynced = {}
    /\ crashes = 0 /\ restarts = 0 /\ openings = 0

-----------------------------------------------------------------------------
(* Redis publish: at most once, to those who are subscribed at the moment. *)

CanPublish(c) == Len(ctl[c]) < MaxQueue /\ Len(wire[c]) < MaxQueue

\* The state on the wire after a message: an UpdateCLID does not change it.
NowSent(c, m) == IF m.event = "UpdateCLID" THEN sent[c] ELSE m.event

Publish(c, m) ==
    /\ CanPublish(c)
    /\ ctl' = [ctl EXCEPT ![c] = Append(ctl[c], m)]
    /\ IF conn = "forwarding"
       THEN /\ wire' = [wire EXCEPT ![c] = Append(wire[c], m)]
            /\ sent' = [sent EXCEPT ![c] = NowSent(c, m)]
       ELSE UNCHANGED <<wire, sent>>
    /\ UNCHANGED <<store, unsynced, conn, keys, missed, rows>>

-----------------------------------------------------------------------------
(* The proxy: route[REALTIME] publishes a state that goes forward.         *)

Known(c) == dlg[c] \in State

\* Mutant: any reply is published, whatever lastCallState says.
PassesUnguarded(c, event) == Known(c)

\* lastCallState lets the event through.
Passes(c, event) ==
    /\ Known(c)
    /\ IF event = "Trying" THEN proxy = "trunks" /\ dlg[c] = "Terminated"
                           ELSE Rank[event] > Rank[dlg[c]]

\* The check, the update and the PUBLISH are one step: what two workers do with
\* two replies of one call at the same moment is left out.
REALTIME(c, event) ==
    IF Passes(c, event)
    THEN /\ dlg' = [dlg EXCEPT ![c] = event]
         /\ Publish(c, IF event = "Trying" THEN Setup ELSE Change(event))
    ELSE UNCHANGED <<dlg, storeVars, connVars, rows>>

\* The first INVITE: no state yet, the channel is chosen.
Invite(c) ==
    /\ sip[c] = "idle"
    /\ sip' = [sip EXCEPT ![c] = "setup"]
    /\ dlg' = [dlg EXCEPT ![c] = "Trying"]
    /\ Publish(c, Setup)
    /\ UNCHANGED <<proxy, tried, moved, bounds>>

\* A provisional reply, with a To tag (Early) or without (Proceeding).
ProvisionalReply(c) ==
    /\ sip[c] = "setup"
    /\ \E event \in {"Proceeding", "Early"} :
          Passes(c, event) /\ REALTIME(c, event)
    /\ UNCHANGED <<proxy, sip, tried, moved, bounds>>

Answer(c) ==
    /\ sip[c] = "setup"
    /\ sip' = [sip EXCEPT ![c] = "talking"]
    /\ REALTIME(c, "Confirmed")
    /\ UNCHANGED <<proxy, tried, moved, bounds>>

\* A gateway of the carrier fails: the attempt is Terminated, another is sought.
GatewayFails(c) ==
    /\ proxy = "trunks" /\ sip[c] = "setup" /\ tried[c] < MaxGateways
    /\ sip' = [sip EXCEPT ![c] = "rerouting"]
    /\ tried' = [tried EXCEPT ![c] = tried[c] + 1]
    /\ REALTIME(c, "Terminated")
    /\ UNCHANGED <<proxy, moved, bounds>>

\* A gateway of the same carrier.  The next carrier's attempt has a channel of its
\* own (RT_NEWCALL), so it is the Invite of another Call, and this one is over.
NextGateway(c) ==
    /\ sip[c] = "rerouting"
    /\ sip' = [sip EXCEPT ![c] = "setup"]
    /\ REALTIME(c, "Trying")
    /\ UNCHANGED <<proxy, tried, moved, bounds>>

\* The dialog fails, is cancelled or ends (BYE, or three hours have passed); or
\* a retail account's call is forwarded, and not followed from then on.
Hangup(c) ==
    /\ sip[c] \in {"setup", "rerouting", "talking"} /\ Known(c)
    /\ sip' = [sip EXCEPT ![c] = "over"]
    /\ REALTIME(c, "Terminated")
    /\ UNCHANGED <<proxy, tried, moved, bounds>>

\* The users' proxy publishes each change of the remote party.
MoveParty(c) ==
    /\ proxy = "users" /\ sip[c] \in {"setup", "talking"} /\ Known(c) /\ ~moved[c]
    /\ moved' = [moved EXCEPT ![c] = TRUE]
    /\ Publish(c, Change("UpdateCLID"))
    /\ UNCHANGED <<proxy, sip, dlg, tried, bounds>>

\* A crash forgets the dialogs: calls in setup are gone, the others talk on.
CrashProxy ==
    /\ crashes < MaxCrashes
    /\ crashes' = crashes + 1
    /\ sip' = [c \in Call |-> IF sip[c] \in {"setup", "rerouting"} THEN "over" ELSE sip[c]]
    /\ dlg' = [c \in Call |-> IF sip[c] \in {"idle", "over"} THEN dlg[c] ELSE "lost"]
    /\ UNCHANGED <<proxy, tried, moved, storeVars, connVars, rows, restarts, openings>>

\* A BYE of a dialog the proxy does not know: it looks for the call's key.
RT_UNKNOWN_BYE(c) ==
    /\ sip[c] = "talking" /\ dlg[c] = "lost"
    /\ sip' = [sip EXCEPT ![c] = "over"]
    /\ IF store[c] = NoRecord
       THEN UNCHANGED <<storeVars, connVars, rows>>
       ELSE Publish(c, Change("Terminated"))
    /\ UNCHANGED <<proxy, dlg, tried, moved, bounds>>

-----------------------------------------------------------------------------
(* The realtime service: the control subscriber.                           *)

\* Mutant: the case of UpdateCLID is forgotten.
UpdatedStatusOnly(record, m) ==
    CASE m.event = "Terminated" -> NoRecord
      [] m.event = "Trying" -> [event |-> "Trying", time |-> m.time, party |-> m.party]
      [] OTHER ->
           IF record = NoRecord \/ m.event = "UpdateCLID" THEN record
           ELSE [record EXCEPT !.event = m.event]

\* Mutant: an update of a call without record makes one of the update.
UpdatedAnyway(record, m) ==
    IF m.event = "Terminated" THEN NoRecord
    ELSE [event |-> m.event, time |-> m.time, party |-> m.party]

\* The record after a message: updates of a call without record are ignored.
Updated(record, m) ==
    CASE m.event = "Terminated" -> NoRecord
      [] m.event = "Trying" -> [event |-> "Trying", time |-> m.time, party |-> m.party]
      [] OTHER ->
           IF record = NoRecord THEN NoRecord
           ELSE IF m.event = "UpdateCLID" THEN [record EXCEPT !.party = m.party]
           ELSE [record EXCEPT !.event = m.event]

UpdateCurrentCallsStatus(c) ==
    /\ ctl[c] # <<>>
    /\ store' = [store EXCEPT ![c] = Updated(store[c], Head(ctl[c]))]
    /\ ctl' = [ctl EXCEPT ![c] = Tail(ctl[c])]
    /\ UNCHANGED <<proxyVars, unsynced, connVars, rows, bounds>>

\* Three hours after its last update a key expires.  A dialog does not last
\* longer, so the call is over or the proxy has forgotten it.
Expire(c) ==
    /\ store[c] # NoRecord /\ ctl[c] = <<>>
    /\ sip[c] = "over" \/ dlg[c] = "lost"
    /\ store' = [store EXCEPT ![c] = NoRecord]
    /\ UNCHANGED <<proxyVars, ctl, unsynced, connVars, rows, bounds>>

\* The control subscriber loses events: the service restarts, which cuts the
\* connections, or only its client of Redis connects again, which cuts none.
RestartService ==
    /\ restarts < MaxRestarts
    /\ restarts' = restarts + 1
    /\ unsynced' = unsynced \cup {c \in Call : ctl[c] # <<>>}
    /\ ctl' = Nothing
    /\ \/ conn' = "closed" /\ keys' = {} /\ wire' = Nothing
       \/ UNCHANGED <<conn, keys, wire>>
    /\ UNCHANGED <<proxyVars, store, sent, missed, rows, crashes, openings>>

-----------------------------------------------------------------------------
(* The realtime service: the websocket connection.                         *)

\* The page is opened (again): an empty table, a new socket, a Challenge.
Open ==
    /\ conn = "closed" /\ openings < MaxOpenings
    /\ openings' = openings + 1
    /\ conn' = "open"
    /\ rows' = [c \in Call |-> NoRecord]
    /\ sent' = [c \in Call |-> "none"] /\ missed' = {}
    /\ UNCHANGED <<proxyVars, storeVars, keys, wire, crashes, restarts>>

Register ==
    /\ conn = "open"
    /\ conn' = "registered"
    /\ UNCHANGED <<proxyVars, storeVars, keys, wire, sent, missed, rows, bounds>>

\* A bad token or no answer of the API: a Challenge is sent and the handler
\* returns, so that nobody reads the page's next attempts.
Refuse ==
    /\ conn = "open"
    /\ conn' = "deaf"
    /\ UNCHANGED <<proxyVars, storeVars, keys, wire, sent, missed, rows, bounds>>

ListKeys ==
    /\ conn = "registered"
    /\ conn' = "listed"
    /\ keys' = {c \in Call : store[c] # NoRecord}
    /\ UNCHANGED <<proxyVars, storeVars, wire, sent, missed, rows, bounds>>

\* One key that is gone by now makes the service send no record at all.
SendCurrentState ==
    /\ conn = "listed"
    /\ conn' = "read" /\ keys' = {}
    /\ LET found == IF \E c \in keys : store[c] = NoRecord THEN {} ELSE keys IN
       /\ wire' = [c \in Call |-> IF c \in found
             THEN <<[full |-> TRUE, event |-> store[c].event,
                     time |-> store[c].time, party |-> store[c].party]>>
             ELSE <<>>]
       /\ sent' = [c \in Call |-> IF c \in found THEN store[c].event ELSE "none"]
    /\ UNCHANGED <<proxyVars, storeVars, missed, rows, bounds>>

\* What the page should know of a call.
Expected(c) == IF dlg[c] \in {"none", "Terminated"} THEN "none" ELSE dlg[c]

\* From here on the connection gets every event; what it missed stays missed.
Subscribe ==
    /\ conn = "read"
    /\ conn' = "forwarding"
    /\ missed' = {c \in Call : sent[c] # Expected(c)}
    /\ UNCHANGED <<proxyVars, storeVars, keys, wire, sent, rows, bounds>>

\* The network cuts the connection, or its feed ends on an error, which the page
\* cannot tell from it: the page keeps its rows.
Cut ==
    /\ conn # "closed"
    /\ conn' = "closed" /\ keys' = {} /\ wire' = Nothing
    /\ UNCHANGED <<proxyVars, storeVars, sent, missed, rows, bounds>>

-----------------------------------------------------------------------------
(* The page of the administration portal.                                  *)

\* A new row.  The page takes a message of more than three fields for a full
\* one, and the proxies' updates have four: only a Terminated makes no row.
NewRow(m) ==
    IF m.event = "Terminated" THEN NoRecord
    ELSE [full |-> m.full, event |-> IF m.event = "UpdateCLID" THEN "none" ELSE m.event,
          time |-> m.time, party |-> m.party, leaving |-> FALSE]

\* Mutant: the row of a terminated call only changes its state.
ShownInState(row, m) ==
    IF row = NoRecord THEN NewRow(m) ELSE [row EXCEPT !.event = m.event]

\* The row after a message; a leaving row is still there for its animation.
Shown(row, m) ==
    IF row = NoRecord THEN NewRow(m)
    ELSE CASE m.event = "UpdateCLID" -> [row EXCEPT !.party = m.party]
           [] m.event = "Confirmed" -> [row EXCEPT !.event = m.event, !.time = m.time]
           [] m.event = "Terminated" -> [row EXCEPT !.event = m.event, !.leaving = TRUE]
           [] OTHER -> [row EXCEPT !.event = m.event]

InsertData(c) ==
    /\ wire[c] # <<>>
    /\ rows' = [rows EXCEPT ![c] = Shown(rows[c], Head(wire[c]))]
    /\ wire' = [wire EXCEPT ![c] = Tail(wire[c])]
    /\ UNCHANGED <<proxyVars, storeVars, conn, keys, sent, missed, bounds>>

\* 4.2 seconds after a Terminated the row is removed, whatever came since.
HideRow(c) ==
    /\ rows[c] # NoRecord /\ rows[c].leaving
    /\ rows' = [rows EXCEPT ![c] = NoRecord]
    /\ UNCHANGED <<proxyVars, storeVars, connVars, bounds>>

\* Mutant: only answered calls are refreshed.
TimeRefreshOngoing(c) ==
    /\ rows[c] # NoRecord /\ rows[c].event = "Confirmed" /\ wire[c] = <<>>
    /\ sip[c] = "over" \/ dlg[c] = "lost"
    /\ rows' = [rows EXCEPT ![c] = NoRecord]
    /\ UNCHANGED <<proxyVars, storeVars, connVars, bounds>>

\* The refresh of the durations removes a row after three hours.  (A dialog lasts
\* three hours from its answer, so that of a call that lasts them all may leave
\* a page, opened after the answer, as long before its end as it rang: left out.)
TimeRefresh(c) ==
    /\ rows[c] # NoRecord /\ ~rows[c].leaving /\ wire[c] = <<>>
    /\ sip[c] = "over" \/ dlg[c] = "lost"
    /\ rows' = [rows EXCEPT ![c] = NoRecord]
    /\ UNCHANGED <<proxyVars, storeVars, connVars, bounds>>

-----------------------------------------------------------------------------
Proxy(c) ==
    \/ Invite(c) \/ ProvisionalReply(c) \/ Answer(c) \/ GatewayFails(c)
    \/ NextGateway(c) \/ Hangup(c) \/ MoveParty(c) \/ RT_UNKNOWN_BYE(c)

Service(c) == UpdateCurrentCallsStatus(c) \/ Expire(c)

Connection ==
    Open \/ Register \/ Refuse \/ ListKeys \/ SendCurrentState \/ Subscribe \/ Cut

Page(c) == InsertData(c) \/ HideRow(c) \/ TimeRefresh(c)

Next ==
    \/ \E c \in Call : Proxy(c) \/ Service(c) \/ Page(c)
    \/ Connection \/ CrashProxy \/ RestartService

Spec == Init /\ [][Next]_vars

\* Subscribers read what they receive and timers fire; callers owe nothing.
FairSpec ==
    /\ Spec
    /\ \A c \in Call :
          /\ WF_vars(UpdateCurrentCallsStatus(c)) /\ WF_vars(Expire(c))
          /\ WF_vars(InsertData(c)) /\ WF_vars(HideRow(c)) /\ WF_vars(TimeRefresh(c))

-----------------------------------------------------------------------------
(* Properties.                                                             *)

\* Once the control subscriber has handled what was published of a call, the
\* Redis record says what the proxy's dialog says, and there is none when the
\* call is over: this relates lastCallState of route[REALTIME] to the keys
\* that updateCurrentCallsStatus keeps, across failed gateways, crashes of
\* the proxy and restarts that lost no event of the call.
RecordFollowsDialog ==
    \A c \in Call \ unsynced :
        ctl[c] = <<>> /\ dlg[c] # "lost" =>
            IF Expected(c) = "none" THEN store[c] = NoRecord
            ELSE /\ store[c] # NoRecord
                 /\ store[c].event = dlg[c]
                 /\ moved[c] => store[c].party = "next"

\* A call that no gateway refused and that the connection did not miss: when
\* no message is on its way, the page has a row for it, in the state of its
\* dialog and made of its description, exactly while it is in progress.
QuietViewIsCurrent ==
    conn = "forwarding" =>
        \A c \in Call \ missed :
            wire[c] = <<>> /\ dlg[c] # "lost" /\ tried[c] = 0 =>
                IF Expected(c) = "none"
                THEN rows[c] = NoRecord \/ rows[c].leaving
                ELSE /\ rows[c] # NoRecord /\ ~rows[c].leaving
                     /\ rows[c].full /\ rows[c].event = dlg[c]

\* A record or a row is replaced by one that is not behind it.
NotBehind(old, new) ==
    old # NoRecord /\ new # NoRecord =>
        new.event = old.event \/ Rank[new.event] > Rank[old.event]

\* What a connection is told of a call: no state again, and none that is behind,
\* but for the next gateway's Trying.
FeedGoesForward(c) ==
    openings' = openings /\ sent[c] # "none" /\ sent'[c] # sent[c] => Follows(sent[c], sent'[c])

\* Events are published, stored, found, forwarded and shown by processes that
\* do not wait for each other: what any of them says of a call never goes back,
\* unless it lost an event of the call (or, on the page, a gateway refused it).
NothingGoesBack ==
    [][/\ \A c \in Call \ unsynced' : NotBehind(store[c], store'[c])
       /\ \A c \in Call \ missed' :
             /\ FeedGoesForward(c)
             /\ tried'[c] = 0 => NotBehind(rows[c], rows'[c])]_vars

\* Whatever is lost - events, a dialog, a connection - the record and the row
\* of a call that is over go away in the end: by an event, or after 3 hours.
EveryGhostLeaves ==
    \A c \in Call : sip[c] = "over" ~> store[c] = NoRecord /\ rows[c] = NoRecord

=============================================================================
