-------------------------------- MODULE Reloads --------------------------------
(***************************************************************************)
(* How a change comes to the servers that keep a copy of it.  The proxies  *)
(* and CGRateS hold tables and Asterisk the dialplan in memory: a process  *)
(* that has committed a change pushes an order to read them again on a     *)
(* list of Redis, and the worker of that list calls the servers.  The hint *)
(* of a route lock is told in the same way, but its order has the state in *)
(* it instead of asking the server to read it.                             *)
(*                                                                         *)
(* A table is the number of its changes.  Orders that a worker fails to    *)
(* hand over are forgotten, except those of the list that is retried.      *)
(***************************************************************************)
EXTENDS Naturals, Sequences, FiniteSets

CONSTANTS
    Process,        \* PHP processes: requests and calls to service codes
    Table,          \* what servers read again when told
    Lock,           \* route locks
    Dialplan,       \* the table with the hints of the locks
    Change,         \* kinds of changes
    Sent,           \* the tables that a kind of change sends orders for
    Holders,        \* the servers that a table or lock is told to
    Channel,        \* the lists of Redis
    ChannelOf,      \* the list for a table or lock
    Retried,        \* the list whose orders are retried
    Swallowing,     \* lists where a failed push is only logged
    Nothing,        \* no order
    MaxChanges,     \* bound: commits
    MaxFaults       \* bound: kills and failures of Redis

What == Table \cup Lock
Server == UNION {Holders[w] : w \in What}

ASSUME ReloadsAssumption ==
    /\ Dialplan \in Table /\ Table \cap Lock = {}
    /\ Sent \in [Change -> Seq(Table)]
    /\ Holders \in [What -> SUBSET Server]
    /\ \A w \in What : Holders[w] # {}
    /\ ChannelOf \in [What -> Channel]
    /\ Retried \in Channel /\ Swallowing \subseteq Channel
    /\ MaxChanges \in Nat /\ MaxFaults \in Nat

LockState == {"none", "open", "closed", "deleted"}
Order == [what : Table, state : {"reload"}] \cup [what : Lock, state : {"open", "closed"}]

ASSUME NothingAssumption == Nothing \notin Order /\ Nothing \notin Lock \X LockState

VARIABLES
    version,    \* tables in the database: the number of changes
    lock,       \* route locks in the database
    found,      \* the lock that a process has loaded, and its state then
    todo,       \* orders that a process has not pushed yet
    list,       \* the lists of Redis
    hand,       \* the order a worker has popped
    left,       \* servers it has not called
    asleep,     \* the worker of Retried waits to push its order again
    loaded,     \* the tables as the servers have them
    hint,       \* the hints as the servers have them
    missed,     \* history: a table or lock, and a server that was not told
    crossed,    \* history: locks changed by two processes at a time
    changes, faults

database == <<version, lock>>
process == <<found, todo>>
worker == <<hand, left, asleep>>
server == <<loaded, hint>>
vars == <<database, process, list, worker, server, missed, crossed, changes, faults>>

TypeOK ==
    /\ version \in [Table -> 0 .. MaxChanges]
    /\ lock \in [Lock -> LockState]
    /\ found \in [Process -> (Lock \X LockState) \cup {Nothing}]
    /\ todo \in [Process -> Seq(Order)]
    /\ list \in [Channel -> Seq(Order)]
    /\ hand \in [Channel -> Order \cup {Nothing}]
    /\ left \in [Channel -> SUBSET Server]
    /\ \A c \in Channel : hand[c] = Nothing <=> left[c] = {}
    /\ asleep \in BOOLEAN
    /\ asleep => hand[Retried] # Nothing
    /\ loaded \in [Table -> [Server -> 0 .. MaxChanges]]
    /\ hint \in [Lock -> [Server -> LockState]]
    /\ missed \subseteq What \X Server
    /\ crossed \subseteq Lock
    /\ changes \in 0 .. MaxChanges
    /\ faults \in 0 .. MaxFaults

\* Servers that have started with what the database said.
Init ==
    /\ version = [t \in Table |-> 0]
    /\ lock \in [Lock -> {"none", "open", "closed"}]
    /\ found = [p \in Process |-> Nothing]
    /\ todo = [p \in Process |-> <<>>]
    /\ list = [c \in Channel |-> <<>>]
    /\ hand = [c \in Channel |-> Nothing]
    /\ left = [c \in Channel |-> {}]
    /\ asleep = FALSE
    /\ loaded = [t \in Table |-> [s \in Server |-> 0]]
    /\ hint = [l \in Lock |-> [s \in Server |-> lock[l]]]
    /\ missed = {} /\ crossed = {}
    /\ changes = 0 /\ faults = 0

-----------------------------------------------------------------------------
(* Orders.                                                                 *)

Reload(t) == [what |-> t, state |-> "reload"]
Tell(l, state) == [what |-> l, state |-> state]

Holds(orders, w) == \E i \in 1 .. Len(orders) : orders[i].what = w

\* Somebody is going to tell w to the server.
Owed(w, s) ==
    \/ \E p \in Process : Holds(todo[p], w)
    \/ \E c \in Channel : Holds(list[c], w)
    \/ \E c \in Channel : hand[c] # Nothing /\ hand[c].what = w /\ s \in left[c]

Fault ==
    /\ faults < MaxFaults
    /\ faults' = faults + 1

Counted ==
    /\ changes < MaxChanges
    /\ changes' = changes + 1

-----------------------------------------------------------------------------
(* Processes.                                                              *)

Idle(p) == todo[p] = <<>> /\ found[p] = Nothing

\* A change is committed, and then its handlers make their orders, those for
\* the users' proxy first.
CommitChange(p, c) ==
    /\ Idle(p)
    /\ Counted
    /\ version' = [t \in Table |->
                    IF \E i \in 1 .. Len(Sent[c]) : Sent[c][i] = t
                    THEN version[t] + 1
                    ELSE version[t]]
    /\ todo' = [todo EXCEPT ![p] = [i \in 1 .. Len(Sent[c]) |-> Reload(Sent[c][i])]]
    /\ UNCHANGED <<lock, found, list, worker, server, missed, crossed, faults>>

\* Whether a process that commits a state of the lock now is not the only one
\* whose order is to come; the order before it is older than the lock.
NotesChange(p, l) ==
    /\ crossed' = IF \E q \in Process \ {p} : Holds(todo[q], l)
                  THEN crossed \cup {l}
                  ELSE crossed \ {l}
    /\ missed' = missed \ ({l} \X Server)

\* A new lock is in the dialplan, and its hint has a state.
CreateLock(p, l, state) ==
    /\ Idle(p)
    /\ lock[l] = "none"
    /\ Counted
    /\ lock' = [lock EXCEPT ![l] = state]
    /\ version' = [version EXCEPT ![Dialplan] = @ + 1]
    /\ todo' = [todo EXCEPT ![p] = <<Reload(Dialplan), Tell(l, state)>>]
    /\ NotesChange(p, l)
    /\ UNCHANGED <<found, list, worker, server, faults>>

DeleteLock(p, l) ==
    /\ Idle(p)
    /\ lock[l] \in {"open", "closed"}
    /\ Counted
    /\ lock' = [lock EXCEPT ![l] = "deleted"]
    /\ version' = [version EXCEPT ![Dialplan] = @ + 1]
    /\ todo' = [todo EXCEPT ![p] = <<Reload(Dialplan)>>]
    /\ UNCHANGED <<found, list, worker, server, missed, crossed, faults>>

\* getRouteLock of a service code, or a request of an operator.
FindLock(p, l) ==
    /\ Idle(p)
    /\ lock[l] \in {"open", "closed"}
    /\ found' = [found EXCEPT ![p] = <<l, lock[l]>>]
    /\ UNCHANGED <<database, todo, list, worker, server, missed, crossed, changes, faults>>

\* processOpenLock, processCloseLock and processToggleLock: only a state that
\* is not the one found is written, and told.
SetLock(p, state) ==
    /\ found[p] # Nothing
    /\ found' = [found EXCEPT ![p] = Nothing]
    /\ LET l == found[p][1] IN
        IF state = found[p][2]
        THEN UNCHANGED <<lock, todo, missed, crossed, changes>>
        ELSE /\ Counted
             /\ lock' = [lock EXCEPT ![l] = IF @ = "deleted" THEN @ ELSE state]
             /\ todo' = [todo EXCEPT ![p] = <<Tell(l, state)>>]
             /\ NotesChange(p, l)
    /\ UNCHANGED <<version, list, worker, server, faults>>

\* Mutant: an order that the worker of the list is working on is not pushed again.
PushOnce(p) ==
    /\ todo[p] # <<>>
    /\ LET c == ChannelOf[Head(todo[p]).what] IN
        list' = IF hand[c] = Head(todo[p]) THEN list ELSE [list EXCEPT ![c] = Append(@, Head(todo[p]))]
    /\ todo' = [todo EXCEPT ![p] = Tail(@)]
    /\ UNCHANGED <<database, found, worker, server, missed, crossed, changes, faults>>

\* Mutant: orders are pushed at the end where they are popped.
PushInFront(p) ==
    /\ todo[p] # <<>>
    /\ list' = [list EXCEPT ![ChannelOf[Head(todo[p]).what]] = <<Head(todo[p])>> \o @]
    /\ todo' = [todo EXCEPT ![p] = Tail(@)]
    /\ UNCHANGED <<database, found, worker, server, missed, crossed, changes, faults>>

\* send of the jobs.
Push(p) ==
    /\ todo[p] # <<>>
    /\ list' = [list EXCEPT ![ChannelOf[Head(todo[p]).what]] = Append(@, Head(todo[p]))]
    /\ todo' = [todo EXCEPT ![p] = Tail(@)]
    /\ UNCHANGED <<database, found, worker, server, missed, crossed, changes, faults>>

\* The orders that the process will not push have missed all their servers.
Forgets(p, orders) ==
    missed' = missed \cup {m \in What \X Server : m[2] \in Holders[m[1]] /\ Holds(orders, m[1])}

\* Redis refuses an order.  Most jobs throw, which skips the handlers behind.
PushFails(p) ==
    /\ todo[p] # <<>>
    /\ Fault
    /\ IF ChannelOf[Head(todo[p]).what] \in Swallowing
       THEN /\ Forgets(p, <<Head(todo[p])>>)
            /\ todo' = [todo EXCEPT ![p] = Tail(@)]
       ELSE /\ Forgets(p, todo[p])
            /\ todo' = [todo EXCEPT ![p] = <<>>]
    /\ UNCHANGED <<database, found, list, worker, server, crossed, changes>>

\* The process dies between its commit and its orders.
KillProcess(p) ==
    /\ todo[p] # <<>>
    /\ Fault
    /\ Forgets(p, todo[p])
    /\ todo' = [todo EXCEPT ![p] = <<>>]
    /\ UNCHANGED <<database, found, list, worker, server, crossed, changes>>

-----------------------------------------------------------------------------
(* Workers.                                                                *)

Working(c) == hand[c] # Nothing /\ ~(c = Retried /\ asleep)

\* getJobPayload, waitForChannelTrigger: blPop.
Pop(c) ==
    /\ hand[c] = Nothing
    /\ list[c] # <<>>
    /\ hand' = [hand EXCEPT ![c] = Head(list[c])]
    /\ left' = [left EXCEPT ![c] = Holders[Head(list[c]).what]]
    /\ list' = [list EXCEPT ![c] = Tail(@)]
    /\ UNCHANGED <<database, process, asleep, server, missed, crossed, changes, faults>>

\* The worker goes on to the next server, or has done.
Done(c, s) ==
    /\ left' = [left EXCEPT ![c] = @ \ {s}]
    /\ hand' = IF left[c] = {s} THEN [hand EXCEPT ![c] = Nothing] ELSE hand

\* A server reads the table as it is now, or takes the state in the order.
CallSucceeds(c, s) ==
    /\ Working(c)
    /\ s \in left[c]
    /\ Done(c, s)
    /\ LET w == hand[c].what IN
        \/ /\ w \in Table
           /\ loaded' = [loaded EXCEPT ![w][s] = version[w]]
           /\ missed' = missed \ {<<w, s>>}
           /\ UNCHANGED hint
        \/ /\ w \in Lock
           /\ hint' = [hint EXCEPT ![w][s] = hand[c].state]
           /\ UNCHANGED <<loaded, missed>>
    /\ UNCHANGED <<database, process, list, asleep, crossed, changes, faults>>

\* A call that fails is logged, and the next server is called.
CallFails(c, s) ==
    /\ c # Retried
    /\ Working(c)
    /\ s \in left[c]
    /\ Done(c, s)
    /\ missed' = missed \cup {<<hand[c].what, s>>}
    /\ UNCHANGED <<database, process, list, asleep, server, crossed, changes, faults>>

\* Mutant: a failed order of this list is dropped like any other.
FallsOut ==
    /\ Working(Retried)
    /\ missed' = missed \cup ({hand[Retried].what} \X left[Retried])
    /\ hand' = [hand EXCEPT ![Retried] = Nothing]
    /\ left' = [left EXCEPT ![Retried] = {}]
    /\ UNCHANGED <<database, process, list, asleep, server, crossed, changes, faults>>

\* delayed: after a failure the worker sleeps with its order in hand.
FallsAsleep ==
    /\ Working(Retried)
    /\ asleep' = TRUE
    /\ UNCHANGED <<database, process, list, hand, left, server, missed, crossed, changes, faults>>

\* Mutant: a worker that exits is still asleep.
RestartsAsleep(c) ==
    /\ hand' = [hand EXCEPT ![c] = Nothing]
    /\ left' = [left EXCEPT ![c] = {}]
    /\ UNCHANGED asleep

\* What becomes of the worker when it exits: supervisord starts another one.
Restarts(c) ==
    /\ hand' = [hand EXCEPT ![c] = Nothing]
    /\ left' = [left EXCEPT ![c] = {}]
    /\ asleep' = (asleep /\ c # Retried)

\* reEnqueueJob puts the order in front of the list.
PushesAgain ==
    /\ asleep
    /\ list' = [list EXCEPT ![Retried] = <<hand[Retried]>> \o @]
    /\ Restarts(Retried)
    /\ UNCHANGED <<database, process, server, missed, crossed, changes, faults>>

\* A worker is killed, an exception ends it, or reEnqueueJob fails and nobody
\* looks at what it returns: its order is gone.
LosesOrder(c) ==
    /\ hand[c] # Nothing
    /\ Fault
    /\ missed' = missed \cup ({hand[c].what} \X left[c])
    /\ Restarts(c)
    /\ UNCHANGED <<database, process, list, server, crossed, changes>>

-----------------------------------------------------------------------------

Operate(p) ==
    \/ \E c \in Change : CommitChange(p, c)
    \/ \E l \in Lock, state \in {"open", "closed"} : CreateLock(p, l, state)
    \/ \E l \in Lock : DeleteLock(p, l)
    \/ \E l \in Lock : FindLock(p, l)
    \/ \E state \in {"open", "closed"} : SetLock(p, state)
    \/ PushFails(p)
    \/ KillProcess(p)

Call(c) == \E s \in Server : CallSucceeds(c, s) \/ CallFails(c, s)

Work(c) ==
    \/ Pop(c)
    \/ Call(c)
    \/ c = Retried /\ (FallsAsleep \/ PushesAgain)

Next ==
    \/ \E p \in Process : Operate(p) \/ Push(p)
    \/ \E c \in Channel : Work(c) \/ LosesOrder(c)

Spec == Init /\ [][Next]_vars

\* Processes and workers go on, and the calls of the retried list do not fail
\* forever.
Fairness ==
    /\ \A p \in Process : WF_vars(Push(p))
    /\ \A c \in Channel : WF_vars(Work(c))
    /\ SF_vars(Call(Retried))

FairSpec == Spec /\ Fairness

-----------------------------------------------------------------------------
(* Properties.                                                             *)

\* A server that has an old copy of a table is going to be told, unless a
\* failure was in between: each change comes before its order, and the server
\* reads after it, whatever number of orders were merged or overtaken.
StaleIsOwed ==
    \A t \in Table : \A s \in Holders[t] :
        loaded[t][s] # version[t] => Owed(t, s) \/ <<t, s>> \in missed

\* A hint says what its lock says once all is told, unless the order was lost,
\* or two processes had changed the lock before either pushed: their orders may
\* then be in the other order.
HintFollowsLock ==
    \A l \in Lock : \A s \in Holders[l] :
        \/ lock[l] \in {"none", "deleted"}
        \/ Owed(l, s) \/ <<l, s>> \in missed \/ l \in crossed
        \/ hint[l][s] = lock[l]

\* When the changes end every server comes to have the last one, or a failure is
\* to blame; a call that fails is no excuse for the orders that are retried.
ServersCatchUp ==
    <>[](\A t \in Table : \A s \in Holders[t] :
            \/ loaded[t][s] = version[t]
            \/ IF ChannelOf[t] = Retried THEN faults > 0 ELSE <<t, s>> \in missed)

=============================================================================
