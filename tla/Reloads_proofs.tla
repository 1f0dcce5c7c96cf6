---------------------------- MODULE Reloads_proofs ----------------------------
(***************************************************************************)
(* Proofs about Reloads for any tables, locks, servers, lists and bounds.  *)
(***************************************************************************)
EXTENDS Reloads, SequenceTheorems, TLAPS

-----------------------------------------------------------------------------
(* Lists of orders.                                                        *)

\* What an order is about.
LEMMA Orders ==
    /\ \A t \in Table : Reload(t) \in Order /\ Reload(t).what = t
    /\ \A l \in Lock, state \in {"open", "closed"} :
        /\ Tell(l, state) \in Order
        /\ Tell(l, state).what = l
        /\ Tell(l, state).state = state
    /\ \A o \in Order : o.what \in What /\ o # Nothing
    /\ \A o \in Order : o.what \in Lock => o.state \in {"open", "closed"}
BY ReloadsAssumption, NothingAssumption DEF Reload, Tell, Order, What

\* A list is about what its first order and the rest are about.
LEMMA HeadAndTail ==
    ASSUME NEW s \in Seq(Order), s # <<>>
    PROVE  /\ Head(s) \in Order
           /\ Tail(s) \in Seq(Order)
           /\ Len(Tail(s)) = Len(s) - 1
           /\ \A i \in 1 .. Len(Tail(s)) : Tail(s)[i] = s[i + 1]
           /\ Head(s) = s[1]
           /\ Len(s) \in Nat \ {0}
           /\ \A w : Holds(s, w) <=> Head(s).what = w \/ Holds(Tail(s), w)
<1>1. /\ Head(s) \in Order /\ Tail(s) \in Seq(Order)
      /\ Len(Tail(s)) = Len(s) - 1
      /\ \A i \in 1 .. Len(Tail(s)) : Tail(s)[i] = s[i + 1]
      /\ Len(s) \in Nat \ {0}
  BY HeadTailProperties, EmptySeq, LenProperties
<1>2. Head(s) = s[1]
  OBVIOUS
<1>3. ASSUME NEW w
      PROVE  Holds(s, w) <=> Head(s).what = w \/ Holds(Tail(s), w)
  <2>1. ASSUME Holds(s, w), Head(s).what # w
        PROVE  Holds(Tail(s), w)
    <3>1. PICK i \in 1 .. Len(s) : s[i].what = w
      BY <2>1 DEF Holds
    <3>2. i # 1
      BY <1>2, <2>1, <3>1
    <3>3. i - 1 \in 1 .. Len(Tail(s)) /\ Tail(s)[i - 1] = s[i - 1 + 1] /\ i - 1 + 1 = i
      BY <1>1, <3>2
    <3> QED BY <3>1, <3>3 DEF Holds
  <2>2. ASSUME Head(s).what = w
        PROVE  Holds(s, w)
    BY <1>1, <1>2, <2>2 DEF Holds
  <2>3. ASSUME Holds(Tail(s), w)
        PROVE  Holds(s, w)
    <3>1. PICK i \in 1 .. Len(Tail(s)) : Tail(s)[i].what = w
      BY <2>3 DEF Holds
    <3>2. i + 1 \in 1 .. Len(s) /\ s[i + 1].what = w
      BY <1>1, <3>1
    <3> QED BY <3>2 DEF Holds
  <2> QED BY <2>1, <2>2, <2>3
<1> QED BY <1>1, <1>2, <1>3

\* An order that was put at the end.
LEMMA Appended ==
    ASSUME NEW s \in Seq(Order), NEW o \in Order
    PROVE  /\ Append(s, o) \in Seq(Order)
           /\ Len(Append(s, o)) = Len(s) + 1
           /\ \A i \in 1 .. Len(s) : Append(s, o)[i] = s[i]
           /\ Append(s, o)[Len(s) + 1] = o
           /\ Len(s) \in Nat
           /\ \A w : Holds(Append(s, o), w) <=> o.what = w \/ Holds(s, w)
<1>1. /\ Append(s, o) \in Seq(Order)
      /\ Len(Append(s, o)) = Len(s) + 1
      /\ \A i \in 1 .. Len(s) : Append(s, o)[i] = s[i]
      /\ Append(s, o)[Len(s) + 1] = o
      /\ Len(s) \in Nat
  BY AppendProperties, LenProperties
<1>2. ASSUME NEW w
      PROVE  Holds(Append(s, o), w) <=> o.what = w \/ Holds(s, w)
  <2>1. ASSUME Holds(Append(s, o), w), o.what # w
        PROVE  Holds(s, w)
    <3>1. PICK i \in 1 .. Len(s) + 1 : Append(s, o)[i].what = w
      BY <1>1, <2>1 DEF Holds
    <3>2. i \in 1 .. Len(s)
      BY <1>1, <2>1, <3>1
    <3> QED BY <1>1, <3>1, <3>2 DEF Holds
  <2>2. ASSUME o.what = w
        PROVE  Holds(Append(s, o), w)
    BY <1>1, <2>2 DEF Holds
  <2>3. ASSUME Holds(s, w)
        PROVE  Holds(Append(s, o), w)
    BY <1>1, <2>3 DEF Holds
  <2> QED BY <2>1, <2>2, <2>3
<1> QED BY <1>1, <1>2

\* An order that was put in front.
LEMMA PutInFront ==
    ASSUME NEW s \in Seq(Order), NEW o \in Order
    PROVE  /\ <<o>> \o s \in Seq(Order)
           /\ Len(<<o>> \o s) = Len(s) + 1
           /\ (<<o>> \o s)[1] = o
           /\ \A i \in 1 .. Len(s) : (<<o>> \o s)[i + 1] = s[i]
           /\ Len(s) \in Nat
           /\ \A w : Holds(<<o>> \o s, w) <=> o.what = w \/ Holds(s, w)
<1>0. <<o>> \in Seq(Order) /\ Len(<<o>>) = 1 /\ <<o>>[1] = o /\ Len(s) \in Nat
  BY LenProperties
<1>1. /\ <<o>> \o s \in Seq(Order)
      /\ Len(<<o>> \o s) = 1 + Len(s)
      /\ \A i \in 1 .. 1 + Len(s) :
            (<<o>> \o s)[i] = IF i <= 1 THEN <<o>>[i] ELSE s[i - 1]
  BY <1>0, ConcatProperties
<1>2. Len(<<o>> \o s) = Len(s) + 1
  BY <1>0, <1>1
<1>3. (<<o>> \o s)[1] = o
  BY <1>0, <1>1
<1>4. ASSUME NEW i \in 1 .. Len(s)
      PROVE  (<<o>> \o s)[i + 1] = s[i]
  <2>1. i + 1 \in 1 .. 1 + Len(s) /\ ~(i + 1 <= 1) /\ (i + 1) - 1 = i
    BY <1>0
  <2> QED BY <1>1, <2>1
<1>5. ASSUME NEW w
      PROVE  Holds(<<o>> \o s, w) <=> o.what = w \/ Holds(s, w)
  <2>1. ASSUME Holds(<<o>> \o s, w), o.what # w
        PROVE  Holds(s, w)
    <3>1. PICK i \in 1 .. Len(s) + 1 : (<<o>> \o s)[i].what = w
      BY <1>2, <2>1 DEF Holds
    <3>2. i # 1
      BY <1>3, <2>1, <3>1
    <3>3. i - 1 \in 1 .. Len(s) /\ (i - 1) + 1 = i
      BY <1>0, <3>2
    <3>4. s[i - 1].what = w
      BY <1>4, <3>1, <3>3
    <3> QED BY <3>3, <3>4 DEF Holds
  <2>2. ASSUME o.what = w
        PROVE  Holds(<<o>> \o s, w)
    <3>1. 1 \in 1 .. Len(<<o>> \o s)
      BY <1>0, <1>2
    <3> QED BY <1>3, <2>2, <3>1 DEF Holds
  <2>3. ASSUME Holds(s, w)
        PROVE  Holds(<<o>> \o s, w)
    <3>1. PICK i \in 1 .. Len(s) : s[i].what = w
      BY <2>3 DEF Holds
    <3>2. i + 1 \in 1 .. Len(<<o>> \o s)
      BY <1>0, <1>2
    <3>3. (<<o>> \o s)[i + 1].what = w
      BY <1>4, <3>1
    <3> QED BY <3>2, <3>3 DEF Holds
  <2> QED BY <2>1, <2>2, <2>3
<1> QED BY <1>0, <1>1, <1>2, <1>3, <1>4, <1>5

-----------------------------------------------------------------------------
(* Types.                                                                  *)

\* A table has not changed more often than there were changes.
Counts == \A t \in Table : version[t] <= changes

Typed == TypeOK /\ Counts

\* The steps, with the parameters taken out of Next.
LEMMA Steps ==
    ASSUME Next
    PROVE  \/ \E p \in Process, c \in Change : CommitChange(p, c)
           \/ \E p \in Process, l \in Lock, state \in {"open", "closed"} :
                CreateLock(p, l, state)
           \/ \E p \in Process, l \in Lock : DeleteLock(p, l)
           \/ \E p \in Process, l \in Lock : FindLock(p, l)
           \/ \E p \in Process, state \in {"open", "closed"} : SetLock(p, state)
           \/ \E p \in Process : Push(p)
           \/ \E p \in Process : PushFails(p)
           \/ \E p \in Process : KillProcess(p)
           \/ \E c \in Channel : Pop(c)
           \/ \E c \in Channel, s \in Server : CallSucceeds(c, s)
           \/ \E c \in Channel, s \in Server : CallFails(c, s)
           \/ FallsAsleep
           \/ PushesAgain
           \/ \E c \in Channel : LosesOrder(c)
BY DEF Next, Operate, Work, Call

LEMMA TypesHoldFirst == Init => Typed
<1> SUFFICES ASSUME Init PROVE Typed
  OBVIOUS
<1> USE ReloadsAssumption DEF Init
<1>1. 0 \in 0 .. MaxChanges /\ 0 \in 0 .. MaxFaults
  OBVIOUS
<1>2. lock \in [Lock -> LockState]
  BY DEF LockState
<1>3. hint \in [Lock -> [Server -> LockState]]
  BY <1>2
<1>4. /\ todo \in [Process -> Seq(Order)]
      /\ list \in [Channel -> Seq(Order)]
  OBVIOUS
<1>5. \A t \in Table : version[t] <= changes
  OBVIOUS
<1> QED BY <1>1, <1>2, <1>3, <1>4, <1>5 DEF Typed, TypeOK, Counts

\* The orders of a kind of change.
LEMMA OrdersOfChange ==
    ASSUME NEW c \in Change
    PROVE  /\ [i \in 1 .. Len(Sent[c]) |-> Reload(Sent[c][i])] \in Seq(Order)
           /\ Len([i \in 1 .. Len(Sent[c]) |-> Reload(Sent[c][i])]) = Len(Sent[c])
           /\ \A w : Holds([i \in 1 .. Len(Sent[c]) |-> Reload(Sent[c][i])], w)
                        <=> \E i \in 1 .. Len(Sent[c]) : Sent[c][i] = w
<1> DEFINE f == [i \in 1 .. Len(Sent[c]) |-> Reload(Sent[c][i])]
<1>1. Sent[c] \in Seq(Table) /\ Len(Sent[c]) \in Nat
  BY ReloadsAssumption, LenProperties
<1>2. \A i \in 1 .. Len(Sent[c]) : Sent[c][i] \in Table
  BY <1>1, ElementOfSeq
<1>3. \A i \in 1 .. Len(Sent[c]) : f[i] \in Order /\ f[i].what = Sent[c][i]
  BY <1>2, Orders
<1>4. f \in Seq(Order)
  <2>1. f \in [1 .. Len(Sent[c]) -> Order]
    BY <1>3
  <2> HIDE DEF f
  <2> QED BY <1>1, <2>1, SeqDef, Zenon
<1>5. Len(f) = Len(Sent[c])
  BY <1>1, <1>4, LenProperties
<1> HIDE DEF f
<1>6. \A w : Holds(f, w) <=> \E i \in 1 .. Len(Sent[c]) : Sent[c][i] = w
  BY <1>3, <1>5 DEF Holds
<1> QED BY <1>4, <1>5, <1>6 DEF f

LEMMA TypesLast ==
    ASSUME Typed, [Next]_vars
    PROVE  Typed'
<1> USE ReloadsAssumption DEF Typed, TypeOK, Counts
<1>1. CASE UNCHANGED vars
  BY <1>1 DEF vars, database, process, worker, server
<1>2. ASSUME NEW p \in Process, NEW c \in Change, CommitChange(p, c)
      PROVE  Typed'
  <2> USE <1>2 DEF CommitChange, Counted, worker, server
  <2>1. todo' \in [Process -> Seq(Order)]
    BY OrdersOfChange
  <2>2. version' \in [Table -> 0 .. MaxChanges] /\ \A t \in Table : version'[t] <= changes'
    <3>1. \A t \in Table : version'[t] \in {version[t], version[t] + 1}
      OBVIOUS
    <3>2. \A t \in Table : version[t] \in Nat /\ version[t] <= changes
      OBVIOUS
    <3>3. version' = [t \in Table |-> version'[t]]
      OBVIOUS
    <3>4. changes \in Nat /\ changes' = changes + 1 /\ changes + 1 <= MaxChanges
      OBVIOUS
    <3>5. \A t \in Table : version'[t] \in 0 .. MaxChanges /\ version'[t] <= changes'
      <4> HIDE <1>2 DEF Typed, TypeOK, Counts, CommitChange
      <4> QED BY <3>1, <3>2, <3>4
    <3> HIDE <1>2 DEF Typed, TypeOK, Counts, CommitChange
    <3> QED BY <3>3, <3>5
  <2> QED BY SMTT(30), <2>1, <2>2
<1>3. ASSUME NEW p \in Process, NEW l \in Lock, NEW state \in {"open", "closed"}, CreateLock(p, l, state)
      PROVE  Typed'
  <2> USE <1>3 DEF CreateLock, Counted, NotesChange, worker, server
  <2>1. todo' \in [Process -> Seq(Order)]
    <3>1. <<Reload(Dialplan), Tell(l, state)>> \in Seq(Order)
      BY Orders
    <3> QED BY <3>1
  <2>2. version' \in [Table -> 0 .. MaxChanges] /\ \A t \in Table : version'[t] <= changes'
    OBVIOUS
  <2>3. lock' \in [Lock -> LockState]
    BY DEF LockState
  <2> QED BY SMTT(30), <2>1, <2>2, <2>3
<1>4. ASSUME NEW p \in Process, NEW l \in Lock, DeleteLock(p, l)
      PROVE  Typed'
  <2> USE <1>4 DEF DeleteLock, Counted, worker, server
  <2>1. todo' \in [Process -> Seq(Order)]
    <3>1. <<Reload(Dialplan)>> \in Seq(Order)
      BY Orders
    <3> QED BY <3>1
  <2>2. version' \in [Table -> 0 .. MaxChanges] /\ \A t \in Table : version'[t] <= changes'
    OBVIOUS
  <2>3. lock' \in [Lock -> LockState]
    BY DEF LockState
  <2> QED BY <2>1, <2>2, <2>3
<1>5. ASSUME NEW p \in Process, NEW l \in Lock, FindLock(p, l)
      PROVE  Typed'
  BY <1>5 DEF FindLock, database, worker, server
<1>6. ASSUME NEW p \in Process, NEW state \in {"open", "closed"}, SetLock(p, state)
      PROVE  Typed'
  <2> USE <1>6 DEF SetLock, worker, server
  <2>1. found[p][1] \in Lock
    OBVIOUS
  <2>2. CASE state = found[p][2]
    <3>1. UNCHANGED <<version, lock, todo, list, hand, left, asleep, loaded, hint, missed, crossed, changes, faults>>
      BY <2>2
    <3>2. found' \in [Process -> (Lock \X LockState) \cup {Nothing}]
      OBVIOUS
    <3> HIDE <1>6 DEF SetLock
    <3> QED BY <3>1, <3>2
  <2>3. CASE state # found[p][2]
    <3>1. todo' \in [Process -> Seq(Order)]
      <4>1. <<Tell(found[p][1], state)>> \in Seq(Order)
        BY <2>1, Orders
      <4> QED BY <2>3, <4>1
    <3>2. lock' \in [Lock -> LockState]
      <4>1. lock' = [lock EXCEPT ![found[p][1]] = IF lock[found[p][1]] = "deleted" THEN lock[found[p][1]] ELSE state]
        BY <2>3
      <4>2. state \in LockState /\ lock[found[p][1]] \in LockState
        BY <2>1 DEF LockState
      <4> QED BY <2>1, <4>1, <4>2
    <3>3. changes' \in 0 .. MaxChanges /\ \A t \in Table : version'[t] <= changes'
      BY <2>3 DEF Counted
    <3>4. crossed' \subseteq Lock /\ missed' \subseteq What \X Server
      BY <2>1, <2>3 DEF NotesChange
    <3> QED BY <3>1, <3>2, <3>3, <3>4
  <2> QED BY <2>2, <2>3
<1>7. ASSUME NEW p \in Process, Push(p)
      PROVE  Typed'
  <2> USE <1>7 DEF Push, database, worker, server
  <2>1. Head(todo[p]) \in Order /\ Tail(todo[p]) \in Seq(Order)
    BY HeadAndTail
  <2>2. ChannelOf[Head(todo[p]).what] \in Channel
    BY <2>1, Orders
  <2>3. Append(list[ChannelOf[Head(todo[p]).what]], Head(todo[p])) \in Seq(Order)
    BY <2>1, <2>2, Appended
  <2> QED BY <2>1, <2>2, <2>3
<1>8. ASSUME NEW p \in Process, PushFails(p)
      PROVE  Typed'
  <2> USE <1>8 DEF PushFails, Forgets, Fault, database, worker, server
  <2>1. Tail(todo[p]) \in Seq(Order) /\ <<>> \in Seq(Order)
    BY HeadAndTail
  <2>2. todo' \in [Process -> Seq(Order)]
    BY <2>1
  <2>3. missed' \subseteq What \X Server
    OBVIOUS
  <2> QED BY SMTT(30), <2>2, <2>3
<1>9. ASSUME NEW p \in Process, KillProcess(p)
      PROVE  Typed'
  <2> USE <1>9 DEF KillProcess, Forgets, Fault, database, worker, server
  <2>1. todo' \in [Process -> Seq(Order)]
    OBVIOUS
  <2> QED BY <2>1
<1>10. ASSUME NEW c \in Channel, Pop(c)
       PROVE  Typed'
  <2> USE <1>10 DEF Pop, database, process, server
  <2>1. Head(list[c]) \in Order /\ Tail(list[c]) \in Seq(Order)
    BY HeadAndTail
  <2>2. Holders[Head(list[c]).what] \subseteq Server /\ Holders[Head(list[c]).what] # {}
    BY <2>1, Orders
  <2>3. Head(list[c]) # Nothing
    BY <2>1, Orders
  <2>4. \A d \in Channel : hand'[d] = Nothing <=> left'[d] = {}
    BY <2>2, <2>3
  <2>5. list' \in [Channel -> Seq(Order)] /\ hand' \in [Channel -> Order \cup {Nothing}] /\ left' \in [Channel -> SUBSET Server]
    BY <2>1, <2>2
  <2>6. asleep' => hand'[Retried] # Nothing
    OBVIOUS
  <2> QED BY <2>4, <2>5, <2>6
<1>11. ASSUME NEW c \in Channel, NEW s \in Server, CallSucceeds(c, s)
       PROVE  Typed'
  <2> USE <1>11 DEF CallSucceeds, Done, Working, database, process
  <2>1. hand[c] \in Order
    OBVIOUS
  <2>2. \A d \in Channel : hand'[d] = Nothing <=> left'[d] = {}
    OBVIOUS
  <2>3. hand' \in [Channel -> Order \cup {Nothing}] /\ left' \in [Channel -> SUBSET Server]
    OBVIOUS
  <2>4. asleep' => hand'[Retried] # Nothing
    OBVIOUS
  <2>5. /\ loaded' \in [Table -> [Server -> 0 .. MaxChanges]]
        /\ hint' \in [Lock -> [Server -> LockState]]
        /\ missed' \subseteq What \X Server
    <3>1. CASE hand[c].what \in Table
      <4>1. hand[c].what \notin Lock
        BY <3>1
      <4>2. /\ loaded' = [loaded EXCEPT ![hand[c].what][s] = version[hand[c].what]]
            /\ UNCHANGED hint
            /\ missed' \subseteq missed
        BY <4>1
      <4>3. version[hand[c].what] \in 0 .. MaxChanges
        BY <3>1
      <4> HIDE <1>11 DEF CallSucceeds, Done
      <4> QED BY <3>1, <4>2, <4>3
    <3>2. CASE hand[c].what \in Lock
      <4>1. hand[c].state \in LockState
        BY <2>1, <3>2, Orders DEF LockState
      <4>2. hand[c].what \notin Table
        BY <3>2
      <4>3. /\ hint' = [hint EXCEPT ![hand[c].what][s] = hand[c].state]
            /\ UNCHANGED <<loaded, missed>>
        BY <4>2
      <4> HIDE <1>11 DEF CallSucceeds, Done
      <4> QED BY <3>2, <4>1, <4>3
    <3>3. hand[c].what \in What
      BY <2>1, Orders
    <3> QED BY <3>1, <3>2, <3>3 DEF What
  <2> QED BY <2>2, <2>3, <2>4, <2>5
<1>12. ASSUME NEW c \in Channel, NEW s \in Server, CallFails(c, s)
       PROVE  Typed'
  <2> USE <1>12 DEF CallFails, Done, Working, database, process, server
  <2>1. hand[c].what \in What
    BY Orders
  <2>2. \A d \in Channel : hand'[d] = Nothing <=> left'[d] = {}
    OBVIOUS
  <2>3. hand' \in [Channel -> Order \cup {Nothing}] /\ left' \in [Channel -> SUBSET Server]
    OBVIOUS
  <2>4. asleep' => hand'[Retried] # Nothing
    OBVIOUS
  <2>5. missed' \subseteq What \X Server
    BY <2>1
  <2> QED BY <2>2, <2>3, <2>4, <2>5
<1>13. ASSUME FallsAsleep
       PROVE  Typed'
  BY <1>13 DEF FallsAsleep, Working, database, process, server
<1>14. ASSUME PushesAgain
       PROVE  Typed'
  <2> USE <1>14 DEF PushesAgain, Restarts, database, process, server
  <2>1. hand[Retried] \in Order
    OBVIOUS
  <2>2. <<hand[Retried]>> \o list[Retried] \in Seq(Order)
    BY <2>1, PutInFront
  <2>3. list' \in [Channel -> Seq(Order)]
    BY <2>2
  <2>4. /\ hand' \in [Channel -> Order \cup {Nothing}] /\ left' \in [Channel -> SUBSET Server]
        /\ \A d \in Channel : hand'[d] = Nothing <=> left'[d] = {}
        /\ asleep' = FALSE
    OBVIOUS
  <2> QED BY <2>3, <2>4
<1>15. ASSUME NEW c \in Channel, LosesOrder(c)
       PROVE  Typed'
  <2> USE <1>15 DEF LosesOrder, Restarts, Fault, database, process, server
  <2>1. hand[c].what \in What
    BY Orders
  <2>2. /\ hand' \in [Channel -> Order \cup {Nothing}] /\ left' \in [Channel -> SUBSET Server]
        /\ \A d \in Channel : hand'[d] = Nothing <=> left'[d] = {}
    OBVIOUS
  <2>3. asleep' \in BOOLEAN /\ (asleep' => hand'[Retried] # Nothing)
    OBVIOUS
  <2>4. missed' \subseteq What \X Server
    BY <2>1
  <2> QED BY <2>2, <2>3, <2>4
<1> HIDE DEF Typed, TypeOK, Counts
<1> QED BY <1>1, <1>2, <1>3, <1>4, <1>5, <1>6, <1>7, <1>8, <1>9, <1>10, <1>11, <1>12, <1>13, <1>14, <1>15, Steps

\* The state has its types: what the lists and the workers hold are orders, and a
\* worker has servers left to call exactly while it has an order in hand.
THEOREM TypeCorrect == Spec => []TypeOK
<1>1. Init => Typed
  BY TypesHoldFirst
<1>2. Typed /\ [Next]_vars => Typed'
  BY TypesLast
<1>3. Typed => TypeOK
  BY DEF Typed
<1> QED BY <1>1, <1>2, <1>3, PTL DEF Spec

-----------------------------------------------------------------------------
(* Stale copies are owed.                                                  *)

\* A process that has loaded a lock has no orders.
Loads == \A p \in Process : found[p] # Nothing => todo[p] = <<>>

Inv == Typed /\ Loads /\ StaleIsOwed

LEMMA NoOrders == \A w : ~Holds(<<>>, w)
BY DEF Holds

\* What is owed stays owed when a process without orders gets some.
LEMMA OwedWithMore ==
    ASSUME Typed, NEW p \in Process, NEW orders, todo[p] = <<>>,
           todo' = [todo EXCEPT ![p] = orders], UNCHANGED <<list, hand, left>>,
           NEW w, NEW s, Owed(w, s)
    PROVE  Owed(w, s)'
<1>1. \A q \in Process : Holds(todo[q], w) => Holds(todo'[q], w)
  <2>1. \A q \in Process : Holds(todo[q], w) => q # p
    BY NoOrders
  <2> QED BY <2>1 DEF Typed, TypeOK
<1> QED BY <1>1 DEF Owed

\* Nothing that is owed changes.
LEMMA OwedAsBefore ==
    ASSUME UNCHANGED <<todo, list, hand, left>>, NEW w, NEW s, Owed(w, s)
    PROVE  Owed(w, s)'
BY DEF Owed

\* A process has fewer orders, but still those about w.
LEMMA OwedWithLess ==
    ASSUME Typed, NEW p \in Process, NEW orders, todo' = [todo EXCEPT ![p] = orders],
           UNCHANGED <<list, hand, left>>,
           NEW w, NEW s, Owed(w, s), Holds(todo[p], w) => Holds(orders, w)
    PROVE  Owed(w, s)'
<1>1. \A q \in Process : Holds(todo[q], w) => Holds(todo'[q], w)
  BY DEF Typed, TypeOK
<1> QED BY <1>1 DEF Owed

LEMMA OwedAfterPush ==
    ASSUME Typed, NEW p \in Process, Push(p), NEW w, NEW s, Owed(w, s)
    PROVE  Owed(w, s)'
<1> DEFINE o == Head(todo[p])
           d == ChannelOf[o.what]
<1>1. /\ o \in Order /\ d \in Channel
      /\ Holds(todo[p], w) <=> o.what = w \/ Holds(Tail(todo[p]), w)
  BY HeadAndTail, Orders, ReloadsAssumption DEF Push, Typed, TypeOK
<1>2. /\ list' = [list EXCEPT ![d] = Append(list[d], o)]
      /\ todo' = [todo EXCEPT ![p] = Tail(todo[p])]
      /\ UNCHANGED <<hand, left>>
  BY DEF Push, worker
<1>3. Holds(Append(list[d], o), w) <=> o.what = w \/ Holds(list[d], w)
  BY <1>1, Appended DEF Typed, TypeOK
<1> HIDE DEF o, d
<1>4. \A c \in Channel : Holds(list[c], w) => Holds(list'[c], w)
  BY <1>1, <1>2, <1>3 DEF Typed, TypeOK
<1>5. o.what = w => Holds(list'[d], w)
  BY <1>1, <1>2, <1>3 DEF Typed, TypeOK
<1>6. \A q \in Process : Holds(todo[q], w) => Holds(todo'[q], w) \/ o.what = w
  BY <1>1, <1>2 DEF Typed, TypeOK
<1> QED BY <1>1, <1>2, <1>4, <1>5, <1>6 DEF Owed

LEMMA OwedAfterPop ==
    ASSUME Typed, NEW c \in Channel, Pop(c), NEW w \in What, NEW s \in Holders[w], Owed(w, s)
    PROVE  Owed(w, s)'
<1> DEFINE o == Head(list[c])
<1>1. /\ o \in Order /\ o # Nothing
      /\ Holds(list[c], w) <=> o.what = w \/ Holds(Tail(list[c]), w)
  BY HeadAndTail, Orders DEF Pop, Typed, TypeOK
<1>2. /\ list' = [list EXCEPT ![c] = Tail(list[c])]
      /\ hand' = [hand EXCEPT ![c] = o]
      /\ left' = [left EXCEPT ![c] = Holders[o.what]]
      /\ hand[c] = Nothing
      /\ UNCHANGED todo
  BY DEF Pop, process
<1> HIDE DEF o
<1>3. \A d \in Channel : Holds(list[d], w) => Holds(list'[d], w) \/ o.what = w
  BY <1>1, <1>2 DEF Typed, TypeOK
<1>4. o.what = w => hand'[c] # Nothing /\ hand'[c].what = w /\ s \in left'[c]
  BY <1>1, <1>2 DEF Typed, TypeOK
<1>5. \A d \in Channel : hand[d] # Nothing => hand'[d] = hand[d] /\ left'[d] = left[d]
  BY <1>2 DEF Typed, TypeOK
<1> QED BY <1>2, <1>3, <1>4, <1>5 DEF Owed

\* A worker has called a server: it owes what it owed, except that.
LEMMA OwedAfterCall ==
    ASSUME Typed, NEW c \in Channel, NEW x \in left[c], hand[c] # Nothing, Done(c, x),
           UNCHANGED <<todo, list>>,
           NEW w, NEW s, Owed(w, s), ~(hand[c].what = w /\ s = x)
    PROVE  Owed(w, s)'
<1>1. \A d \in Channel : hand[d] # Nothing /\ hand[d].what = w /\ s \in left[d]
                            => hand'[d] = hand[d] /\ s \in left'[d]
  BY DEF Done, Typed, TypeOK
<1> QED BY <1>1 DEF Owed

\* A worker exits: the others owe what they owed.
LEMMA OwedAfterExit ==
    ASSUME Typed, NEW c \in Channel, hand[c] # Nothing, Restarts(c), UNCHANGED <<todo, list>>,
           NEW w, NEW s, Owed(w, s), ~(hand[c].what = w /\ s \in left[c])
    PROVE  Owed(w, s)'
<1>1. \A d \in Channel : hand[d] # Nothing /\ hand[d].what = w /\ s \in left[d]
                            => hand'[d] = hand[d] /\ left'[d] = left[d]
  BY DEF Restarts, Typed, TypeOK
<1> QED BY <1>1 DEF Owed

LEMMA OwedAfterPushingAgain ==
    ASSUME Typed, PushesAgain, NEW w, NEW s, Owed(w, s)
    PROVE  Owed(w, s)'
<1> DEFINE o == hand[Retried]
<1>1. o \in Order /\ Retried \in Channel
  BY ReloadsAssumption DEF PushesAgain, Typed, TypeOK
<1>2. /\ list' = [list EXCEPT ![Retried] = <<o>> \o list[Retried]]
      /\ Restarts(Retried) /\ UNCHANGED todo
  BY DEF PushesAgain, process
<1>3. Holds(<<o>> \o list[Retried], w) <=> o.what = w \/ Holds(list[Retried], w)
  BY <1>1, PutInFront DEF Typed, TypeOK
<1>4. \A c \in Channel : Holds(list[c], w) => Holds(list'[c], w)
  BY <1>1, <1>2, <1>3 DEF Typed, TypeOK
<1>5. o.what = w => Holds(list'[Retried], w)
  BY <1>1, <1>2, <1>3 DEF Typed, TypeOK
<1>6. \A d \in Channel : d # Retried => hand'[d] = hand[d] /\ left'[d] = left[d]
  BY <1>2 DEF Restarts, Typed, TypeOK
<1> HIDE DEF o
<1>7. \A d \in Channel : hand[d] # Nothing /\ hand[d].what = w /\ s \in left[d]
        => d # Retried \/ o.what = w
  BY DEF o
<1> QED BY <1>1, <1>2, <1>4, <1>5, <1>6, <1>7 DEF Owed

LEMMA LoadsLast ==
    ASSUME Typed, Loads, Next
    PROVE  Loads'
<1> USE DEF Loads, Typed, TypeOK, worker, server, database, process
<1>1. ASSUME NEW p \in Process, NEW c \in Change, CommitChange(p, c) PROVE Loads'
  BY <1>1 DEF CommitChange, Idle
<1>2. ASSUME NEW p \in Process, NEW l \in Lock, NEW state \in {"open", "closed"}, CreateLock(p, l, state)
      PROVE  Loads'
  BY <1>2 DEF CreateLock, Idle
<1>3. ASSUME NEW p \in Process, NEW l \in Lock, DeleteLock(p, l) PROVE Loads'
  BY <1>3 DEF DeleteLock, Idle
<1>4. ASSUME NEW p \in Process, NEW l \in Lock, FindLock(p, l) PROVE Loads'
  BY <1>4 DEF FindLock, Idle
<1>5. ASSUME NEW p \in Process, NEW state \in {"open", "closed"}, SetLock(p, state) PROVE Loads'
  <2>1. found' = [found EXCEPT ![p] = Nothing]
    BY <1>5 DEF SetLock
  <2>2. \A q \in Process \ {p} : todo'[q] = todo[q]
    BY <1>5 DEF SetLock
  <2> QED BY <2>1, <2>2
<1>6. ASSUME NEW p \in Process, Push(p) PROVE Loads'
  BY <1>6 DEF Push
<1>7. ASSUME NEW p \in Process, PushFails(p) PROVE Loads'
  BY <1>7 DEF PushFails
<1>8. ASSUME NEW p \in Process, KillProcess(p) PROVE Loads'
  BY <1>8 DEF KillProcess
<1>9. ASSUME NEW c \in Channel, Pop(c) PROVE Loads'
  BY <1>9 DEF Pop
<1>10. ASSUME NEW c \in Channel, NEW s \in Server, CallSucceeds(c, s) PROVE Loads'
  BY <1>10 DEF CallSucceeds
<1>11. ASSUME NEW c \in Channel, NEW s \in Server, CallFails(c, s) PROVE Loads'
  BY <1>11 DEF CallFails
<1>12. CASE FallsAsleep
  BY <1>12 DEF FallsAsleep
<1>13. CASE PushesAgain
  BY <1>13 DEF PushesAgain
<1>14. ASSUME NEW c \in Channel, LosesOrder(c) PROVE Loads'
  BY <1>14 DEF LosesOrder
<1> HIDE DEF Loads, Typed, TypeOK
<1> QED BY <1>1, <1>2, <1>3, <1>4, <1>5, <1>6, <1>7, <1>8, <1>9, <1>10, <1>11, <1>12, <1>13, <1>14, Steps

\* One server and one table.
Due(t, s) == loaded[t][s] # version[t] => Owed(t, s) \/ <<t, s>> \in missed

LEMMA DueLast ==
    ASSUME Typed, Loads, Next, NEW t \in Table, NEW s \in Holders[t], Due(t, s)
    PROVE  Due(t, s)'
<1>0. t \in What /\ t \notin Lock /\ s \in Server /\ <<t, s>> \in What \X Server
  BY ReloadsAssumption DEF What
<1>1. ASSUME NEW p \in Process, NEW c \in Change, CommitChange(p, c)
      PROVE  Due(t, s)'
  <2> DEFINE orders == [i \in 1 .. Len(Sent[c]) |-> Reload(Sent[c][i])]
  <2>1. /\ todo' = [todo EXCEPT ![p] = orders] /\ todo[p] = <<>>
        /\ UNCHANGED <<list, hand, left, loaded, missed>>
    BY <1>1 DEF CommitChange, Idle, worker, server
  <2>2. CASE Holds(orders, t)
    <3>1. Holds(todo'[p], t)
      BY <2>1, <2>2 DEF Typed, TypeOK
    <3> QED BY <3>1 DEF Due, Owed
  <2>3. CASE ~Holds(orders, t)
    <3>1. version'[t] = version[t]
      BY <1>1, <2>3, OrdersOfChange DEF CommitChange
    <3> HIDE DEF orders
    <3> QED BY <2>1, <3>1, OwedWithMore DEF Due
  <2> QED BY <2>2, <2>3
<1>2. ASSUME NEW p \in Process, NEW l \in Lock, NEW state \in {"open", "closed"}, CreateLock(p, l, state)
      PROVE  Due(t, s)'
  <2> DEFINE orders == <<Reload(Dialplan), Tell(l, state)>>
  <2>1. /\ todo' = [todo EXCEPT ![p] = orders] /\ todo[p] = <<>>
        /\ UNCHANGED <<list, hand, left, loaded>>
    BY <1>2 DEF CreateLock, Idle, worker, server
  <2>2. <<t, s>> \in missed => <<t, s>> \in missed'
    BY <1>0, <1>2 DEF CreateLock, NotesChange
  <2>3. CASE t = Dialplan
    <3>1. Holds(orders, t)
      BY <2>3 DEF Holds, Reload
    <3>2. Holds(todo'[p], t)
      BY <2>1, <3>1 DEF Typed, TypeOK
    <3> QED BY <3>2 DEF Due, Owed
  <2>4. CASE t # Dialplan
    <3>1. version'[t] = version[t]
      BY <1>2, <2>4 DEF CreateLock, Typed, TypeOK
    <3> HIDE DEF orders
    <3> QED BY <2>1, <2>2, <3>1, OwedWithMore DEF Due
  <2> QED BY <2>3, <2>4
<1>3. ASSUME NEW p \in Process, NEW l \in Lock, DeleteLock(p, l)
      PROVE  Due(t, s)'
  <2> DEFINE orders == <<Reload(Dialplan)>>
  <2>1. /\ todo' = [todo EXCEPT ![p] = orders] /\ todo[p] = <<>>
        /\ UNCHANGED <<list, hand, left, loaded, missed>>
    BY <1>3 DEF DeleteLock, Idle, worker, server
  <2>2. CASE t = Dialplan
    <3>1. Holds(orders, t)
      BY <2>2 DEF Holds, Reload
    <3>2. Holds(todo'[p], t)
      BY <2>1, <3>1 DEF Typed, TypeOK
    <3> QED BY <3>2 DEF Due, Owed
  <2>3. CASE t # Dialplan
    <3>1. version'[t] = version[t]
      BY <1>3, <2>3 DEF DeleteLock, Typed, TypeOK
    <3> HIDE DEF orders
    <3> QED BY <2>1, <3>1, OwedWithMore DEF Due
  <2> QED BY <2>2, <2>3
<1>4. ASSUME NEW p \in Process, NEW l \in Lock, FindLock(p, l)
      PROVE  Due(t, s)'
  <2>1. UNCHANGED <<version, todo, list, hand, left, loaded, missed>>
    BY <1>4 DEF FindLock, database, worker, server
  <2> QED BY <2>1, OwedAsBefore DEF Due
<1>5. ASSUME NEW p \in Process, NEW state \in {"open", "closed"}, SetLock(p, state)
      PROVE  Due(t, s)'
  <2>1. todo[p] = <<>> /\ found[p][1] \in Lock
    BY <1>5 DEF SetLock, Loads, Typed, TypeOK
  <2>2. UNCHANGED <<version, list, hand, left, loaded>>
    BY <1>5 DEF SetLock, worker, server
  <2>3. <<t, s>> \in missed => <<t, s>> \in missed'
    BY <1>0, <1>5, <2>1 DEF SetLock, NotesChange
  <2>4. Owed(t, s) => Owed(t, s)'
    <3>1. CASE state = found[p][2]
      <4>1. UNCHANGED todo
        BY <1>5, <3>1 DEF SetLock
      <4> QED BY <2>2, <4>1, OwedAsBefore
    <3>2. CASE state # found[p][2]
      <4>1. todo' = [todo EXCEPT ![p] = <<Tell(found[p][1], state)>>]
        BY <1>5, <3>2 DEF SetLock
      <4> QED BY <2>1, <2>2, <4>1, OwedWithMore
    <3> QED BY <3>1, <3>2
  <2> QED BY <2>2, <2>3, <2>4 DEF Due
<1>6. ASSUME NEW p \in Process, Push(p)
      PROVE  Due(t, s)'
  <2>1. UNCHANGED <<version, loaded, missed>>
    BY <1>6 DEF Push, database, server
  <2> QED BY <1>6, <2>1, OwedAfterPush DEF Due
<1>7. ASSUME NEW p \in Process, PushFails(p)
      PROVE  Due(t, s)'
  <2>1. UNCHANGED <<version, list, hand, left, loaded>> /\ missed \subseteq missed'
    BY <1>7 DEF PushFails, Forgets, database, worker, server
  <2>2. Head(todo[p]) \in Order /\ (Holds(todo[p], t) <=> Head(todo[p]).what = t \/ Holds(Tail(todo[p]), t))
    BY <1>7, HeadAndTail DEF PushFails, Typed, TypeOK
  <2>3. CASE ChannelOf[Head(todo[p]).what] \in Swallowing
    <3>1. todo' = [todo EXCEPT ![p] = Tail(todo[p])] /\ Forgets(p, <<Head(todo[p])>>)
      BY <1>7, <2>3 DEF PushFails
    <3>2. Head(todo[p]).what = t => <<t, s>> \in missed'
      <4>1. Holds(<<Head(todo[p])>>, Head(todo[p]).what)
        BY DEF Holds
      <4> QED BY <1>0, <3>1, <4>1 DEF Forgets
    <3> QED BY <2>1, <2>2, <3>1, <3>2, OwedWithLess DEF Due
  <2>4. CASE ChannelOf[Head(todo[p]).what] \notin Swallowing
    <3>1. todo' = [todo EXCEPT ![p] = <<>>] /\ Forgets(p, todo[p])
      BY <1>7, <2>4 DEF PushFails
    <3>2. Holds(todo[p], t) => <<t, s>> \in missed'
      BY <1>0, <3>1 DEF Forgets
    <3> QED BY <2>1, <3>1, <3>2, OwedWithLess DEF Due
  <2> QED BY <2>3, <2>4
<1>8. ASSUME NEW p \in Process, KillProcess(p)
      PROVE  Due(t, s)'
  <2>1. UNCHANGED <<version, list, hand, left, loaded>> /\ missed \subseteq missed'
    BY <1>8 DEF KillProcess, Forgets, database, worker, server
  <2>2. todo' = [todo EXCEPT ![p] = <<>>] /\ Forgets(p, todo[p])
    BY <1>8 DEF KillProcess
  <2>3. Holds(todo[p], t) => <<t, s>> \in missed'
    BY <1>0, <2>2 DEF Forgets
  <2> QED BY <2>1, <2>2, <2>3, OwedWithLess DEF Due
<1>9. ASSUME NEW c \in Channel, Pop(c)
      PROVE  Due(t, s)'
  <2>1. UNCHANGED <<version, loaded, missed>>
    BY <1>9 DEF Pop, database, server
  <2> QED BY <1>0, <1>9, <2>1, OwedAfterPop DEF Due
<1>10. ASSUME NEW c \in Channel, NEW x \in Server, CallSucceeds(c, x)
       PROVE  Due(t, s)'
  <2>1. /\ x \in left[c] /\ hand[c] # Nothing /\ Done(c, x)
        /\ UNCHANGED <<todo, list, version>>
    BY <1>10 DEF CallSucceeds, Working, database, process
  <2>2. CASE hand[c].what = t /\ s = x
    <3>1. loaded' = [loaded EXCEPT ![t][s] = version[t]]
      BY <1>0, <1>10, <2>2 DEF CallSucceeds
    <3>2. loaded'[t][s] = version[t]
      BY <1>0, <3>1 DEF Typed, TypeOK
    <3> QED BY <2>1, <3>2 DEF Due
  <2>3. CASE ~(hand[c].what = t /\ s = x)
    <3>1. loaded'[t][s] = loaded[t][s]
      BY <1>0, <1>10, <2>3 DEF CallSucceeds, Typed, TypeOK
    <3>2. <<t, s>> \in missed => <<t, s>> \in missed'
      BY <1>10, <2>3 DEF CallSucceeds
    <3> QED BY <2>1, <2>3, <3>1, <3>2, OwedAfterCall DEF Due
  <2> QED BY <2>2, <2>3
<1>11. ASSUME NEW c \in Channel, NEW x \in Server, CallFails(c, x)
       PROVE  Due(t, s)'
  <2>1. /\ x \in left[c] /\ hand[c] # Nothing /\ Done(c, x)
        /\ UNCHANGED <<todo, list, version, loaded>>
        /\ missed' = missed \cup {<<hand[c].what, x>>}
    BY <1>11 DEF CallFails, Working, database, process, server
  <2> QED BY <2>1, OwedAfterCall DEF Due
<1>12. CASE FallsAsleep
  <2>1. UNCHANGED <<version, todo, list, hand, left, loaded, missed>>
    BY <1>12 DEF FallsAsleep, database, process, server
  <2> QED BY <2>1, OwedAsBefore DEF Due
<1>13. CASE PushesAgain
  <2>1. UNCHANGED <<version, loaded, missed>>
    BY <1>13 DEF PushesAgain, database, server
  <2> QED BY <1>13, <2>1, OwedAfterPushingAgain DEF Due
<1>14. ASSUME NEW c \in Channel, LosesOrder(c)
       PROVE  Due(t, s)'
  <2>1. /\ hand[c] # Nothing /\ Restarts(c)
        /\ UNCHANGED <<todo, list, version, loaded>>
        /\ missed' = missed \cup ({hand[c].what} \X left[c])
    BY <1>14 DEF LosesOrder, database, process, server
  <2> QED BY <2>1, OwedAfterExit DEF Due
<1> QED BY <1>1, <1>2, <1>3, <1>4, <1>5, <1>6, <1>7, <1>8, <1>9, <1>10, <1>11, <1>12, <1>13, <1>14, Steps

\* A server with an old copy of a table is going to be told, or a failure was in
\* between: a commit is followed by its orders, a list loses none of them, and the
\* server reads the table after the commit that the order is about.
THEOREM StaleOwed == Spec => []StaleIsOwed
<1>1. Init => Inv
  <2>1. Init => Typed
    BY TypesHoldFirst
  <2>2. Init => Loads
    BY DEF Init, Loads
  <2>3. Init => StaleIsOwed
    <3> SUFFICES ASSUME Init, NEW t \in Table, NEW s \in Holders[t]
                 PROVE  loaded[t][s] = version[t]
      BY DEF StaleIsOwed
    <3>1. s \in Server
      BY ReloadsAssumption DEF What
    <3> QED BY <3>1 DEF Init
  <2> QED BY <2>1, <2>2, <2>3 DEF Inv
<1>2. Inv /\ [Next]_vars => Inv'
  <2> SUFFICES ASSUME Inv, [Next]_vars PROVE Inv'
    OBVIOUS
  <2>1. Typed'
    BY TypesLast DEF Inv
  <2>2. CASE UNCHANGED vars
    <3>1. UNCHANGED <<found, todo, list, hand, left, version, loaded, missed>>
      BY <2>2 DEF vars, database, process, worker, server
    <3>2. Loads'
      BY <3>1 DEF Inv, Loads
    <3>3. \A t \in Table : \A s \in Holders[t] : Due(t, s)'
      BY <3>1, OwedAsBefore DEF Inv, StaleIsOwed, Due
    <3> QED BY <2>1, <3>2, <3>3 DEF Inv, StaleIsOwed, Due
  <2>3. CASE Next
    <3>1. Loads'
      BY <2>3, LoadsLast DEF Inv
    <3>2. \A t \in Table : \A s \in Holders[t] : Due(t, s)'
      BY <2>3, DueLast DEF Inv, StaleIsOwed, Due
    <3> QED BY <2>1, <3>1, <3>2 DEF Inv, StaleIsOwed, Due
  <2> QED BY <2>2, <2>3
<1>3. Inv => StaleIsOwed
  BY DEF Inv
<1> QED BY <1>1, <1>2, <1>3, PTL DEF Spec

-----------------------------------------------------------------------------
(* Hints follow their locks.                                               *)

\* An order is in the list of what it is about, and in the hand of its worker.
Placed ==
    /\ \A c \in Channel : \A w \in What : Holds(list[c], w) => c = ChannelOf[w]
    /\ \A c \in Channel : hand[c] # Nothing => c = ChannelOf[hand[c].what]

\* The last order about l, if there is one, is to tell state.
Newest(orders, l, state) ==
    \A i \in 1 .. Len(orders) :
        orders[i].what = l /\ (\A j \in 1 .. Len(orders) : j > i => orders[j].what # l)
            => orders[i].state = state

Live(l) == lock[l] \in {"open", "closed"} /\ l \notin crossed

\* What comes last to the server says what the lock says: the orders to push, then
\* the last one of the list, then the one in hand, then the hint.
PushedLast(l) ==
    \A p \in Process : \A i \in 1 .. Len(todo[p]) :
        todo[p][i].what = l => todo[p][i].state = lock[l]

ListedLast(l) == Newest(list[ChannelOf[l]], l, lock[l])

InHand(l) == hand[ChannelOf[l]] # Nothing /\ hand[ChannelOf[l]].what = l

ToldLast(l, s) ==
    /\ InHand(l) => hand[ChannelOf[l]].state = lock[l]
    /\ ~(InHand(l) /\ s \in left[ChannelOf[l]]) => hint[l][s] = lock[l]

Fresh(l, s) ==
    Live(l) /\ <<l, s>> \notin missed =>
        /\ PushedLast(l)
        /\ (\A p \in Process : ~Holds(todo[p], l)) =>
            /\ ListedLast(l)
            /\ ~Holds(list[ChannelOf[l]], l) => ToldLast(l, s)

HintInv == Typed /\ Loads /\ Placed /\ \A l \in Lock : \A s \in Holders[l] : Fresh(l, s)

LEMMA FreshIsEnough ==
    ASSUME Typed, Placed, \A l \in Lock : \A s \in Holders[l] : Fresh(l, s)
    PROVE  HintFollowsLock
<1> SUFFICES ASSUME NEW l \in Lock, NEW s \in Holders[l],
                    lock[l] \notin {"none", "deleted"}, ~Owed(l, s), <<l, s>> \notin missed, l \notin crossed
             PROVE  hint[l][s] = lock[l]
  BY DEF HintFollowsLock
<1>1. Live(l)
  BY DEF Live, Typed, TypeOK, LockState
<1>2. ChannelOf[l] \in Channel
  BY ReloadsAssumption DEF What
<1>3. /\ \A p \in Process : ~Holds(todo[p], l)
      /\ ~Holds(list[ChannelOf[l]], l)
      /\ ~(InHand(l) /\ s \in left[ChannelOf[l]])
  BY <1>2 DEF Owed, InHand
<1> QED BY <1>1, <1>3 DEF Fresh, ToldLast

\* The last order is still the last when the first is popped, ...
LEMMA NewestOfTail ==
    ASSUME NEW orders \in Seq(Order), orders # <<>>, NEW l, NEW state, Newest(orders, l, state)
    PROVE  /\ Newest(Tail(orders), l, state)
           /\ Head(orders).what = l /\ ~Holds(Tail(orders), l) => Head(orders).state = state
<1>1. /\ Len(Tail(orders)) = Len(orders) - 1
      /\ \A i \in 1 .. Len(Tail(orders)) : Tail(orders)[i] = orders[i + 1]
      /\ Head(orders) = orders[1]
      /\ Len(orders) \in Nat \ {0}
  BY HeadAndTail
<1>2. ASSUME NEW i \in 1 .. Len(Tail(orders)), Tail(orders)[i].what = l,
             \A j \in 1 .. Len(Tail(orders)) : j > i => Tail(orders)[j].what # l
      PROVE  Tail(orders)[i].state = state
  <2>1. i + 1 \in 1 .. Len(orders) /\ orders[i + 1] = Tail(orders)[i]
    BY <1>1
  <2>2. ASSUME NEW j \in 1 .. Len(orders), j > i + 1
        PROVE  orders[j].what # l
    <3>1. j - 1 \in 1 .. Len(Tail(orders)) /\ j - 1 > i /\ (j - 1) + 1 = j
      BY <1>1, <2>2
    <3>2. Tail(orders)[j - 1] = orders[j]
      BY <1>1, <3>1
    <3> QED BY <1>2, <3>1, <3>2
  <2> QED BY <1>2, <2>1, <2>2 DEF Newest
<1>3. ASSUME Head(orders).what = l, ~Holds(Tail(orders), l)
      PROVE  Head(orders).state = state
  <2>1. ASSUME NEW j \in 1 .. Len(orders), j > 1
        PROVE  orders[j].what # l
    <3>1. j - 1 \in 1 .. Len(Tail(orders)) /\ (j - 1) + 1 = j
      BY <1>1, <2>1
    <3>2. Tail(orders)[j - 1] = orders[j]
      BY <1>1, <3>1
    <3> QED BY <1>3, <3>1, <3>2 DEF Holds
  <2>2. 1 \in 1 .. Len(orders)
    BY <1>1
  <2> QED BY <1>1, <1>3, <2>1, <2>2 DEF Newest
<1> QED BY <1>2, <1>3 DEF Newest

\* ... when one about something else, or with the same state, is pushed, ...
LEMMA NewestOfAppended ==
    ASSUME NEW orders \in Seq(Order), NEW o \in Order, NEW l, NEW state,
           o.what = l => o.state = state, o.what = l \/ Newest(orders, l, state)
    PROVE  Newest(Append(orders, o), l, state)
<1> DEFINE more == Append(orders, o)
<1>1. /\ Len(more) = Len(orders) + 1 /\ Len(orders) \in Nat
      /\ \A i \in 1 .. Len(orders) : more[i] = orders[i]
      /\ more[Len(orders) + 1] = o
  BY Appended
<1> HIDE DEF more
<1>2. SUFFICES ASSUME NEW i \in 1 .. Len(more), more[i].what = l,
                      \A j \in 1 .. Len(more) : j > i => more[j].what # l
               PROVE  more[i].state = state
  BY DEF Newest, more
<1>3. CASE i = Len(orders) + 1
  BY <1>1, <1>2, <1>3
<1>4. CASE i \in 1 .. Len(orders)
  <2>1. Len(orders) + 1 \in 1 .. Len(more) /\ Len(orders) + 1 > i
    BY <1>1, <1>4
  <2>2. o.what # l
    BY <1>1, <1>2, <2>1
  <2>3. \A j \in 1 .. Len(orders) : j > i => orders[j].what # l
    BY <1>1, <1>2
  <2> QED BY <1>1, <1>2, <1>4, <2>2, <2>3 DEF Newest
<1> QED BY <1>1, <1>3, <1>4

\* ... and when an order is put in front of it.
LEMMA NewestBehind ==
    ASSUME NEW orders \in Seq(Order), NEW o \in Order, NEW l, NEW state, Newest(orders, l, state),
           o.what = l /\ ~Holds(orders, l) => o.state = state
    PROVE  Newest(<<o>> \o orders, l, state)
<1> DEFINE more == <<o>> \o orders
<1>1. /\ Len(more) = Len(orders) + 1 /\ Len(orders) \in Nat
      /\ more[1] = o
      /\ \A i \in 1 .. Len(orders) : more[i + 1] = orders[i]
  BY PutInFront
<1> HIDE DEF more
<1>2. SUFFICES ASSUME NEW i \in 1 .. Len(more), more[i].what = l,
                      \A j \in 1 .. Len(more) : j > i => more[j].what # l
               PROVE  more[i].state = state
  BY DEF Newest, more
<1>3. CASE i = 1
  <2>1. ASSUME NEW j \in 1 .. Len(orders)
        PROVE  orders[j].what # l
    <3>1. j + 1 \in 1 .. Len(more) /\ j + 1 > i /\ more[j + 1] = orders[j]
      BY <1>1, <1>3
    <3> QED BY <1>2, <3>1
  <2>2. ~Holds(orders, l)
    BY <2>1 DEF Holds
  <2> QED BY <1>1, <1>2, <1>3, <2>2
<1>4. CASE i # 1
  <2>1. i - 1 \in 1 .. Len(orders) /\ (i - 1) + 1 = i
    BY <1>1, <1>4
  <2>2. more[i] = orders[i - 1]
    BY <1>1, <2>1
  <2>3. ASSUME NEW j \in 1 .. Len(orders), j > i - 1
        PROVE  orders[j].what # l
    <3>1. j + 1 \in 1 .. Len(more) /\ j + 1 > i /\ more[j + 1] = orders[j]
      BY <1>1, <2>3
    <3> QED BY <1>2, <3>1
  <2> QED BY <1>2, <2>1, <2>2, <2>3 DEF Newest
<1> QED BY <1>3, <1>4

LEMMA PlacedLast ==
    ASSUME Typed, Placed, Next
    PROVE  Placed'
<1>0. ASSUME UNCHANGED <<list, hand>> PROVE Placed'
  BY <1>0 DEF Placed
<1>1. ASSUME NEW p \in Process, Push(p) PROVE Placed'
  <2> DEFINE o == Head(todo[p])
             d == ChannelOf[o.what]
  <2>1. o \in Order /\ o.what \in What /\ d \in Channel
    BY <1>1, HeadAndTail, Orders, ReloadsAssumption DEF Push, Typed, TypeOK
  <2>2. list' = [list EXCEPT ![d] = Append(list[d], o)] /\ UNCHANGED hand
    BY <1>1 DEF Push, worker
  <2>3. \A w : Holds(Append(list[d], o), w) <=> o.what = w \/ Holds(list[d], w)
    BY <2>1, Appended DEF Typed, TypeOK
  <2>4. list'[d] = Append(list[d], o) /\ \A c \in Channel \ {d} : list'[c] = list[c]
    BY <2>1, <2>2 DEF Typed, TypeOK
  <2>5. d = ChannelOf[o.what]
    OBVIOUS
  <2> HIDE DEF o, d
  <2>6. ASSUME NEW c \in Channel, NEW w \in What, Holds(list'[c], w) PROVE c = ChannelOf[w]
    <3>1. CASE c = d
      BY <2>3, <2>4, <2>5, <2>6, <3>1 DEF Placed
    <3>2. CASE c # d
      BY <2>4, <2>6, <3>2 DEF Placed
    <3> QED BY <3>1, <3>2
  <2> QED BY <2>2, <2>6 DEF Placed
<1>2. ASSUME NEW c \in Channel, Pop(c) PROVE Placed'
  <2> DEFINE o == Head(list[c])
  <2>1. /\ o \in Order /\ o.what \in What
        /\ \A w : Holds(list[c], w) <=> o.what = w \/ Holds(Tail(list[c]), w)
    BY <1>2, HeadAndTail, Orders DEF Pop, Typed, TypeOK
  <2>2. list' = [list EXCEPT ![c] = Tail(list[c])] /\ hand' = [hand EXCEPT ![c] = o]
    BY <1>2 DEF Pop
  <2> HIDE DEF o
  <2>3. c = ChannelOf[o.what]
    BY <2>1 DEF Placed
  <2>4. ASSUME NEW d \in Channel, NEW w \in What, Holds(list'[d], w) PROVE d = ChannelOf[w]
    BY <2>1, <2>2, <2>4 DEF Placed, Typed, TypeOK
  <2>5. ASSUME NEW d \in Channel, hand'[d] # Nothing PROVE d = ChannelOf[hand'[d].what]
    BY <2>2, <2>3, <2>5 DEF Placed, Typed, TypeOK
  <2> QED BY <2>4, <2>5 DEF Placed
<1>3. ASSUME NEW c \in Channel, NEW s \in Server, Done(c, s), UNCHANGED list PROVE Placed'
  BY <1>3 DEF Done, Placed, Typed, TypeOK
<1>4. CASE PushesAgain
  <2> DEFINE o == hand[Retried]
  <2>1. o \in Order /\ Retried \in Channel /\ Retried = ChannelOf[o.what]
    BY <1>4, ReloadsAssumption DEF PushesAgain, Typed, TypeOK, Placed
  <2>2. /\ list' = [list EXCEPT ![Retried] = <<o>> \o list[Retried]]
        /\ hand' = [hand EXCEPT ![Retried] = Nothing]
    BY <1>4 DEF PushesAgain, Restarts
  <2>3. \A w : Holds(<<o>> \o list[Retried], w) <=> o.what = w \/ Holds(list[Retried], w)
    BY <2>1, PutInFront DEF Typed, TypeOK
  <2> HIDE DEF o
  <2>4. ASSUME NEW d \in Channel, NEW w \in What, Holds(list'[d], w) PROVE d = ChannelOf[w]
    BY <2>1, <2>2, <2>3, <2>4 DEF Placed, Typed, TypeOK
  <2>5. ASSUME NEW d \in Channel, hand'[d] # Nothing PROVE d = ChannelOf[hand'[d].what]
    BY <2>2, <2>5 DEF Placed, Typed, TypeOK
  <2> QED BY <2>4, <2>5 DEF Placed
<1>5. ASSUME NEW c \in Channel, LosesOrder(c) PROVE Placed'
  BY <1>5 DEF LosesOrder, Restarts, Placed, Typed, TypeOK
<1>6. \A p \in Process :
        (\/ \E c \in Change : CommitChange(p, c)
         \/ \E l \in Lock, state \in {"open", "closed"} : CreateLock(p, l, state)
         \/ \E l \in Lock : DeleteLock(p, l) \/ FindLock(p, l)
         \/ \E state \in {"open", "closed"} : SetLock(p, state)
         \/ PushFails(p) \/ KillProcess(p)) => UNCHANGED <<list, hand>>
  BY DEF CommitChange, CreateLock, DeleteLock, FindLock, SetLock, PushFails, KillProcess, worker
<1>7. FallsAsleep => UNCHANGED <<list, hand>>
  BY DEF FallsAsleep
<1>8. \A c \in Channel, s \in Server : CallSucceeds(c, s) \/ CallFails(c, s) => Done(c, s) /\ UNCHANGED list
  BY DEF CallSucceeds, CallFails
<1> QED BY <1>0, <1>1, <1>2, <1>3, <1>4, <1>5, <1>6, <1>7, <1>8, Steps

\* Steps of a process that do not bear on the lock.
LEMMA FreshWithMore ==
    ASSUME Typed, NEW l \in Lock, NEW s, Fresh(l, s),
           NEW p \in Process, todo[p] = <<>>, NEW orders, todo' = [todo EXCEPT ![p] = orders],
           ~Holds(orders, l), UNCHANGED <<list, hand, left, hint>>, lock'[l] = lock[l],
           l \in crossed <=> l \in crossed', <<l, s>> \in missed => <<l, s>> \in missed'
    PROVE  Fresh(l, s)'
<1>1. Live(l) <=> Live(l)'
  BY DEF Live
<1>2. \A q \in Process : q # p => todo'[q] = todo[q]
  BY DEF Typed, TypeOK
<1>3. todo'[p] = orders
  BY DEF Typed, TypeOK
<1>4. ~Holds(todo[p], l) /\ ~Holds(todo'[p], l)
  BY <1>3, NoOrders
<1>5. \A q \in Process : Holds(todo[q], l) <=> Holds(todo'[q], l)
  BY <1>2, <1>4
<1>6. PushedLast(l) => PushedLast(l)'
  BY <1>2, <1>4 DEF PushedLast, Holds
<1>7. ListedLast(l) => ListedLast(l)'
  BY DEF ListedLast
<1>8. ToldLast(l, s) => ToldLast(l, s)'
  BY DEF ToldLast, InHand
<1> QED BY <1>1, <1>5, <1>6, <1>7, <1>8 DEF Fresh

\* A process that dies, or whose order is refused: it has fewer orders, and those
\* about the lock are forgotten.
LEMMA FreshWithLess ==
    ASSUME Typed, NEW l \in Lock, NEW s, Fresh(l, s),
           NEW p \in Process, NEW orders, todo' = [todo EXCEPT ![p] = orders],
           \/ Holds(todo[p], l) /\ <<l, s>> \in missed'
           \/ ~Holds(todo[p], l) /\ ~Holds(orders, l),
           UNCHANGED <<list, hand, left, hint, lock, crossed>>,
           missed \subseteq missed'
    PROVE  Fresh(l, s)'
<1>1. CASE <<l, s>> \in missed'
  BY <1>1 DEF Fresh
<1>2. CASE ~Holds(todo[p], l) /\ ~Holds(orders, l)
  <2>1. Live(l) <=> Live(l)'
    BY DEF Live
  <2>2. \A q \in Process : q # p => todo'[q] = todo[q]
    BY DEF Typed, TypeOK
  <2>3. todo'[p] = orders
    BY DEF Typed, TypeOK
  <2>4. \A q \in Process : Holds(todo[q], l) <=> Holds(todo'[q], l)
    BY <1>2, <2>2, <2>3
  <2>5. PushedLast(l) => PushedLast(l)'
    BY <1>2, <2>2, <2>3 DEF PushedLast, Holds
  <2>6. ListedLast(l) => ListedLast(l)'
    BY DEF ListedLast
  <2>7. ToldLast(l, s) => ToldLast(l, s)'
    BY DEF ToldLast, InHand
  <2> QED BY <2>1, <2>4, <2>5, <2>6, <2>7 DEF Fresh
<1> QED BY <1>1, <1>2

\* A new state of the lock, and the order to tell it.
LEMMA FreshAfterChange ==
    ASSUME Typed, NEW l \in Lock, NEW s,
           NEW p \in Process, todo[p] = <<>>, NEW orders, todo' = [todo EXCEPT ![p] = orders],
           Holds(orders, l), NEW state,
           \A i \in 1 .. Len(orders) : orders[i].what = l => orders[i].state = state,
           lock'[l] \in {"open", "closed"} => lock'[l] = state,
           NotesChange(p, l)
    PROVE  Fresh(l, s)'
<1> SUFFICES ASSUME Live(l)'
             PROVE  PushedLast(l)' /\ \E q \in Process : Holds(todo'[q], l)
  BY DEF Fresh
<1>1. todo'[p] = orders /\ \A q \in Process : q # p => todo'[q] = todo[q]
  BY DEF Typed, TypeOK
<1>2. lock'[l] = state
  BY DEF Live
<1>3. \A q \in Process : q # p => ~Holds(todo[q], l)
  BY DEF Live, NotesChange
<1>4. PushedLast(l)'
  BY <1>1, <1>2, <1>3 DEF PushedLast, Holds
<1> QED BY <1>1, <1>4

LEMMA FreshAfterPush ==
    ASSUME Typed, NEW l \in Lock, NEW s, Fresh(l, s), NEW p \in Process, Push(p)
    PROVE  Fresh(l, s)'
<1> DEFINE o == Head(todo[p])
           d == ChannelOf[o.what]
           C == ChannelOf[l]
<1>1. /\ o \in Order /\ d \in Channel /\ C \in Channel
      /\ Tail(todo[p]) \in Seq(Order)
      /\ Len(Tail(todo[p])) = Len(todo[p]) - 1
      /\ \A i \in 1 .. Len(Tail(todo[p])) : Tail(todo[p])[i] = todo[p][i + 1]
      /\ o = todo[p][1] /\ Len(todo[p]) \in Nat \ {0}
      /\ Holds(todo[p], l) <=> o.what = l \/ Holds(Tail(todo[p]), l)
  BY SMTT(30), HeadAndTail, Orders, ReloadsAssumption DEF Push, Typed, TypeOK, What
<1>2. /\ list' = [list EXCEPT ![d] = Append(list[d], o)]
      /\ todo' = [todo EXCEPT ![p] = Tail(todo[p])]
      /\ UNCHANGED <<hand, left, lock, hint, missed, crossed>>
  BY DEF Push, worker, database, server
<1>3. d = ChannelOf[o.what]
  OBVIOUS
<1> HIDE DEF o, d
<1>4. SUFFICES ASSUME Live(l), <<l, s>> \notin missed
               PROVE  /\ PushedLast(l)'
                      /\ (\A q \in Process : ~Holds(todo'[q], l)) =>
                            /\ ListedLast(l)'
                            /\ ~Holds(list'[C], l) => ToldLast(l, s)'
  BY <1>2 DEF Fresh, Live
<1>5. todo'[p] = Tail(todo[p]) /\ \A q \in Process : q # p => todo'[q] = todo[q]
  BY <1>2 DEF Typed, TypeOK
<1>6. PushedLast(l)
  BY <1>4 DEF Fresh
<1>7. PushedLast(l)'
  <2>1. ASSUME NEW i \in 1 .. Len(Tail(todo[p])), Tail(todo[p])[i].what = l
        PROVE  Tail(todo[p])[i].state = lock[l]
    <3>1. i + 1 \in 1 .. Len(todo[p]) /\ todo[p][i + 1].what = l
      BY <1>1, <2>1
    <3> QED BY <1>1, <1>6, <3>1 DEF PushedLast
  <2> QED BY <1>2, <1>5, <1>6, <2>1 DEF PushedLast
<1>8. CASE o.what = l
  <2>1. 1 \in 1 .. Len(todo[p])
    BY <1>1
  <2>2. o.state = lock[l]
    BY <1>1, <1>6, <1>8, <2>1 DEF PushedLast
  <2>3. d = C /\ list[C] \in Seq(Order)
    BY <1>1, <1>3, <1>8 DEF Typed, TypeOK
  <2>4. list'[C] = Append(list[C], o)
    BY <1>1, <1>2, <2>3 DEF Typed, TypeOK
  <2>5. Newest(Append(list[C], o), l, lock[l])
    BY <1>1, <1>8, <2>2, <2>3, NewestOfAppended
  <2>6. Holds(Append(list[C], o), l)
    BY <1>1, <1>8, <2>3, Appended
  <2> QED BY <1>2, <1>7, <2>4, <2>5, <2>6 DEF ListedLast
<1>9. CASE o.what # l
  <2> SUFFICES ASSUME \A q \in Process : ~Holds(todo'[q], l)
               PROVE  ListedLast(l)' /\ (~Holds(list'[C], l) => ToldLast(l, s)')
    BY <1>7
  <2>1. \A q \in Process : ~Holds(todo[q], l)
    BY <1>1, <1>5, <1>9
  <2>2. ListedLast(l) /\ (~Holds(list[C], l) => ToldLast(l, s))
    BY <1>4, <2>1 DEF Fresh
  <2>3. list[C] \in Seq(Order)
    BY <1>1 DEF Typed, TypeOK
  <2>4. CASE d = C
    <3>1. list'[C] = Append(list[C], o)
      BY <1>1, <1>2, <2>4 DEF Typed, TypeOK
    <3>2. Newest(Append(list[C], o), l, lock[l])
      BY <1>1, <1>9, <2>2, <2>3, NewestOfAppended DEF ListedLast
    <3>3. Holds(list[C], l) => Holds(Append(list[C], o), l)
      BY <1>1, <2>3, Appended
    <3> QED BY <1>2, <2>2, <3>1, <3>2, <3>3 DEF ListedLast, ToldLast, InHand
  <2>5. CASE d # C
    <3>1. list'[C] = list[C]
      BY <1>1, <1>2, <2>5 DEF Typed, TypeOK
    <3> QED BY <1>2, <2>2, <3>1 DEF ListedLast, ToldLast, InHand
  <2> QED BY <2>4, <2>5
<1> QED BY <1>8, <1>9

LEMMA FreshAfterPop ==
    ASSUME Typed, Placed, NEW l \in Lock, NEW s \in Holders[l], Fresh(l, s), NEW c \in Channel, Pop(c)
    PROVE  Fresh(l, s)'
<1> DEFINE o == Head(list[c])
           C == ChannelOf[l]
<1>1. /\ o \in Order /\ o # Nothing /\ C \in Channel
      /\ Holds(list[c], l) <=> o.what = l \/ Holds(Tail(list[c]), l)
      /\ Holds(list[c], o.what)
      /\ o.what \in What
  BY SMTT(30), HeadAndTail, Orders, ReloadsAssumption DEF Pop, Typed, TypeOK, What
<1>2. /\ list' = [list EXCEPT ![c] = Tail(list[c])]
      /\ hand' = [hand EXCEPT ![c] = o]
      /\ left' = [left EXCEPT ![c] = Holders[o.what]]
      /\ hand[c] = Nothing /\ list[c] # <<>>
      /\ UNCHANGED <<todo, lock, hint, missed, crossed>>
  BY DEF Pop, process, database, server
<1>3. CASE c # C
  <2>1. list'[C] = list[C] /\ hand'[C] = hand[C] /\ left'[C] = left[C]
    BY <1>1, <1>2, <1>3 DEF Typed, TypeOK
  <2> QED BY <1>2, <2>1 DEF Fresh, Live, PushedLast, ListedLast, ToldLast, InHand
<1>4. CASE c = C
  <2>1. SUFFICES ASSUME Live(l), <<l, s>> \notin missed, \A q \in Process : ~Holds(todo[q], l)
                 PROVE  ListedLast(l)' /\ (~Holds(list'[C], l) => ToldLast(l, s)')
    BY <1>2 DEF Fresh, Live, PushedLast
  <2>2. Newest(list[C], l, lock[l]) /\ (~Holds(list[C], l) => hint[l][s] = lock[l])
    BY <1>2, <1>4, <2>1 DEF Fresh, ListedLast, ToldLast, InHand
  <2>3. list'[C] = Tail(list[C]) /\ hand'[C] = o /\ left'[C] = Holders[o.what]
    BY <1>1, <1>2, <1>4 DEF Typed, TypeOK
  <2>4. /\ Newest(Tail(list[C]), l, lock[l])
        /\ o.what = l /\ ~Holds(Tail(list[C]), l) => o.state = lock[l]
    <3>1. list[C] \in Seq(Order) /\ list[C] # <<>> /\ o = Head(list[C])
      BY <1>1, <1>2, <1>4 DEF Typed, TypeOK
    <3> HIDE DEF o, C
    <3> QED BY <2>2, <3>1, NewestOfTail
  <2> HIDE DEF o
  <2>5. ASSUME ~Holds(list'[C], l)
        PROVE  ToldLast(l, s)'
    <3>1. CASE o.what = l
      BY <1>1, <1>2, <2>3, <2>4, <2>5, <3>1 DEF ToldLast, InHand
    <3>2. CASE o.what # l
      <4>1. ~Holds(list[C], l)
        BY <1>1, <1>4, <2>3, <2>5, <3>2
      <4> QED BY <1>2, <2>2, <2>3, <3>2, <4>1 DEF ToldLast, InHand
    <3> QED BY <3>1, <3>2
  <2>6. ListedLast(l)'
    BY <1>2, <2>3, <2>4 DEF ListedLast
  <2> QED BY <2>5, <2>6
<1> QED BY <1>3, <1>4

LEMMA FreshAfterCall ==
    ASSUME Typed, Placed, NEW l \in Lock, NEW s \in Holders[l], Fresh(l, s),
           NEW c \in Channel, NEW x \in Server, CallSucceeds(c, x)
    PROVE  Fresh(l, s)'
<1> DEFINE C == ChannelOf[l]
<1>1. C \in Channel /\ l \notin Table /\ s \in Server
  BY ReloadsAssumption DEF What
<1>2. /\ x \in left[c] /\ hand[c] # Nothing /\ Done(c, x)
      /\ UNCHANGED <<todo, list, lock, crossed>>
  BY DEF CallSucceeds, Working, database, process
<1>3. <<l, s>> \in missed => <<l, s>> \in missed'
  BY <1>1 DEF CallSucceeds
<1>4. hand[c].what = l => hint' = [hint EXCEPT ![l][x] = hand[c].state]
  BY <1>1 DEF CallSucceeds
<1>5. hand[c].what # l => hint'[l] = hint[l]
  BY DEF CallSucceeds, Typed, TypeOK
<1>6. ToldLast(l, s) => ToldLast(l, s)'
  <2> SUFFICES ASSUME ToldLast(l, s) PROVE ToldLast(l, s)'
    OBVIOUS
  <2>1. CASE hand[c].what = l
    <3>1. c = C
      BY <1>2, <2>1 DEF Placed
    <3>2. InHand(l) /\ hand[C].state = lock[l]
      BY <1>2, <2>1, <3>1 DEF InHand, ToldLast
    <3>3. hint'[l][x] = lock[l] /\ \A y \in Server \ {x} : hint'[l][y] = hint[l][y]
      BY <1>4, <2>1, <3>1, <3>2 DEF Typed, TypeOK
    <3>4. left'[C] = left[C] \ {x}
      BY <1>2, <3>1 DEF Done, Typed, TypeOK
    <3>5. hand'[C] = hand[C] \/ (hand'[C] = Nothing /\ left[C] = {x})
      BY <1>2, <3>1 DEF Done, Typed, TypeOK
    <3>6. s # x /\ s \notin left[C] => hint'[l][s] = lock[l]
      BY <1>1, <3>3 DEF ToldLast
    <3>7. InHand(l)' => hand'[C].state = lock[l]
      BY <3>2, <3>5 DEF InHand
    <3>8. ~(InHand(l)' /\ s \in left'[C]) => hint'[l][s] = lock[l]
      <4>1. CASE s = x
        BY <3>3, <4>1
      <4>2. CASE s # x /\ s \in left[C]
        BY <3>2, <3>4, <3>5, <4>2 DEF InHand
      <4>3. CASE s # x /\ s \notin left[C]
        BY <3>6, <4>3
      <4> QED BY <4>1, <4>2, <4>3
    <3> QED BY <1>2, <3>7, <3>8 DEF ToldLast
  <2>2. CASE hand[c].what # l /\ c = C
    <3>1. hint[l][s] = lock[l]
      BY <2>2 DEF ToldLast, InHand
    <3>2. ~InHand(l)'
      BY <1>2, <2>2 DEF InHand, Done, Typed, TypeOK
    <3> QED BY <1>2, <1>5, <2>2, <3>1, <3>2 DEF ToldLast
  <2>3. CASE hand[c].what # l /\ c # C
    <3>1. hand'[C] = hand[C] /\ left'[C] = left[C]
      BY <1>1, <1>2, <2>3 DEF Done, Typed, TypeOK
    <3> QED BY <1>2, <1>5, <2>3, <3>1 DEF ToldLast, InHand
  <2> QED BY <2>1, <2>2, <2>3
<1>7. (Live(l)' => Live(l)) /\ (PushedLast(l) => PushedLast(l)') /\ (ListedLast(l) => ListedLast(l)')
  BY <1>2 DEF Live, PushedLast, ListedLast
<1> QED BY <1>2, <1>3, <1>6, <1>7 DEF Fresh

LEMMA FreshAfterFailure ==
    ASSUME Typed, Placed, NEW l \in Lock, NEW s \in Holders[l], Fresh(l, s),
           NEW c \in Channel, NEW gone \in SUBSET left[c], hand[c] # Nothing,
           left' = [left EXCEPT ![c] = left[c] \ gone],
           (hand' = [hand EXCEPT ![c] = Nothing] /\ gone = left[c]) \/ UNCHANGED hand,
           missed' = missed \cup ({hand[c].what} \X gone),
           UNCHANGED <<todo, list, lock, hint, crossed>>
    PROVE  Fresh(l, s)'
<1> DEFINE C == ChannelOf[l]
<1>1. C \in Channel
  BY ReloadsAssumption DEF What
<1>2. SUFFICES ASSUME <<l, s>> \notin missed', ToldLast(l, s)
               PROVE  ToldLast(l, s)'
  BY DEF Fresh, Live, PushedLast, ListedLast
<1>3. CASE c # C
  <2>1. hand'[C] = hand[C] /\ left'[C] = left[C]
    BY <1>1, <1>3 DEF Typed, TypeOK
  <2> QED BY <1>2, <2>1 DEF ToldLast, InHand
<1>4. CASE c = C
  <2>1. left'[C] = left[C] \ gone /\ (hand'[C] = hand[C] \/ (hand'[C] = Nothing /\ gone = left[C]))
    BY <1>1, <1>4 DEF Typed, TypeOK
  <2>2. hand[C].what = l => s \notin gone
    BY <1>2, <1>4
  <2> QED BY <1>2, <1>4, <2>1, <2>2 DEF ToldLast, InHand
<1> QED BY <1>3, <1>4

LEMMA FreshAfterPushingAgain ==
    ASSUME Typed, Placed, NEW l \in Lock, NEW s \in Holders[l], Fresh(l, s), PushesAgain
    PROVE  Fresh(l, s)'
<1> DEFINE o == hand[Retried]
           C == ChannelOf[l]
<1>1. o \in Order /\ o # Nothing /\ Retried \in Channel /\ C \in Channel /\ Retried = ChannelOf[o.what]
  BY ReloadsAssumption, NothingAssumption DEF PushesAgain, Typed, TypeOK, Placed, What
<1>2. /\ list' = [list EXCEPT ![Retried] = <<o>> \o list[Retried]]
      /\ hand' = [hand EXCEPT ![Retried] = Nothing]
      /\ left' = [left EXCEPT ![Retried] = {}]
      /\ UNCHANGED <<todo, lock, hint, missed, crossed>>
  BY DEF PushesAgain, Restarts, process, database, server
<1>3. SUFFICES ASSUME Live(l), <<l, s>> \notin missed, \A q \in Process : ~Holds(todo[q], l)
               PROVE  ListedLast(l)' /\ (~Holds(list'[C], l) => ToldLast(l, s)')
  BY <1>2 DEF Fresh, Live, PushedLast
<1>4. ListedLast(l) /\ (~Holds(list[C], l) => ToldLast(l, s))
  BY <1>3 DEF Fresh
<1>5. CASE C # Retried
  <2>1. list'[C] = list[C] /\ hand'[C] = hand[C] /\ left'[C] = left[C]
    BY <1>1, <1>2, <1>5 DEF Typed, TypeOK
  <2> QED BY <1>2, <1>4, <2>1 DEF ListedLast, ToldLast, InHand
<1>6. CASE C = Retried
  <2>1. list'[C] = <<o>> \o list[C] /\ hand'[C] = Nothing /\ list[C] \in Seq(Order)
    BY <1>1, <1>2, <1>6 DEF Typed, TypeOK
  <2>2. o.what = l /\ ~Holds(list[C], l) => o.state = lock[l]
    BY <1>1, <1>4, <1>6 DEF ToldLast, InHand
  <2>3. Newest(<<o>> \o list[C], l, lock[l])
    <3> HIDE DEF o, C
    <3> QED BY <1>1, <1>4, <2>1, <2>2, NewestBehind DEF ListedLast, C
  <2>4. Holds(<<o>> \o list[C], l) <=> o.what = l \/ Holds(list[C], l)
    <3> HIDE DEF o, C
    <3> QED BY <1>1, <2>1, PutInFront
  <2>5. ~Holds(list'[C], l) => ToldLast(l, s)'
    <3> SUFFICES ASSUME ~Holds(list'[C], l) PROVE ToldLast(l, s)'
      OBVIOUS
    <3>1. o.what # l /\ ~Holds(list[C], l)
      BY <2>1, <2>4
    <3>2. hint[l][s] = lock[l]
      BY <1>4, <1>6, <3>1 DEF ToldLast, InHand
    <3> QED BY <1>2, <2>1, <3>2 DEF ToldLast, InHand
  <2> QED BY <1>2, <2>1, <2>3, <2>5 DEF ListedLast
<1> QED BY <1>5, <1>6

LEMMA FreshLast ==
    ASSUME Typed, Loads, Placed, Next, NEW l \in Lock, NEW s \in Holders[l], Fresh(l, s)
    PROVE  Fresh(l, s)'
<1>0. l \notin Table /\ s \in Server /\ <<l, s>> \in What \X Server
  BY ReloadsAssumption DEF What
<1>1. ASSUME NEW p \in Process, NEW c \in Change, CommitChange(p, c)
      PROVE  Fresh(l, s)'
  <2> DEFINE orders == [i \in 1 .. Len(Sent[c]) |-> Reload(Sent[c][i])]
  <2>1. /\ todo' = [todo EXCEPT ![p] = orders] /\ todo[p] = <<>>
        /\ UNCHANGED <<list, hand, left, hint, lock, missed, crossed>>
    BY <1>1 DEF CommitChange, Idle, worker, server
  <2>2. ~Holds(orders, l)
    <3>1. \A i \in 1 .. Len(Sent[c]) : Sent[c][i] \in Table
      BY ReloadsAssumption, ElementOfSeq
    <3> QED BY <1>0, <3>1, OrdersOfChange
  <2> HIDE DEF orders
  <2> QED BY <2>1, <2>2, FreshWithMore
<1>2. ASSUME NEW p \in Process, NEW k \in Lock, NEW state \in {"open", "closed"}, CreateLock(p, k, state)
      PROVE  Fresh(l, s)'
  <2> DEFINE orders == <<Reload(Dialplan), Tell(k, state)>>
  <2>1. /\ todo' = [todo EXCEPT ![p] = orders] /\ todo[p] = <<>>
        /\ UNCHANGED <<list, hand, left, hint>>
        /\ lock' = [lock EXCEPT ![k] = state] /\ NotesChange(p, k)
    BY <1>2 DEF CreateLock, Idle, worker, server
  <2>2. /\ Len(orders) = 2 /\ orders[1].what = Dialplan
        /\ orders[2].what = k /\ orders[2].state = state
    BY DEF Reload, Tell
  <2>3. Dialplan \in Table
    BY ReloadsAssumption
  <2> HIDE DEF orders
  <2>4. CASE k = l
    <3>1. Holds(orders, l)
      BY <2>2, <2>4 DEF Holds
    <3>2. \A i \in 1 .. Len(orders) : orders[i].what = l => orders[i].state = state
      BY <1>0, <2>2, <2>3
    <3>3. lock'[l] = state
      BY <2>1, <2>4 DEF Typed, TypeOK
    <3> QED BY <2>1, <2>4, <3>1, <3>2, <3>3, FreshAfterChange
  <2>5. CASE k # l
    <3>1. ~Holds(orders, l)
      BY <1>0, <2>2, <2>3, <2>5 DEF Holds
    <3>2. lock'[l] = lock[l]
      BY <2>1, <2>5 DEF Typed, TypeOK
    <3>3. (l \in crossed <=> l \in crossed') /\ (<<l, s>> \in missed => <<l, s>> \in missed')
      BY <2>1, <2>5 DEF NotesChange
    <3> QED BY <2>1, <3>1, <3>2, <3>3, FreshWithMore
  <2> QED BY <2>4, <2>5
<1>3. ASSUME NEW p \in Process, NEW k \in Lock, DeleteLock(p, k)
      PROVE  Fresh(l, s)'
  <2> DEFINE orders == <<Reload(Dialplan)>>
  <2>1. /\ todo' = [todo EXCEPT ![p] = orders] /\ todo[p] = <<>>
        /\ UNCHANGED <<list, hand, left, hint, missed, crossed>>
        /\ lock' = [lock EXCEPT ![k] = "deleted"]
    BY <1>3 DEF DeleteLock, Idle, worker, server
  <2>2. CASE k = l
    <3>1. lock'[l] = "deleted"
      BY <2>1, <2>2 DEF Typed, TypeOK
    <3> QED BY <3>1 DEF Fresh, Live
  <2>3. CASE k # l
    <3>1. ~Holds(orders, l)
      BY <1>0, ReloadsAssumption DEF Holds, Reload
    <3>2. lock'[l] = lock[l]
      BY <2>1, <2>3 DEF Typed, TypeOK
    <3> HIDE DEF orders
    <3> QED BY <2>1, <3>1, <3>2, FreshWithMore
  <2> QED BY <2>2, <2>3
<1>4. ASSUME UNCHANGED <<lock, todo, list, hand, left, hint, missed, crossed>>
      PROVE  Fresh(l, s)'
  BY <1>4 DEF Fresh, Live, PushedLast, ListedLast, ToldLast, InHand
<1>5. ASSUME NEW p \in Process, NEW k \in Lock, FindLock(p, k)
      PROVE  Fresh(l, s)'
  BY <1>4, <1>5 DEF FindLock, database, worker, server
<1>6. ASSUME NEW p \in Process, NEW state \in {"open", "closed"}, SetLock(p, state)
      PROVE  Fresh(l, s)'
  <2> DEFINE k == found[p][1]
             orders == <<Tell(k, state)>>
  <2>1. /\ todo[p] = <<>> /\ k \in Lock
        /\ UNCHANGED <<list, hand, left, hint>>
    BY <1>6 DEF SetLock, Loads, Typed, TypeOK, worker, server
  <2>2. CASE state = found[p][2]
    BY <1>4, <1>6, <2>1, <2>2 DEF SetLock
  <2>3. CASE state # found[p][2]
    <3>1. /\ lock' = [lock EXCEPT ![k] = IF lock[k] = "deleted" THEN lock[k] ELSE state]
          /\ todo' = [todo EXCEPT ![p] = orders]
          /\ NotesChange(p, k)
      BY <1>6, <2>3 DEF SetLock
    <3>2. Len(orders) = 1 /\ orders[1].what = k /\ orders[1].state = state
      BY DEF Tell
    <3> HIDE DEF orders, k
    <3>3. CASE k = l
      <4>1. Holds(orders, l)
        BY <3>2, <3>3 DEF Holds
      <4>2. \A i \in 1 .. Len(orders) : orders[i].what = l => orders[i].state = state
        BY <3>2
      <4>3. lock'[l] \in {"open", "closed"} => lock'[l] = state
        BY <3>1, <3>3 DEF Typed, TypeOK
      <4> QED BY <2>1, <3>1, <3>3, <4>1, <4>2, <4>3, FreshAfterChange
    <3>4. CASE k # l
      <4>1. ~Holds(orders, l)
        BY <3>2, <3>4 DEF Holds
      <4>2. lock'[l] = lock[l]
        BY <3>1, <3>4 DEF Typed, TypeOK
      <4>3. (l \in crossed <=> l \in crossed') /\ (<<l, s>> \in missed => <<l, s>> \in missed')
        BY <3>1, <3>4 DEF NotesChange
      <4> QED BY <2>1, <3>1, <4>1, <4>2, <4>3, FreshWithMore
    <3> QED BY <3>3, <3>4
  <2> QED BY <2>2, <2>3
<1>7. ASSUME NEW p \in Process, Push(p)
      PROVE  Fresh(l, s)'
  BY <1>7, FreshAfterPush
<1>8. ASSUME NEW p \in Process, PushFails(p)
      PROVE  Fresh(l, s)'
  <2>1. UNCHANGED <<list, hand, left, hint, lock, crossed>> /\ missed \subseteq missed'
    BY <1>8 DEF PushFails, Forgets, database, worker, server
  <2>2. Head(todo[p]) \in Order /\ (Holds(todo[p], l) <=> Head(todo[p]).what = l \/ Holds(Tail(todo[p]), l))
    BY <1>8, HeadAndTail DEF PushFails, Typed, TypeOK
  <2>3. CASE ChannelOf[Head(todo[p]).what] \in Swallowing
    <3>1. todo' = [todo EXCEPT ![p] = Tail(todo[p])] /\ Forgets(p, <<Head(todo[p])>>)
      BY <1>8, <2>3 DEF PushFails
    <3>2. CASE Head(todo[p]).what = l
      <4>1. Holds(<<Head(todo[p])>>, l)
        BY <3>2 DEF Holds
      <4> QED BY <1>0, <2>1, <2>2, <3>1, <3>2, <4>1, FreshWithLess DEF Forgets
    <3>3. CASE Head(todo[p]).what # l /\ ~Holds(Tail(todo[p]), l)
      BY <2>1, <2>2, <3>1, <3>3, FreshWithLess
    <3>4. CASE Head(todo[p]).what # l /\ Holds(Tail(todo[p]), l)
      <4>1. todo'[p] = Tail(todo[p]) /\ \A q \in Process : q # p => todo'[q] = todo[q]
        BY <3>1 DEF Typed, TypeOK
      <4>2. Len(Tail(todo[p])) = Len(todo[p]) - 1 /\ Len(todo[p]) \in Nat \ {0}
            /\ \A i \in 1 .. Len(Tail(todo[p])) : Tail(todo[p])[i] = todo[p][i + 1]
        BY <1>8, HeadAndTail DEF PushFails, Typed, TypeOK
      <4>3. PushedLast(l) => PushedLast(l)'
        <5> SUFFICES ASSUME PushedLast(l), NEW q \in Process, NEW i \in 1 .. Len(todo'[q]), todo'[q][i].what = l
                     PROVE  todo'[q][i].state = lock[l]
          BY <2>1 DEF PushedLast
        <5>1. CASE q = p
          <6>1. todo'[q] = Tail(todo[p]) /\ i \in 1 .. Len(Tail(todo[p]))
            BY <4>1, <5>1
          <6>2. i + 1 \in 1 .. Len(todo[p])
            BY <4>2, <6>1
          <6>3. todo[p][i + 1].what = l /\ todo'[q][i] = todo[p][i + 1]
            BY <4>2, <6>1
          <6> QED BY <6>2, <6>3 DEF PushedLast
        <5>2. CASE q # p
          BY <4>1, <5>2 DEF PushedLast
        <5> QED BY <5>1, <5>2
      <4>4. Holds(todo'[p], l)
        BY <3>4, <4>1
      <4> QED BY <2>1, <4>3, <4>4 DEF Fresh, Live
    <3> QED BY <3>2, <3>3, <3>4
  <2>4. CASE ChannelOf[Head(todo[p]).what] \notin Swallowing
    <3>1. todo' = [todo EXCEPT ![p] = <<>>] /\ Forgets(p, todo[p])
      BY <1>8, <2>4 DEF PushFails
    <3>2. Holds(todo[p], l) => <<l, s>> \in missed'
      BY <1>0, <3>1 DEF Forgets
    <3> QED BY <2>1, <3>1, <3>2, NoOrders, FreshWithLess
  <2> QED BY <2>3, <2>4
<1>9. ASSUME NEW p \in Process, KillProcess(p)
      PROVE  Fresh(l, s)'
  <2>1. UNCHANGED <<list, hand, left, hint, lock, crossed>> /\ missed \subseteq missed'
    BY <1>9 DEF KillProcess, Forgets, database, worker, server
  <2>2. todo' = [todo EXCEPT ![p] = <<>>] /\ Forgets(p, todo[p])
    BY <1>9 DEF KillProcess
  <2>3. Holds(todo[p], l) => <<l, s>> \in missed'
    BY <1>0, <2>2 DEF Forgets
  <2> QED BY <2>1, <2>2, <2>3, NoOrders, FreshWithLess
<1>10. ASSUME NEW c \in Channel, Pop(c)
       PROVE  Fresh(l, s)'
  BY <1>10, FreshAfterPop
<1>11. ASSUME NEW c \in Channel, NEW x \in Server, CallSucceeds(c, x)
       PROVE  Fresh(l, s)'
  BY <1>11, FreshAfterCall
<1>12. ASSUME NEW c \in Channel, NEW x \in Server, CallFails(c, x)
       PROVE  Fresh(l, s)'
  <2>1. /\ {x} \in SUBSET left[c] /\ hand[c] # Nothing
        /\ left' = [left EXCEPT ![c] = left[c] \ {x}]
        /\ (hand' = [hand EXCEPT ![c] = Nothing] /\ {x} = left[c]) \/ UNCHANGED hand
        /\ UNCHANGED <<todo, list, lock, hint, crossed>>
    BY <1>12 DEF CallFails, Working, Done, database, process, server
  <2>2. missed' = missed \cup ({hand[c].what} \X {x})
    BY <1>12 DEF CallFails
  <2> QED BY <2>1, <2>2, FreshAfterFailure
<1>13. CASE FallsAsleep
  BY <1>4, <1>13 DEF FallsAsleep, database, process, server
<1>14. CASE PushesAgain
  BY <1>14, FreshAfterPushingAgain
<1>15. ASSUME NEW c \in Channel, LosesOrder(c)
       PROVE  Fresh(l, s)'
  <2>1. /\ hand[c] # Nothing
        /\ left' = [left EXCEPT ![c] = left[c] \ left[c]]
        /\ hand' = [hand EXCEPT ![c] = Nothing]
        /\ missed' = missed \cup ({hand[c].what} \X left[c])
        /\ UNCHANGED <<todo, list, lock, hint, crossed>>
    BY <1>15 DEF LosesOrder, Restarts, database, process, server
  <2> QED BY <2>1, FreshAfterFailure
<1> QED BY <1>1, <1>2, <1>3, <1>5, <1>6, <1>7, <1>8, <1>9, <1>10, <1>11, <1>12, <1>13, <1>14, <1>15, Steps

\* A hint says what its lock says once all is told: of the orders about a lock the
\* newest comes last, on the list and from there, and a retry cannot bring an older
\* one behind it.
THEOREM HintsFollow == Spec => []HintFollowsLock
<1>1. Init => HintInv
  <2>1. Init => Typed
    BY TypesHoldFirst
  <2>2. Init => Loads
    BY DEF Init, Loads
  <2>3. Init => Placed
    BY DEF Init, Placed, Holds
  <2>4. ASSUME Init, NEW l \in Lock, NEW s \in Holders[l]
        PROVE  Fresh(l, s)
    <3>1. ChannelOf[l] \in Channel /\ s \in Server
      BY ReloadsAssumption DEF What
    <3>2. list[ChannelOf[l]] = <<>> /\ hand[ChannelOf[l]] = Nothing /\ hint[l][s] = lock[l]
      BY <2>4, <3>1 DEF Init
    <3>3. ListedLast(l) /\ ToldLast(l, s)
      BY <3>2 DEF ListedLast, Newest, ToldLast, InHand
    <3>4. PushedLast(l)
      BY <2>4 DEF Init, PushedLast
    <3> QED BY <3>3, <3>4 DEF Fresh
  <2> QED BY <2>1, <2>2, <2>3, <2>4 DEF HintInv
<1>2. HintInv /\ [Next]_vars => HintInv'
  <2> SUFFICES ASSUME HintInv, [Next]_vars PROVE HintInv'
    OBVIOUS
  <2>1. Typed'
    BY TypesLast DEF HintInv
  <2>2. CASE UNCHANGED vars
    <3>1. UNCHANGED <<found, todo, list, hand, left, lock, hint, missed, crossed>>
      BY <2>2 DEF vars, database, process, worker, server
    <3>2. Loads' /\ Placed'
      BY <3>1 DEF HintInv, Loads, Placed
    <3>3. \A l \in Lock : \A s \in Holders[l] : Fresh(l, s)'
      BY <3>1 DEF HintInv, Fresh, Live, PushedLast, ListedLast, ToldLast, InHand
    <3> QED BY <2>1, <3>2, <3>3 DEF HintInv
  <2>3. CASE Next
    <3>1. Loads' /\ Placed'
      BY <2>3, LoadsLast, PlacedLast DEF HintInv
    <3>2. \A l \in Lock : \A s \in Holders[l] : Fresh(l, s)'
      BY <2>3, FreshLast DEF HintInv
    <3> QED BY <2>1, <3>1, <3>2 DEF HintInv
  <2> QED BY <2>2, <2>3
<1>3. HintInv => HintFollowsLock
  BY FreshIsEnough DEF HintInv
<1> QED BY <1>1, <1>2, <1>3, PTL DEF Spec

=============================================================================
