-------------------------- MODULE CallsTable_proofs --------------------------
(***************************************************************************)
(* Proofs about CallsTable for every set of calls and every bound.         *)
(***************************************************************************)
EXTENDS CallsTable, Integers, TLAPS, WellFoundedInduction

-----------------------------------------------------------------------------
(* Taking the pending updates one by one.                                  *)

\* A set of naturals that has 0, and the successor of each it has, has them
\* all: the least it lacks would be a successor of one it has.
LEMMA SetInduction ==
    ASSUME NEW S, 0 \in S, \A n \in Nat : n \in S => n + 1 \in S
    PROVE  Nat \subseteq S
<1> DEFINE Less == {ss \in Nat \X Nat : ss[1] < ss[2]}
           T == Nat \ S
<1>1. IsWellFoundedOn(Less, Nat)
  BY NatLessThanWellFounded DEF OpToRel
<1>2. SUFFICES ASSUME T # {} PROVE FALSE
  OBVIOUS
<1>3. PICK x \in T : \A y \in T : <<y, x>> \notin Less
  <2>1. T \subseteq Nat
    OBVIOUS
  <2> HIDE DEF T, Less
  <2> QED BY <1>1, <1>2, <2>1, WFMin
<1>4. x # 0 /\ x - 1 \in Nat /\ <<x - 1, x>> \in Less
  OBVIOUS
<1>5. x - 1 \in S
  BY <1>3, <1>4
<1> QED BY <1>3, <1>4, <1>5

\* f[n] is what the first n updates of q make of s.
Takes(f, q, s, m) == f = [n \in 0 .. m |-> IF n = 0 THEN s ELSE Step(f[n - 1], q[n])]

\* There is always such a function.
LEMMA StepsExist ==
    ASSUME NEW q, NEW s, NEW m \in Nat
    PROVE  \E f : Takes(f, q, s, m)
<1> USE DEF Takes
<1> DEFINE S == {l \in Nat : \E f : Takes(f, q, s, l)}
<1>1. 0 \in S
  <2> DEFINE g == [n \in 0 .. 0 |-> s]
  <2>1. g = [n \in 0 .. 0 |-> IF n = 0 THEN s ELSE Step(g[n - 1], q[n])]
    OBVIOUS
  <2> QED BY <2>1
<1>2. ASSUME NEW l \in Nat, l \in S PROVE l + 1 \in S
  <2>1. PICK f : f = [n \in 0 .. l |-> IF n = 0 THEN s ELSE Step(f[n - 1], q[n])]
    BY <1>2
  <2> DEFINE g == [n \in 0 .. l + 1 |-> IF n <= l THEN f[n] ELSE Step(f[l], q[l + 1])]
  <2>2. ASSUME NEW n \in 0 .. l + 1
        PROVE  g[n] = IF n = 0 THEN s ELSE Step(g[n - 1], q[n])
    <3>1. CASE n = 0
      BY <2>1, <3>1
    <3>2. CASE n # 0 /\ n <= l
      <4>1. n - 1 \in 0 .. l + 1 /\ n - 1 <= l
        BY <3>2
      <4>2. g[n] = f[n] /\ g[n - 1] = f[n - 1]
        BY <3>2, <4>1
      <4>3. f[n] = Step(f[n - 1], q[n])
        BY <2>1, <3>2
      <4> HIDE DEF g
      <4> QED BY <3>2, <4>2, <4>3
    <3>3. CASE n = l + 1
      <4>1. g[n] = Step(f[l], q[l + 1]) /\ g[n - 1] = f[l]
        BY <3>3
      <4> HIDE DEF g
      <4> QED BY <3>3, <4>1
    <3> QED BY <3>1, <3>2, <3>3
  <2>3. g = [n \in 0 .. l + 1 |-> IF n = 0 THEN s ELSE Step(g[n - 1], q[n])]
    <3>1. g = [n \in 0 .. l + 1 |-> g[n]]
      OBVIOUS
    <3> HIDE DEF g
    <3> QED BY <2>2, <3>1
  <2> HIDE DEF g
  <2> QED BY <2>3
<1> HIDE DEF S
<1>3. m \in S
  BY <1>1, <1>2, SetInduction
<1> QED BY <1>3 DEF S

\* What a render has computed after each update.
LEMMA RenderedSteps ==
    ASSUME pend \in Seq(Update)
    PROVE  /\ Rendered[0] = [state |-> calls, ref |-> sync]
           /\ \A n \in 1 .. Len(pend) : Rendered[n] = Step(Rendered[n - 1], pend[n])
<1> DEFINE s == [state |-> calls, ref |-> sync]
           m == Len(pend)
<1>1. m \in Nat
  OBVIOUS
<1>2. \E f : Takes(f, pend, s, m)
  <2> HIDE DEF m, s
  <2> QED BY <1>1, StepsExist
<1>3. Rendered = [n \in 0 .. m |-> IF n = 0 THEN s ELSE Step(Rendered[n - 1], pend[n])]
  BY <1>2 DEF Rendered, Takes
<1> HIDE DEF s
<1>4. Rendered[0] = s
  BY <1>1, <1>3
<1>5. ASSUME NEW n \in 1 .. m PROVE Rendered[n] = Step(Rendered[n - 1], pend[n])
  BY <1>1, <1>3
<1> QED BY <1>4, <1>5 DEF s

\* Sets that the updates lead through, one after the other.
LEMMA RenderedIn ==
    ASSUME pend \in Seq(Update), NEW F,
           [state |-> calls, ref |-> sync] \in F[0],
           \A n \in 1 .. Len(pend) : \A s \in F[n - 1] : Step(s, pend[n]) \in F[n]
    PROVE  \A n \in 0 .. Len(pend) : Rendered[n] \in F[n]
<1> DEFINE S == {n \in Nat : n <= Len(pend) => Rendered[n] \in F[n]}
<1>0. Len(pend) \in Nat
  OBVIOUS
<1>1. 0 \in S
  BY RenderedSteps
<1>2. ASSUME NEW n \in Nat, n \in S PROVE n + 1 \in S
  <2>1. SUFFICES ASSUME n + 1 <= Len(pend) PROVE Rendered[n + 1] \in F[n + 1]
    OBVIOUS
  <2>2. Rendered[n] \in F[n]
    BY <1>0, <1>2, <2>1
  <2>3. n + 1 \in 1 .. Len(pend) /\ (n + 1) - 1 = n
    BY <1>0, <2>1
  <2> HIDE DEF S
  <2>4. Rendered[n + 1] = Step(Rendered[n], pend[n + 1])
    BY <2>3, RenderedSteps
  <2>5. Step(Rendered[n], pend[n + 1]) \in F[n + 1]
    BY <2>2, <2>3
  <2> QED BY <2>4, <2>5
<1> HIDE DEF S
<1>3. Nat \subseteq S
  BY <1>1, <1>2, SetInduction
<1> QED BY <1>0, <1>3 DEF S

-----------------------------------------------------------------------------
(* The vocabulary of events and updates.                                   *)

\* The five states, with the proxies' numbers.
LEMMA States ==
    /\ State = {"Trying", "Proceeding", "Early", "Confirmed", "Terminated"}
    /\ Rank["Trying"] = 0 /\ Rank["Proceeding"] = 1 /\ Rank["Early"] = 2
    /\ Rank["Confirmed"] = 3 /\ Rank["Terminated"] = 4
BY DEF State, Rank

\* A row has its three fields, and is not the missing row.
LEMMA RowFields ==
    ASSUME NEW row \in Row
    PROVE  /\ row # NoRow
           /\ row.event \in State /\ row.time \in Time /\ row.party \in Party
           /\ row = [event |-> row.event, time |-> row.time, party |-> row.party]
BY NoRowAssumption DEF Row

\* Rows that differ from rows in the event of the row of one call.
LEMMA EventChanged ==
    ASSUME NEW rows \in Rows, NEW c \in Call, rows[c] # NoRow, NEW e \in State
    PROVE  LET new == [rows EXCEPT ![c].event = e] IN
           /\ new \in Rows
           /\ \A d \in Call : new[d] = NoRow <=> rows[d] = NoRow
           /\ \A d \in Call : d # c => new[d] = rows[d]
           /\ new[c].event = e
<1> DEFINE row == [rows[c] EXCEPT !.event = e]
           new == [rows EXCEPT ![c] = row]
<1>1. rows[c] \in Row
  BY DEF Rows
<1>2. row \in Row /\ row.event = e
  BY <1>1 DEF Row
<1>3. row # NoRow
  BY <1>2, RowFields
<1> HIDE DEF row
<1>4. new \in Rows /\ new[c] = row /\ \A d \in Call : d # c => new[d] = rows[d]
  BY <1>2 DEF Rows
<1> QED BY <1>2, <1>3, <1>4 DEF row

\* An update with a kind other than "set" is about one call.
LEMMA UpdateKinds ==
    ASSUME NEW u \in Update
    PROVE  \/ u.kind = "set" /\ u.rows \in Rows
           \/ u.kind = "create" /\ u.call \in Call /\ u.row \in Row
           \/ u.kind \in {"confirm", "party", "delete"} /\ u.call \in Call
BY DEF Update

\* An update can be applied to rows that have the row it changes.
Applies(rows, u) == u.kind \in {"confirm", "party"} => rows[u.call] # NoRow

\* What such an update makes of the rows.
LEMMA EvaluatedRows ==
    ASSUME NEW rows \in Rows, NEW u \in Update, u.kind # "set", Applies(rows, u)
    PROVE  LET new == Evaluated(rows, u) IN
           /\ new \in Rows
           /\ \A d \in Call : d # u.call => new[d] = rows[d]
           /\ u.kind = "create" => new[u.call] = u.row
           /\ u.kind = "delete" => new[u.call] = NoRow
           /\ u.kind \in {"confirm", "party"} =>
                 new[u.call] # NoRow /\ new[u.call].event = rows[u.call].event
<1> DEFINE c == u.call
           new == Evaluated(rows, u)
<1>0. c \in Call
  BY UpdateKinds
<1>1. CASE u.kind = "create"
  <2>1. new = [rows EXCEPT ![c] = u.row] /\ u.row \in Row
    BY <1>1, UpdateKinds DEF Evaluated
  <2> HIDE DEF new
  <2>2. new \in Rows /\ new[c] = u.row /\ \A d \in Call : d # c => new[d] = rows[d]
    BY <1>0, <2>1 DEF Rows
  <2> QED BY <1>1, <2>2 DEF new
<1>2. CASE u.kind = "delete"
  <2>1. new = [rows EXCEPT ![c] = NoRow]
    BY <1>2 DEF Evaluated
  <2> HIDE DEF new
  <2>2. new \in Rows /\ new[c] = NoRow /\ \A d \in Call : d # c => new[d] = rows[d]
    BY <1>0, <2>1 DEF Rows
  <2> QED BY <1>2, <2>2 DEF new
<1>3. CASE u.kind \in {"confirm", "party"}
  <2>1. PICK row : /\ row = IF u.kind = "confirm" THEN [rows[c] EXCEPT !.time = "answer"]
                           ELSE [rows[c] EXCEPT !.party = "next"]
                  /\ new = [rows EXCEPT ![c] = row]
    BY <1>3 DEF Evaluated
  <2>2. rows[c] \in Row
    BY <1>0, <1>3 DEF Rows, Applies
  <2>3. row \in Row /\ row.event = rows[c].event
    BY <2>1, <2>2 DEF Row, Time, Party
  <2>4. row # NoRow
    BY <2>3, RowFields
  <2> HIDE DEF new
  <2>5. new \in Rows /\ new[c] = row /\ \A d \in Call : d # c => new[d] = rows[d]
    BY <1>0, <2>1, <2>3 DEF Rows
  <2> QED BY <1>3, <2>3, <2>4, <2>5 DEF new
<1> QED BY <1>1, <1>2, <1>3, UpdateKinds

-----------------------------------------------------------------------------
(* What waits for the next render.                                         *)

Waiting == 1 .. Len(pend)

About(i, c) == pend[i].kind # "set" /\ pend[i].call = c
Creates(i, c) == pend[i].kind = "create" /\ pend[i].call = c
Deletes(i, c) == pend[i].kind = "delete" /\ pend[i].call = c
Changes(i, c) == pend[i].kind \in {"confirm", "party"} /\ pend[i].call = c

\* An update is about the call.
Awaited(c) == \E i \in Waiting : About(i, c)

\* The call's row is removed and not created again.
Gone(c) == \E k \in Waiting : Deletes(k, c) /\ \A j \in k + 1 .. Len(pend) : ~Creates(j, c)

\* A change finds its row: in the reference now, and as the render gets to it,
\* for a row that is removed before is created again.
Changeable(c) ==
    \A i \in Waiting : Changes(i, c) =>
        /\ sync[c] # NoRow
        /\ \A k \in 1 .. i - 1 : Deletes(k, c) => \E j \in k + 1 .. i - 1 : Creates(j, c)

TableOK ==
    /\ calls \in Rows /\ sync \in Rows /\ pend \in Seq(Update)
    /\ again \in BOOLEAN /\ calm \in BOOLEAN

\* A call of setCalls about one call, or with all the rows.
LEMMA SetCallsQueue ==
    ASSUME TableOK, \A d \in Call : Changeable(d),
           NEW rows \in Rows, NEW u \in Update, SetCalls(rows, u), Applies(rows, u),
           \A d \in Call : rows[d] = NoRow => sync[d] = NoRow \/ ~Awaited(d),
           u.kind \in {"confirm", "party"} => ~Gone(u.call)
    PROVE  /\ TableOK' /\ UNCHANGED <<calls, again>>
           /\ \A d \in Call :
                 /\ Changeable(d)'
                 /\ \/ ~Gone(d)'
                    \/ Gone(d) /\ ~(u.kind = "create" /\ u.call = d)
                    \/ u.kind = "delete" /\ u.call = d
                 /\ Awaited(d)' => Awaited(d) \/ (u.kind # "set" /\ u.call = d)
<1>1. UNCHANGED <<calls, again>> /\ calm' \in BOOLEAN
  BY DEF SetCalls, TableOK
<1>2. CASE /\ u.kind # "set" /\ pend = <<>>
           /\ sync' = Evaluated(rows, u)
           /\ pend' = <<[kind |-> "set", rows |-> Evaluated(rows, u)]>>
  <2>1. Evaluated(rows, u) \in Rows
    BY <1>2, EvaluatedRows
  <2>2. [kind |-> "set", rows |-> Evaluated(rows, u)] \in Update
    BY <2>1 DEF Update
  <2>3. /\ Len(pend') = 1 /\ pend' \in Seq(Update)
        /\ \A i \in 1 .. Len(pend') : pend'[i].kind = "set"
    BY <1>2, <2>2
  <2>4. TableOK'
    BY <1>1, <1>2, <2>1, <2>3 DEF TableOK
  <2>5. ASSUME NEW d \in Call PROVE Changeable(d)' /\ ~Gone(d)' /\ ~Awaited(d)'
    BY <2>3 DEF Changeable, Gone, Awaited, Waiting, Changes, Deletes, About
  <2> QED BY <1>1, <2>4, <2>5
<1>3. CASE sync' = rows /\ pend' = Append(pend, u)
  <2>0. PICK n \in Nat : n = Len(pend)
    BY DEF TableOK
  <2>1. /\ Len(pend') = n + 1 /\ pend' \in Seq(Update)
        /\ pend'[n + 1] = u /\ \A i \in 1 .. n : pend'[i] = pend[i]
    BY <1>3, <2>0 DEF TableOK
  <2>2. TableOK'
    BY <1>1, <1>3, <2>1 DEF TableOK
  <2>3. /\ Waiting = 1 .. n /\ Waiting' = 1 .. n + 1
        /\ Len(pend) = n /\ Len(pend') = n + 1
    BY <2>0, <2>1 DEF Waiting
  <2>4. ASSUME NEW d \in Call, NEW i \in 1 .. n
        PROVE  /\ About(i, d)' = About(i, d) /\ Creates(i, d)' = Creates(i, d)
               /\ Deletes(i, d)' = Deletes(i, d) /\ Changes(i, d)' = Changes(i, d)
    BY <2>1 DEF About, Creates, Deletes, Changes
  <2>5. ASSUME NEW d \in Call
        PROVE  /\ About(n + 1, d)' <=> u.kind # "set" /\ u.call = d
               /\ Creates(n + 1, d)' <=> u.kind = "create" /\ u.call = d
               /\ Deletes(n + 1, d)' <=> u.kind = "delete" /\ u.call = d
               /\ Changes(n + 1, d)' <=> u.kind \in {"confirm", "party"} /\ u.call = d
    BY <2>1 DEF About, Creates, Deletes, Changes
  <2>6. ASSUME NEW d \in Call PROVE Awaited(d)' => Awaited(d) \/ (u.kind # "set" /\ u.call = d)
    BY <2>1, <2>3, <2>4, <2>5 DEF Awaited
  <2>7. ASSUME NEW d \in Call, Gone(d)'
        PROVE  \/ Gone(d) /\ ~(u.kind = "create" /\ u.call = d)
               \/ u.kind = "delete" /\ u.call = d
    <3>1. PICK k \in 1 .. n + 1 :
              Deletes(k, d)' /\ \A j \in k + 1 .. n + 1 : ~Creates(j, d)'
      BY <2>3, <2>7 DEF Gone
    <3>2. CASE k = n + 1
      BY <2>5, <3>1, <3>2
    <3>3. CASE k \in 1 .. n
      <4>1. Deletes(k, d)
        BY <2>4, <3>1, <3>3
      <4>2. \A j \in k + 1 .. n : ~Creates(j, d)
        BY <2>1, <2>4, <3>1, <3>3
      <4>3. ~(u.kind = "create" /\ u.call = d)
        BY <2>1, <2>5, <3>1, <3>3
      <4> QED BY <2>3, <3>3, <4>1, <4>2, <4>3 DEF Gone
    <3> QED BY <2>1, <3>2, <3>3
  <2>8. ASSUME NEW d \in Call PROVE Changeable(d)'
    <3> SUFFICES ASSUME NEW i \in 1 .. n + 1, Changes(i, d)'
                 PROVE  /\ sync'[d] # NoRow
                        /\ \A k \in 1 .. i - 1 :
                              Deletes(k, d)' => \E j \in k + 1 .. i - 1 : Creates(j, d)'
      BY <2>3 DEF Changeable
    <3>1. CASE i \in 1 .. n
      <4>1. Changes(i, d)
        BY <2>4, <3>1
      <4>2. /\ sync[d] # NoRow
            /\ \A k \in 1 .. i - 1 : Deletes(k, d) => \E j \in k + 1 .. i - 1 : Creates(j, d)
        BY <2>3, <3>1, <4>1 DEF Changeable
      <4>3. Awaited(d)
        BY <2>3, <3>1, <4>1 DEF Awaited, Changes, About
      <4>4. sync'[d] # NoRow
        BY <1>3, <4>2, <4>3
      <4>5. ASSUME NEW k \in 1 .. i - 1, Deletes(k, d)'
            PROVE  \E j \in k + 1 .. i - 1 : Creates(j, d)'
        <5>1. k \in 1 .. n /\ \A j \in k + 1 .. i - 1 : j \in 1 .. n
          BY <2>1, <3>1
        <5> QED BY <2>4, <4>2, <4>5, <5>1
      <4> QED BY <4>4, <4>5
    <3>2. CASE i = n + 1
      <4>1. u.kind \in {"confirm", "party"} /\ u.call = d
        BY <2>5, <3>2
      <4>2. sync'[d] # NoRow
        BY <1>3, <4>1 DEF Applies
      <4>3. ~Gone(d)
        BY <4>1
      <4>4. ASSUME NEW k \in 1 .. n, Deletes(k, d)'
            PROVE  \E j \in k + 1 .. n : Creates(j, d)'
        <5>1. PICK j \in k + 1 .. n : Creates(j, d)
          BY <2>3, <2>4, <4>3, <4>4 DEF Gone
        <5> QED BY <2>1, <2>4, <5>1
      <4> QED BY <2>1, <3>2, <4>2, <4>4
    <3> QED BY <2>1, <3>1, <3>2
  <2> HIDE DEF Awaited
  <2> QED BY <1>1, <2>2, <2>6, <2>7, <2>8
<1> QED BY <1>2, <1>3 DEF SetCalls

\* With all the rows, setCalls always waits for the render.
LEMMA SetAll ==
    ASSUME NEW rows, NEW all, SetCalls(rows, [kind |-> "set", rows |-> all])
    PROVE  sync' = rows /\ pend' = Append(pend, [kind |-> "set", rows |-> all])
BY DEF SetCalls

\* The reference takes an event, without an update of the state.
Notes(rows) == sync' = rows /\ calm' = (calm /\ pend = <<>>) /\ UNCHANGED <<calls, pend, again>>

NewRow(event) == [event |-> event, time |-> "setup", party |-> "first"]

\* The reference as updateCall leaves it before it calls setCalls.
Heard(c, m) == IF m.event = "UpdateCLID" THEN sync ELSE [sync EXCEPT ![c].event = m.event]

\* Each message ends in one call of setCalls, a note in the reference or nothing.
LEMMA MessageCases ==
    ASSUME TableOK, NEW c \in Call, NEW m \in Message, OnMessage(c, m)
    PROVE  \/ /\ m.full /\ m.event \in State
              /\ SetCalls(sync, [kind |-> "create", call |-> c, row |-> NewRow(m.event)])
           \/ /\ ~m.full /\ sync[c] # NoRow
              /\ \/ m.event = "UpdateCLID" /\ SetCalls(Heard(c, m), [kind |-> "party", call |-> c])
                 \/ m.event = "Confirmed" /\ SetCalls(Heard(c, m), [kind |-> "confirm", call |-> c])
                 \/ m.event = "Terminated" /\ SetCalls(Heard(c, m), [kind |-> "delete", call |-> c])
                 \/ m.event \in State \ {"Confirmed", "Terminated"} /\ Notes(Heard(c, m))
           \/ /\ \/ ~m.full /\ sync[c] = NoRow
                 \/ m.full /\ m.event = "Terminated"
              /\ Notes(sync)
<1>1. m.full \in BOOLEAN /\ m.event \in Event /\ (m.full => m.event # "UpdateCLID")
  BY DEF Message
<1>2. CASE ~m.full /\ sync[c] # NoRow
  <2>1. UpdateCall(c, m.event)
    BY <1>2 DEF OnMessage
  <2>2. CASE m.event = "UpdateCLID"
    BY <1>2, <2>1, <2>2 DEF UpdateCall, Heard
  <2>3. CASE m.event = "Confirmed"
    BY <1>2, <2>1, <2>3 DEF UpdateCall, Heard
  <2>4. CASE m.event = "Terminated"
    BY <1>2, <2>1, <2>4 DEF UpdateCall, Heard
  <2>5. CASE m.event \in State \ {"Confirmed", "Terminated"}
    <3>1. m.event # "UpdateCLID"
      BY <2>5, States
    <3> QED BY <1>2, <2>1, <2>5, <3>1 DEF UpdateCall, Heard, Notes
  <2> QED BY <1>1, <2>2, <2>3, <2>4, <2>5 DEF Event
<1>3. CASE m.full /\ m.event # "Terminated"
  <2>1. CreateCall(c, m.event)
    BY <1>3 DEF OnMessage
  <2>2. m.event \in State
    BY <1>1, <1>3 DEF Event
  <2> QED BY <1>3, <2>1, <2>2 DEF CreateCall, NewRow
<1>4. CASE ~(~m.full /\ sync[c] # NoRow) /\ ~(m.full /\ m.event # "Terminated")
  BY <1>1, <1>4 DEF OnMessage, Notes
<1> QED BY <1>1, <1>2, <1>3, <1>4

\* The updates that the messages queue.
LEMMA MessageUpdates ==
    ASSUME NEW c \in Call
    PROVE  /\ \A event \in State :
                 NewRow(event) \in Row /\ [kind |-> "create", call |-> c, row |-> NewRow(event)] \in Update
           /\ \A kind \in {"confirm", "party", "delete"} : [kind |-> kind, call |-> c] \in Update
<1>1. ASSUME NEW event \in State PROVE NewRow(event) \in Row
  BY DEF NewRow, Row, Time, Party
<1>2. ASSUME NEW row \in Row PROVE [kind |-> "create", call |-> c, row |-> row] \in Update
  BY DEF Update
<1>3. ASSUME NEW kind \in {"confirm", "party", "delete"}
      PROVE  [kind |-> kind, call |-> c] \in Update
  BY DEF Update
<1> QED BY <1>1, <1>2, <1>3

\* The reference with the event of a message is of its type, and has the same rows.
LEMMA HeardRows ==
    ASSUME sync \in Rows, NEW c \in Call, NEW m \in Message, sync[c] # NoRow
    PROVE  /\ Heard(c, m) \in Rows
           /\ \A d \in Call : Heard(c, m)[d] = NoRow <=> sync[d] = NoRow
           /\ \A d \in Call : d # c => Heard(c, m)[d] = sync[d]
           /\ Heard(c, m)[c].event = IF m.event = "UpdateCLID" THEN sync[c].event ELSE m.event
<1>1. CASE m.event = "UpdateCLID"
  BY <1>1 DEF Heard
<1>2. CASE m.event # "UpdateCLID"
  <2>1. m.event \in State
    BY <1>2 DEF Message, Event
  <2> QED BY <1>2, <2>1, EventChanged DEF Heard
<1> QED BY <1>1, <1>2

\* What a message m about call c does to the queue.
MessageQueued(c, m) ==
    /\ TableOK' /\ UNCHANGED <<calls, again>>
    /\ \A d \in Call :
          /\ Changeable(d)'
          /\ \/ ~Gone(d)'
             \/ d # c /\ Gone(d)
             \/ d = c /\ ~m.full /\ m.event = "Terminated"
          /\ Awaited(d)' => Awaited(d) \/ d = c

LEMMA MessageQueue ==
    ASSUME TableOK, \A d \in Call : Changeable(d),
           NEW c \in Call, NEW m \in Message, OnMessage(c, m),
           m.full => m.event # "Terminated", ~m.full => ~Gone(c)
    PROVE  MessageQueued(c, m)
<1>0. sync \in Rows
  BY DEF TableOK
<1>1. ASSUME NEW rows, Notes(rows), rows \in Rows,
             \A d \in Call : rows[d] = NoRow => sync[d] = NoRow,
             ~Gone(c)
      PROVE  MessageQueued(c, m)
  <2>1. TableOK' /\ UNCHANGED <<calls, again, pend>>
    BY <1>1 DEF TableOK, Notes
  <2>2. sync' = rows
    BY <1>1 DEF Notes
  <2>3. ASSUME NEW d \in Call PROVE Changeable(d)' /\ (Gone(d)' = Gone(d)) /\ (Awaited(d)' = Awaited(d))
    <3>1. Waiting' = Waiting /\ Len(pend') = Len(pend)
      BY <2>1 DEF Waiting
    <3>2. \A i : /\ About(i, d)' = About(i, d) /\ Creates(i, d)' = Creates(i, d)
                 /\ Deletes(i, d)' = Deletes(i, d) /\ Changes(i, d)' = Changes(i, d)
      BY <2>1 DEF About, Creates, Deletes, Changes
    <3>3. rows[d] = NoRow => sync[d] = NoRow
      BY <1>1
    <3>4. Changeable(d)
      OBVIOUS
    <3>5. Changeable(d)'
      BY <2>2, <3>1, <3>2, <3>3, <3>4 DEF Changeable
    <3>6. (Gone(d)' = Gone(d)) /\ (Awaited(d)' = Awaited(d))
      BY <3>1, <3>2 DEF Gone, Awaited
    <3> QED BY <3>5, <3>6
  <2> QED BY <1>1, <2>1, <2>3 DEF MessageQueued
<1>2. ASSUME NEW rows \in Rows, NEW u \in Update, SetCalls(rows, u), Applies(rows, u),
             \A d \in Call : rows[d] = NoRow => sync[d] = NoRow,
             u.kind # "set", u.call = c, u.kind = "create" <=> m.full,
             u.kind = "delete" => ~m.full /\ m.event = "Terminated"
      PROVE  MessageQueued(c, m)
  <2>1. \A d \in Call : rows[d] = NoRow => sync[d] = NoRow \/ ~Awaited(d)
    BY <1>2
  <2>2. u.kind \in {"confirm", "party"} => ~Gone(u.call)
    BY <1>2
  <2>3. /\ TableOK' /\ UNCHANGED <<calls, again>>
        /\ \A d \in Call :
              /\ Changeable(d)'
              /\ \/ ~Gone(d)'
                 \/ Gone(d) /\ ~(u.kind = "create" /\ u.call = d)
                 \/ u.kind = "delete" /\ u.call = d
              /\ Awaited(d)' => Awaited(d) \/ (u.kind # "set" /\ u.call = d)
    BY <1>2, <2>1, <2>2, SetCallsQueue
  <2> QED BY <1>2, <2>3 DEF MessageQueued
<1>3. CASE /\ m.full /\ m.event \in State
           /\ SetCalls(sync, [kind |-> "create", call |-> c, row |-> NewRow(m.event)])
  <2> DEFINE u == [kind |-> "create", call |-> c, row |-> NewRow(m.event)]
  <2>1. u \in Update /\ u.kind = "create" /\ u.call = c
    BY <1>3, MessageUpdates
  <2>2. SetCalls(sync, u)
    BY <1>3
  <2> HIDE DEF u
  <2>3. Applies(sync, u)
    BY <2>1 DEF Applies
  <2> QED BY <1>0, <1>2, <1>3, <2>1, <2>2, <2>3
<1>4. ASSUME NEW kind \in {"confirm", "party", "delete"}, ~m.full, sync[c] # NoRow,
             SetCalls(Heard(c, m), [kind |-> kind, call |-> c]),
             kind = "delete" => m.event = "Terminated"
      PROVE  MessageQueued(c, m)
  <2> DEFINE u == [kind |-> kind, call |-> c]
             rows == Heard(c, m)
  <2>1. u \in Update /\ u.kind = kind /\ u.call = c
    BY MessageUpdates
  <2>2. SetCalls(rows, u)
    BY <1>4
  <2>3. rows \in Rows /\ \A d \in Call : rows[d] = NoRow <=> sync[d] = NoRow
    BY <1>0, <1>4, HeardRows
  <2> HIDE DEF u, rows
  <2>4. Applies(rows, u)
    BY <1>4, <2>1, <2>3 DEF Applies
  <2>5. u.kind # "set" /\ u.kind # "create"
    BY <2>1
  <2> QED BY <1>2, <1>4, <2>1, <2>2, <2>3, <2>4, <2>5
<1>5. CASE ~m.full /\ sync[c] # NoRow /\ Notes(Heard(c, m))
  <2>1. Heard(c, m) \in Rows /\ \A d \in Call : Heard(c, m)[d] = NoRow <=> sync[d] = NoRow
    BY <1>0, <1>5, HeardRows
  <2> QED BY <1>1, <1>5, <2>1
<1>6. CASE ~m.full /\ sync[c] = NoRow /\ Notes(sync)
  <2> QED BY <1>0, <1>1, <1>6
<1> QED BY <1>3, <1>4, <1>5, <1>6, MessageCases

\* Nothing changes in the queue.
LEMMA SameQueue ==
    ASSUME UNCHANGED <<sync, pend>>, NEW d
    PROVE  Changeable(d)' = Changeable(d) /\ Gone(d)' = Gone(d) /\ Awaited(d)' = Awaited(d)
<1>1. Waiting' = Waiting /\ Len(pend') = Len(pend)
  BY DEF Waiting
<1>2. \A i : /\ About(i, d)' = About(i, d) /\ Creates(i, d)' = Creates(i, d)
             /\ Deletes(i, d)' = Deletes(i, d) /\ Changes(i, d)' = Changes(i, d)
  BY DEF About, Creates, Deletes, Changes
<1> QED BY <1>1, <1>2 DEF Changeable, Gone, Awaited

\* With all the rows there is nothing about one call.
LEMMA SetAllQueue ==
    ASSUME TableOK, \A d \in Call : Changeable(d),
           NEW rows \in Rows, NEW all \in Rows,
           SetCalls(rows, [kind |-> "set", rows |-> all]),
           \A d \in Call : rows[d] = NoRow => sync[d] = NoRow \/ ~Awaited(d)
    PROVE  /\ TableOK' /\ UNCHANGED <<calls, again>>
           /\ \A d \in Call :
                 Changeable(d)' /\ (Gone(d)' => Gone(d)) /\ (Awaited(d)' => Awaited(d))
<1> DEFINE u == [kind |-> "set", rows |-> all]
<1>1. u \in Update /\ u.kind = "set"
  BY DEF Update
<1>2. SetCalls(rows, u)
  OBVIOUS
<1> HIDE DEF u
<1>3. Applies(rows, u) /\ ~(u.kind \in {"confirm", "party"})
  BY <1>1 DEF Applies
<1> QED BY <1>1, <1>2, <1>3, SetCallsQueue

LEMMA HideQueue ==
    ASSUME TableOK, ready \in BOOLEAN, \A d \in Call : Changeable(d),
           NEW hidden \in BOOLEAN, Hide(hidden)
    PROVE  /\ TableOK' /\ ready' \in BOOLEAN /\ UNCHANGED calls
           /\ \A d \in Call :
                 Changeable(d)' /\ (Gone(d)' => Gone(d)) /\ (Awaited(d)' => Awaited(d))
<1>1. ready' \in BOOLEAN
  BY DEF Hide
<1>2. CASE SetCalls(sync, [kind |-> "set", rows |-> Empty])
  <2>1. Empty \in Rows /\ sync \in Rows
    BY DEF Empty, Rows, TableOK
  <2> QED BY <1>1, <1>2, <2>1, SetAllQueue
<1>3. CASE again' = TRUE /\ UNCHANGED <<calls, sync, pend, calm>>
  <2>1. TableOK'
    BY <1>3 DEF TableOK
  <2> QED BY <1>1, <1>3, <2>1, SameQueue
<1> QED BY <1>2, <1>3 DEF Hide

\* The reference as a render gets to update n + 1: what is left can be applied.
Ready(n) ==
    {s \in [state : Rows, ref : Rows] :
        \A c \in Call, i \in n + 1 .. Len(pend) :
            Changes(i, c) => s.ref[c] # NoRow \/ \E j \in n + 1 .. i - 1 : Creates(j, c)}

\* An update about one call is applied to the reference, and gives the state.
LEMMA StepOfOne ==
    ASSUME NEW s, NEW u, u.kind # "set"
    PROVE  Step(s, u) = [state |-> Evaluated(s.ref, u), ref |-> Evaluated(s.ref, u)]
BY DEF Step

LEMMA StepReady ==
    ASSUME TableOK, \A d \in Call : Changeable(d),
           NEW n \in 1 .. Len(pend), NEW s \in Ready(n - 1)
    PROVE  /\ Step(s, pend[n]) \in Ready(n)
           /\ pend[n].kind # "set" => Applies(s.ref, pend[n])
<1> DEFINE u == pend[n]
           N == Len(pend)
<1>0. N \in Nat /\ u \in Update
  BY DEF TableOK
<1>1. s \in [state : Rows, ref : Rows] /\ s.state \in Rows /\ s.ref \in Rows
  BY DEF Ready
<1>2. ASSUME NEW c \in Call, NEW i \in n .. N, Changes(i, c)
      PROVE  s.ref[c] # NoRow \/ \E j \in n .. i - 1 : Creates(j, c)
  BY <1>0, <1>2 DEF Ready
<1>3. CASE u.kind = "set"
  <2>1. Step(s, u) = [state |-> u.rows, ref |-> s.ref] /\ u.rows \in Rows
    BY <1>0, <1>3, UpdateKinds DEF Step
  <2>2. \A c \in Call : ~Creates(n, c)
    BY <1>3 DEF Creates
  <2>3. ASSUME NEW c \in Call, NEW i \in n + 1 .. N, Changes(i, c)
        PROVE  s.ref[c] # NoRow \/ \E j \in n + 1 .. i - 1 : Creates(j, c)
    BY <1>0, <1>2, <2>2, <2>3
  <2> HIDE DEF u
  <2>4. Step(s, u) \in Ready(n)
    BY <1>1, <2>1, <2>3 DEF Ready
  <2> QED BY <1>3, <2>4 DEF u
<1>4. CASE u.kind # "set"
  <2>0. u.call \in Call
    BY <1>0, <1>4, UpdateKinds
  <2>1. Applies(s.ref, u)
    <3>1. SUFFICES ASSUME u.kind \in {"confirm", "party"} PROVE s.ref[u.call] # NoRow
      BY DEF Applies
    <3>2. Changes(n, u.call)
      BY <3>1 DEF Changes
    <3>3. n \in n .. N /\ n .. n - 1 = {}
      BY <1>0
    <3> QED BY <1>2, <2>0, <3>2, <3>3
  <2> DEFINE new == Evaluated(s.ref, u)
  <2>2. /\ new \in Rows
        /\ \A d \in Call : d # u.call => new[d] = s.ref[d]
        /\ u.kind = "create" => new[u.call] = u.row
        /\ u.kind \in {"confirm", "party"} => new[u.call] # NoRow
    BY <1>0, <1>1, <1>4, <2>1, EvaluatedRows
  <2>3. u.kind = "create" => new[u.call] # NoRow
    BY <1>0, <1>4, <2>2, UpdateKinds, RowFields
  <2>4. Step(s, u) = [state |-> new, ref |-> new]
    BY <1>4, StepOfOne
  <2> HIDE DEF new
  <2>5. ASSUME NEW c \in Call, NEW i \in n + 1 .. N, Changes(i, c)
        PROVE  new[c] # NoRow \/ \E j \in n + 1 .. i - 1 : Creates(j, c)
    <3>1. CASE c # u.call
      <4>1. ~Creates(n, c)
        BY <3>1 DEF Creates
      <4>2. s.ref[c] # NoRow \/ \E j \in n .. i - 1 : Creates(j, c)
        BY <1>0, <1>2, <2>5
      <4> QED BY <1>0, <2>2, <3>1, <4>1, <4>2
    <3>2. CASE c = u.call /\ u.kind # "delete"
      BY <1>0, <1>4, <2>2, <2>3, <3>2, UpdateKinds
    <3>3. CASE c = u.call /\ u.kind = "delete"
      <4>1. Deletes(n, c) /\ n \in 1 .. i - 1 /\ i \in Waiting
        BY <1>0, <2>5, <3>3 DEF Deletes, Waiting
      <4> QED BY <2>5, <4>1 DEF Changeable
    <3> QED BY <3>1, <3>2, <3>3
  <2> HIDE DEF u
  <2>6. Step(s, u) \in Ready(n)
    BY <2>2, <2>4, <2>5 DEF Ready
  <2> QED BY <2>1, <2>6 DEF u
<1> QED BY <1>3, <1>4

\* A render takes each update to rows it can be applied to.
LEMMA RenderedReady ==
    ASSUME TableOK, \A d \in Call : Changeable(d)
    PROVE  \A n \in 0 .. Len(pend) : Rendered[n] \in Ready(n)
<1> DEFINE F == [n \in 0 .. Len(pend) |-> Ready(n)]
<1>0. Len(pend) \in Nat /\ pend \in Seq(Update)
  BY DEF TableOK
<1>1. [state |-> calls, ref |-> sync] \in Ready(0)
  <2>1. [state |-> calls, ref |-> sync] \in [state : Rows, ref : Rows]
    BY DEF TableOK
  <2>2. \A c \in Call, i \in 0 + 1 .. Len(pend) : Changes(i, c) => sync[c] # NoRow
    BY DEF Changeable, Waiting
  <2> QED BY <2>1, <2>2 DEF Ready
<1>2. [state |-> calls, ref |-> sync] \in F[0]
  BY <1>0, <1>1
<1>3. ASSUME NEW n \in 1 .. Len(pend), NEW s \in F[n - 1] PROVE Step(s, pend[n]) \in F[n]
  <2>1. n - 1 \in 0 .. Len(pend) /\ n \in 0 .. Len(pend)
    BY <1>0
  <2>2. s \in Ready(n - 1)
    BY <1>3, <2>1
  <2> QED BY <2>1, <2>2, StepReady
<1>4. \A n \in 0 .. Len(pend) : F[n] = Ready(n)
  OBVIOUS
<1> HIDE DEF F
<1>5. \A n \in 0 .. Len(pend) : Rendered[n] \in F[n]
  BY <1>0, <1>2, <1>3, RenderedIn
<1> QED BY <1>4, <1>5

LEMMA RenderedRows ==
    ASSUME TableOK, \A d \in Call : Changeable(d)
    PROVE  Rendered[Len(pend)].state \in Rows
<1>1. Len(pend) \in 0 .. Len(pend)
  BY DEF TableOK
<1> QED BY <1>1, RenderedReady DEF Ready

-----------------------------------------------------------------------------
(* Type correctness.                                                       *)

\* A record waits only in a subscribed socket, for a call that had begun.
Recorded(c) ==
    snap[c] # "none" => socket = "subscribed" /\ snap[c] # "Terminated" /\ truth[c] # "none"

\* A row that waits to be removed is that of a call that is over, or another
\* full record will come before any change.
Ended(c) ==
    Gone(c) => /\ truth[c] # "none"
               /\ truth[c] = "Terminated" \/ socket # "subscribed" \/ snap[c] # "none"

\* Nothing is delivered about a call that is over for hours.
Over(c) == c \in old => truth[c] = "Terminated" /\ snap[c] = "none" /\ ~Awaited(c)

Queue == \A c \in Call : Changeable(c) /\ Recorded(c) /\ Ended(c) /\ Over(c)

Typed == TypeOK /\ Queue

LEMMA TableTyped == TypeOK => TableOK
BY DEF TypeOK, TableOK

LEMMA EmptyQueue ==
    ASSUME pend = <<>>, NEW d
    PROVE  Changeable(d) /\ ~Gone(d) /\ ~Awaited(d)
BY DEF Changeable, Gone, Awaited, Waiting

\* Initially nothing waits.
LEMMA InitTyped == Init => Typed
<1> SUFFICES ASSUME Init PROVE Typed
  OBVIOUS
<1>1. TypeOK
  <2>1. Empty \in Rows /\ <<>> \in Seq(Update)
    BY DEF Empty, Rows
  <2>2. calls \in Rows /\ sync \in Rows /\ pend \in Seq(Update)
    BY <2>1 DEF Init
  <2>3. truth \in [Call -> State \cup {"none"}]
    BY States DEF Init
  <2>4. tried \in [Call -> 0 .. MaxGateways]
    BY BoundsAssumption DEF Init
  <2>5. opened \in 1 .. MaxSockets
    BY BoundsAssumption DEF Init
  <2>6. snap \in [Call -> State \cup {"none"}]
    BY DEF Init
  <2>7. /\ portal \in {"client", "brand"} /\ socket = "connecting" /\ closing = "no"
        /\ ready = FALSE /\ again = FALSE /\ old = {} /\ calm = TRUE /\ missed = {}
        /\ behind = {}
    BY DEF Init
  <2> QED BY <2>2, <2>3, <2>4, <2>5, <2>6, <2>7 DEF TypeOK
<1>2. pend = <<>> /\ old = {} /\ \A c \in Call : snap[c] = "none"
  BY DEF Init
<1> QED BY <1>1, <1>2, EmptyQueue DEF Typed, Queue, Recorded, Ended, Over

\* A message leaves the queue as it must be, if it does not change a removed row.
LEMMA TypedMessage ==
    ASSUME Typed, NEW c \in Call, NEW m \in Message, OnMessage(c, m),
           m.full => m.event # "Terminated", ~m.full => ~Gone(c)
    PROVE  MessageQueued(c, m)
BY TableTyped, MessageQueue DEF Typed, Queue

\* The parts of the state that are not the table.
EnvOK ==
    /\ portal \in {"client", "brand"}
    /\ truth \in [Call -> State \cup {"none"}]
    /\ tried \in [Call -> 0 .. MaxGateways]
    /\ socket \in {"connecting", "subscribed", "deaf", "dead"}
    /\ opened \in 1 .. MaxSockets
    /\ closing \in {"no", "close", "error"}
    /\ snap \in [Call -> State \cup {"none"}]
    /\ ready \in BOOLEAN
    /\ old \in SUBSET Call
    /\ missed \in SUBSET Call
    /\ behind \in SUBSET Call

LEMMA TypeParts ==
    /\ TypeOK => EnvOK /\ TableOK
    /\ EnvOK' /\ TableOK' => TypeOK'
BY DEF TypeOK, EnvOK, TableOK

LEMMA SetupMessage == Setup \in Message /\ Setup.full /\ Setup.event = "Trying"
BY States DEF Setup, Message, Event, Time, Party

LEMMA ChangeMessage ==
    ASSUME NEW event \in Event
    PROVE  Change(event) \in Message /\ ~Change(event).full /\ Change(event).event = event
BY DEF Change, Message, Time, Party

LEMMA RecordMessage ==
    ASSUME NEW state \in State
    PROVE  LET m == [Setup EXCEPT !.event = state] IN
           m \in Message /\ m.full /\ m.event = state
<1> DEFINE m == [Setup EXCEPT !.event = state]
<1>1. state # "UpdateCLID"
  BY States
<1>2. m \in [full : {TRUE}, event : {state}, time : {"setup"}, party : {"first"}]
  BY DEF Setup
<1> HIDE DEF m
<1>3. m \in Message /\ m.full /\ m.event = state
  BY <1>1, <1>2 DEF Message, Event, Time, Party
<1> QED BY <1>3 DEF m

\* A render empties the queue.
LEMMA RenderTyped == Typed /\ Render => Typed'
<1> SUFFICES ASSUME Typed, Render PROVE Typed'
  OBVIOUS
<1>1. EnvOK /\ TableOK /\ \A c \in Call : Changeable(c) /\ Recorded(c)
  BY TypeParts DEF Typed, Queue
<1>2. calls' \in Rows
  BY <1>1, RenderedRows DEF Render
<1>3. /\ sync' = calls' /\ pend' = <<>> /\ again' \in BOOLEAN /\ calm' \in BOOLEAN
      /\ UNCHANGED <<envVars, wsVars>>
  BY <1>1 DEF Render, TableOK
<1>4. TableOK'
  BY <1>2, <1>3 DEF TableOK
<1>5. EnvOK' /\ \A c \in Call : Recorded(c)'
  BY <1>1, <1>3 DEF EnvOK, Recorded, envVars, wsVars
<1>6. \A c : Changeable(c)' /\ ~Gone(c)' /\ ~Awaited(c)'
  BY <1>3 DEF Changeable, Gone, Awaited, Waiting
<1>7. \A c \in Call : c \in old => truth[c] = "Terminated" /\ snap[c] = "none"
  BY DEF Typed, Queue, Over
<1>8. \A c \in Call : Ended(c)' /\ Over(c)'
  BY <1>3, <1>6, <1>7 DEF Ended, Over, envVars, wsVars
<1> QED BY <1>4, <1>5, <1>6, <1>8, TypeParts DEF Typed, Queue

\* A step that leaves the table keeps what the queue is about.
LEMMA EnvStep ==
    ASSUME Typed, EnvOK', TableOK', UNCHANGED old,
           \A d \in Call :
              Changeable(d)' /\ (Gone(d)' => Gone(d)) /\ (Awaited(d)' => Awaited(d)),
           \A d \in Call : Recorded(d)',
           \A d \in Call : truth[d] = "Terminated" => truth'[d] = "Terminated",
           \A d \in Call : truth[d] # "none" => truth'[d] # "none",
           \A d \in Call : socket # "subscribed" \/ snap[d] # "none" =>
                             socket' # "subscribed" \/ snap'[d] # "none"
                             \/ truth'[d] \in {"none", "Terminated"},
           \A d \in Call : snap[d] = "none" /\ truth[d] = "Terminated" => snap'[d] = "none"
    PROVE  Typed'
<1>1. \A d \in Call : Ended(d) /\ Over(d)
  BY DEF Typed, Queue
<1>2. ASSUME NEW d \in Call PROVE Ended(d)'
  BY <1>1 DEF Ended
<1>3. ASSUME NEW d \in Call PROVE Over(d)'
  BY <1>1 DEF Over
<1> QED BY <1>2, <1>3, TypeParts DEF Typed, Queue

LEMMA TickTyped == Typed /\ Tick => Typed'
<1> SUFFICES ASSUME Typed, Tick PROVE Typed'
  OBVIOUS
<1> DEFINE left == [c \in Call |-> IF c \in old THEN NoRow ELSE sync[c]]
<1>1. EnvOK /\ TableOK /\ \A c \in Call : Changeable(c) /\ Recorded(c) /\ Over(c)
  BY TypeParts DEF Typed, Queue
<1>2. SetCalls(left, [kind |-> "set", rows |-> left]) /\ UNCHANGED <<envVars, wsVars>>
  BY DEF Tick
<1>3. left \in Rows
  BY <1>1 DEF TableOK, Rows
<1>4. ASSUME NEW d \in Call PROVE left[d] = NoRow => sync[d] = NoRow \/ ~Awaited(d)
  BY <1>1 DEF Over
<1> HIDE DEF left
<1>5. /\ TableOK'
      /\ \A d \in Call :
            Changeable(d)' /\ (Gone(d)' => Gone(d)) /\ (Awaited(d)' => Awaited(d))
  BY <1>1, <1>2, <1>3, <1>4, SetAllQueue
<1>6. EnvOK' /\ \A c \in Call : Recorded(c)'
  BY <1>1, <1>2 DEF EnvOK, Recorded, envVars, wsVars
<1>7. UNCHANGED <<truth, socket, snap, old>>
  BY <1>2 DEF envVars, wsVars
<1> QED BY <1>5, <1>6, <1>7, EnvStep

\* A record is delivered: the call had begun, and is not over for hours.
LEMMA SnapshotTyped ==
    ASSUME Typed, NEW c \in Call, Snapshot(c)
    PROVE  Typed'
<1> DEFINE m == [Setup EXCEPT !.event = snap[c]]
<1>1. EnvOK /\ TableOK /\ \A d \in Call : Changeable(d) /\ Recorded(d) /\ Ended(d) /\ Over(d)
  BY TypeParts DEF Typed, Queue
<1>2. /\ socket = "subscribed" /\ snap[c] # "none" /\ OnMessage(c, m)
      /\ snap' = [snap EXCEPT ![c] = "none"]
      /\ UNCHANGED <<portal, truth, tried, old, missed, behind, socket, opened, closing, ready>>
  BY DEF Snapshot, envVars
<1>3. snap[c] \in State
  BY <1>1, <1>2 DEF EnvOK
<1>4. m \in Message /\ m.full /\ m.event = snap[c]
  BY <1>3, RecordMessage
<1> HIDE DEF m
<1>5. m.event # "Terminated"
  BY <1>1, <1>2, <1>4 DEF Recorded
<1>6. MessageQueued(c, m)
  BY <1>2, <1>4, <1>5, TypedMessage
<1>7. TableOK' /\ \A d \in Call : /\ Changeable(d)' /\ (Gone(d)' => d # c /\ Gone(d))
                                  /\ (Awaited(d)' => Awaited(d) \/ d = c)
  BY <1>4, <1>6 DEF MessageQueued
<1>8. /\ snap' \in [Call -> State \cup {"none"}] /\ snap'[c] = "none"
      /\ \A d \in Call : d # c => snap'[d] = snap[d]
  BY <1>1, <1>2 DEF EnvOK
<1>9. EnvOK'
  BY <1>1, <1>2, <1>8 DEF EnvOK
<1>10. ASSUME NEW d \in Call PROVE Recorded(d)' /\ Ended(d)' /\ Over(d)'
  <2>1. CASE d = c
    BY <1>1, <1>2, <1>7, <1>8, <2>1 DEF Recorded, Ended, Over
  <2>2. CASE d # c
    BY <1>1, <1>2, <1>7, <1>8, <2>2 DEF Recorded, Ended, Over
  <2> QED BY <2>1, <2>2
<1> QED BY <1>7, <1>9, <1>10, TypeParts DEF Typed, Queue

LEMMA MovePartyTyped ==
    ASSUME Typed, NEW c \in Call, MoveParty(c)
    PROVE  Typed'
<1> DEFINE m == Change("UpdateCLID")
<1>1. EnvOK /\ TableOK /\ \A d \in Call : Changeable(d) /\ Recorded(d) /\ Ended(d) /\ Over(d)
  BY TypeParts DEF Typed, Queue
<1>2. /\ socket = "subscribed" /\ snap[c] = "none" /\ truth[c] \notin {"none", "Terminated"}
      /\ OnMessage(c, m) /\ UNCHANGED <<envVars, wsVars>>
  BY DEF MoveParty, Hears
<1>3. m \in Message /\ ~m.full /\ m.event = "UpdateCLID"
  BY ChangeMessage DEF Event
<1> HIDE DEF m
<1>4. ~Gone(c)
  BY <1>1, <1>2 DEF Ended
<1>5. MessageQueued(c, m)
  BY <1>2, <1>3, <1>4, TypedMessage
<1>6. TableOK' /\ \A d \in Call : /\ Changeable(d)' /\ (Gone(d)' => Gone(d))
                                  /\ (Awaited(d)' => Awaited(d) \/ d = c)
  BY <1>3, <1>5 DEF MessageQueued
<1>7. EnvOK' /\ UNCHANGED <<truth, socket, snap, old>>
  BY <1>1, <1>2 DEF EnvOK, envVars, wsVars
<1>8. ASSUME NEW d \in Call PROVE Recorded(d)' /\ Ended(d)' /\ Over(d)'
  BY <1>1, <1>2, <1>6, <1>7 DEF Recorded, Ended, Over
<1> QED BY <1>6, <1>7, <1>8, TypeParts DEF Typed, Queue

LEMMA AgeTyped ==
    ASSUME Typed, NEW c \in Call, Age(c)
    PROVE  Typed'
<1>1. EnvOK /\ TableOK /\ \A d \in Call : Changeable(d) /\ Recorded(d) /\ Ended(d) /\ Over(d)
  BY TypeParts DEF Typed, Queue
<1>2. /\ truth[c] = "Terminated" /\ snap[c] = "none" /\ pend = <<>> /\ old' = old \cup {c}
      /\ UNCHANGED <<portal, truth, tried, missed, behind, wsVars, table>>
  BY DEF Age
<1>3. UNCHANGED <<sync, pend, calls, again, calm, socket, opened, closing, snap, ready>>
  BY <1>2 DEF wsVars, table
<1>4. EnvOK' /\ TableOK'
  BY <1>1, <1>2, <1>3 DEF EnvOK, TableOK
<1>5. ASSUME NEW d \in Call PROVE Changeable(d)' /\ ~Gone(d)' /\ ~Awaited(d)'
  BY <1>2, <1>3, EmptyQueue, SameQueue
<1>6. ASSUME NEW d \in Call PROVE Recorded(d)' /\ Ended(d)' /\ Over(d)'
  BY <1>1, <1>2, <1>3, <1>5 DEF Recorded, Ended, Over
<1> QED BY <1>4, <1>5, <1>6, TypeParts DEF Typed, Queue

\* How a call goes on: from its set-up forward, and after its end only with
\* another gateway.
GoesOn(c, state) ==
    /\ truth' = [truth EXCEPT ![c] = state]
    /\ truth'[c] = state /\ \A d \in Call : d # c => truth'[d] = truth[d]
    /\ UNCHANGED <<portal, old, behind, socket, opened, closing, snap, ready>>
    /\ \/ truth[c] = "none" /\ state = "Trying" /\ tried' = tried
       \/ /\ truth[c] = "Terminated" /\ state = "Trying" /\ c \notin old
          /\ tried[c] < MaxGateways /\ tried' = [tried EXCEPT ![c] = tried[c] + 1]
       \/ /\ truth[c] \in State \ {"Terminated"} /\ state # "Trying"
          /\ Rank[state] > Rank[truth[c]] /\ tried' = tried

LEMMA ProgressCases ==
    ASSUME EnvOK, NEW c \in Call, NEW state \in State, Progress(c, state)
    PROVE  GoesOn(c, state)
<1> USE DEF GoesOn
<1>1. /\ truth' = [truth EXCEPT ![c] = state]
      /\ UNCHANGED <<portal, old, behind, socket, opened, closing, snap, ready>>
  BY DEF Progress
<1>2. truth \in [Call -> State \cup {"none"}]
  BY DEF EnvOK
<1>3. truth'[c] = state /\ \A d \in Call : d # c => truth'[d] = truth[d]
  BY <1>1, <1>2
<1>4. CASE truth[c] = "none"
  BY <1>1, <1>3, <1>4, States DEF Progress
<1>5. CASE truth[c] = "Terminated"
  <2>1. ~(Rank[state] > Rank["Terminated"])
    BY States
  <2>2. state = "Trying"
    BY <1>5, <2>1, States DEF Progress, Follows
  <2> QED BY <1>1, <1>3, <1>5, <2>2 DEF Progress
<1>6. CASE truth[c] \in State \ {"Terminated"}
  <2>1. truth[c] # "none"
    BY <1>6, States
  <2>2. Rank[state] > Rank[truth[c]]
    BY <1>6, <2>1 DEF Progress, Follows
  <2>3. state # "Trying"
    BY <1>6, <2>2, States
  <2> QED BY <1>1, <1>3, <1>6, <2>2, <2>3 DEF Progress
<1> QED BY <1>2, <1>4, <1>5, <1>6

\* What a socket that hears a step of the call delivers.
Told(state) == IF state = "Trying" THEN Setup ELSE Change(state)

LEMMA ToldMessage ==
    ASSUME NEW state \in State
    PROVE  /\ Told(state) \in Message /\ Told(state).event = state
           /\ Told(state).full <=> state = "Trying"
BY States, SetupMessage, ChangeMessage DEF Told, Event

LEMMA ProgressTable ==
    ASSUME NEW c \in Call, NEW state \in State, Progress(c, state)
    PROVE  \/ Hears(c) /\ OnMessage(c, Told(state)) /\ missed' = missed
           \/ /\ ~Hears(c) /\ UNCHANGED <<calls, sync, pend, again, calm>>
              /\ missed' = IF socket = "connecting" /\ opened = 1 THEN missed ELSE missed \cup {c}
<1>1. CASE Hears(c)
  BY <1>1 DEF Progress, Told
<1>2. CASE ~Hears(c)
  BY <1>2 DEF Progress, table
<1> QED BY <1>1, <1>2

LEMMA ProgressTyped ==
    ASSUME Typed, NEW c \in Call, NEW state \in State, Progress(c, state)
    PROVE  Typed'
<1> DEFINE m == Told(state)
<1>1. EnvOK /\ TableOK /\ \A d \in Call : Changeable(d) /\ Recorded(d) /\ Ended(d) /\ Over(d)
  BY TypeParts DEF Typed, Queue
<1>2. GoesOn(c, state)
  BY <1>1, ProgressCases
<1> USE DEF GoesOn
<1>3. \/ Hears(c) /\ OnMessage(c, m) /\ missed' = missed
      \/ /\ ~Hears(c) /\ UNCHANGED <<calls, sync, pend, again, calm>>
         /\ missed' = IF socket = "connecting" /\ opened = 1 THEN missed ELSE missed \cup {c}
  BY ProgressTable
<1>4. m \in Message /\ m.event = state /\ (m.full <=> state = "Trying")
  BY ToldMessage
<1> HIDE DEF m
<1>5. tried' \in [Call -> 0 .. MaxGateways]
  BY <1>1, <1>2, BoundsAssumption DEF EnvOK
<1>6. truth' \in [Call -> State \cup {"none"}] /\ missed' \in SUBSET Call
  BY <1>1, <1>2, <1>3 DEF EnvOK
<1>7. EnvOK'
  BY <1>1, <1>2, <1>5, <1>6 DEF EnvOK
<1>8. c \notin old
  BY <1>1, <1>2, States DEF Over
<1>9. \A d \in Call : Recorded(d)'
  BY <1>1, <1>2, States DEF Recorded
<1>10. CASE Hears(c) /\ OnMessage(c, m)
  <2>1. ~m.full => ~Gone(c)
    BY <1>1, <1>2, <1>4, <1>10 DEF Hears, Ended
  <2>2. m.full => m.event # "Terminated"
    BY <1>4
  <2>3. MessageQueued(c, m)
    BY <1>4, <1>10, <2>1, <2>2, TypedMessage
  <2>4. TableOK' /\ \A d \in Call : /\ Changeable(d)' /\ (Gone(d)' => (d # c /\ Gone(d)) \/ (d = c /\ state = "Terminated"))
                                    /\ (Awaited(d)' => Awaited(d) \/ d = c)
    BY <1>4, <2>3 DEF MessageQueued
  <2>5. ASSUME NEW d \in Call PROVE Ended(d)' /\ Over(d)'
    <3>1. CASE d = c
      BY <1>1, <1>2, <1>8, <2>4, <3>1 DEF Ended, Over
    <3>2. CASE d # c
      BY <1>1, <1>2, <2>4, <3>2 DEF Ended, Over
    <3> QED BY <3>1, <3>2
  <2> QED BY <1>7, <1>9, <2>4, <2>5, TypeParts DEF Typed, Queue
<1>11. CASE ~Hears(c) /\ UNCHANGED <<calls, sync, pend, again, calm>>
  <2>1. TableOK'
    BY <1>1, <1>11 DEF TableOK
  <2>2. \A d \in Call : Changeable(d)' /\ Gone(d)' = Gone(d) /\ Awaited(d)' = Awaited(d)
    BY <1>1, <1>11, SameQueue
  <2>3. ASSUME NEW d \in Call PROVE Ended(d)' /\ Over(d)'
    <3>1. CASE d = c
      BY <1>1, <1>2, <1>8, <1>11, <2>2, <3>1, States DEF Ended, Over, Hears
    <3>2. CASE d # c
      BY <1>1, <1>2, <2>2, <3>2 DEF Ended, Over
    <3> QED BY <3>1, <3>2
  <2> QED BY <1>7, <1>9, <2>1, <2>2, <2>3, TypeParts DEF Typed, Queue
<1> QED BY <1>3, <1>10, <1>11

\* What the service may have found.
LEMMA FoundRecords ==
    ASSUME EnvOK, Found
    PROVE  /\ snap' \in [Call -> State \cup {"none"}]
           /\ missed' \in SUBSET Call /\ behind' \in SUBSET Call
           /\ missed \subseteq missed' /\ behind \subseteq behind'
           /\ \A d \in Call :
                 /\ snap'[d] # "none" =>
                       snap'[d] # "Terminated" /\ truth[d] # "none" /\ d \notin old
                 /\ d \notin missed' => snap'[d] = IF d \in InProgress THEN truth[d] ELSE "none"
                 /\ d \notin behind' => snap'[d] \in {"none", truth[d]}
<1>1. PICK record \in [Call -> State \cup {"none"}] :
         /\ \A d \in Call : record[d] \in Kept(d)
         /\ snap' = record
         /\ missed' = missed \cup
               {d \in Call : record[d] # IF d \in InProgress THEN truth[d] ELSE "none"}
         /\ behind' = behind \cup {d \in Call : record[d] \notin {"none", truth[d]}}
  BY DEF Found
<1>2. missed \in SUBSET Call /\ behind \in SUBSET Call
  BY DEF EnvOK
<1>3. ASSUME NEW d \in Call, snap'[d] # "none"
      PROVE  snap'[d] # "Terminated" /\ truth[d] # "none" /\ d \notin old
  BY <1>1, <1>3 DEF Kept
<1> QED BY <1>1, <1>2, <1>3

\* The socket is subscribed: the service has found records of calls that had
\* begun, and of none that is over for hours.
LEMMA SubscribingTyped == Typed /\ Subscribing => Typed'
<1> SUFFICES ASSUME Typed, Subscribing PROVE Typed'
  OBVIOUS
<1>1. EnvOK /\ TableOK /\ \A d \in Call : Over(d)
  BY TypeParts DEF Typed, Queue
<1>2. Found
  BY DEF Subscribing
<1>3. /\ socket' = "subscribed" /\ ready' = TRUE /\ again' = TRUE /\ pend = <<>>
      /\ UNCHANGED <<portal, truth, tried, old, opened, closing, calls, sync, pend, calm>>
  BY DEF Subscribing
<1>4. /\ snap' \in [Call -> State \cup {"none"}]
      /\ missed' \in SUBSET Call /\ behind' \in SUBSET Call
      /\ \A d \in Call : snap'[d] # "none" =>
            snap'[d] # "Terminated" /\ truth[d] # "none" /\ d \notin old
  BY <1>1, <1>2, FoundRecords
<1>6. EnvOK' /\ TableOK'
  BY <1>1, <1>3, <1>4 DEF EnvOK, TableOK
<1>7. ASSUME NEW d \in Call PROVE Recorded(d)' /\ (d \in old => snap'[d] = "none")
  BY <1>3, <1>4 DEF Recorded
<1>8. ASSUME NEW d \in Call PROVE Changeable(d)' /\ ~Gone(d)' /\ ~Awaited(d)'
  BY <1>1, <1>3, EmptyQueue, SameQueue
<1>9. ASSUME NEW d \in Call PROVE Ended(d)' /\ Over(d)'
  BY <1>1, <1>3, <1>7, <1>8 DEF Ended, Over
<1> QED BY <1>6, <1>7, <1>8, <1>9, TypeParts DEF Typed, Queue

LEMMA ChallengedTyped == Typed /\ Challenged => Typed'
<1> SUFFICES ASSUME Typed, Challenged PROVE Typed'
  OBVIOUS
<1>1. EnvOK /\ TableOK /\ \A d \in Call : Changeable(d) /\ Recorded(d)
  BY TypeParts DEF Typed, Queue
<1>2. /\ socket = "connecting" /\ socket' = "deaf"
      /\ UNCHANGED <<portal, truth, tried, old, missed, behind, opened, closing, snap, ready,
                     calls, sync, pend, again, calm>>
  BY DEF Challenged, envVars, table
<1>3. EnvOK' /\ TableOK'
  BY <1>1, <1>2 DEF EnvOK, TableOK
<1>4. \A d \in Call : Changeable(d)' /\ (Gone(d)' => Gone(d)) /\ (Awaited(d)' => Awaited(d))
  BY <1>1, <1>2, SameQueue
<1>5. \A d \in Call : Recorded(d)'
  BY <1>1, <1>2 DEF Recorded
<1>6. socket' # "subscribed" /\ UNCHANGED <<truth, snap, old>>
  BY <1>2
<1> QED BY <1>3, <1>4, <1>5, <1>6, EnvStep

\* A socket that is closed, opened again or dead delivers no record.
LEMMA UnsubscribedTyped ==
    ASSUME Typed, NEW hidden \in BOOLEAN, Hide(hidden), UNCHANGED envVars,
           opened' \in 1 .. MaxSockets, closing' \in {"no", "close", "error"},
           socket' \in {"connecting", "dead"}, snap' = [c \in Call |-> "none"]
    PROVE  Typed'
<1>1. EnvOK /\ TableOK /\ \A d \in Call : Changeable(d)
  BY TypeParts DEF Typed, Queue
<1>2. /\ TableOK' /\ ready' \in BOOLEAN
      /\ \A d \in Call :
            Changeable(d)' /\ (Gone(d)' => Gone(d)) /\ (Awaited(d)' => Awaited(d))
  BY <1>1, HideQueue DEF EnvOK
<1>3. EnvOK'
  BY <1>1, <1>2 DEF EnvOK, envVars
<1>4. \A d \in Call : snap'[d] = "none"
  OBVIOUS
<1>5. \A d \in Call : Recorded(d)'
  BY <1>4 DEF Recorded
<1>6. socket' # "subscribed" /\ UNCHANGED <<truth, old>>
  BY DEF envVars
<1> QED BY <1>2, <1>3, <1>4, <1>5, <1>6, EnvStep

LEMMA NewTokenTyped == Typed /\ NewToken => Typed'
<1> SUFFICES ASSUME Typed, NewToken PROVE Typed'
  OBVIOUS
<1>1. EnvOK
  BY TypeParts DEF Typed
<1>2. /\ Hide(portal = "brand") /\ UNCHANGED envVars
      /\ socket' = "connecting" /\ snap' = [c \in Call |-> "none"]
  BY DEF NewToken
<1>3. opened' \in 1 .. MaxSockets
  BY <1>1, BoundsAssumption DEF NewToken, EnvOK
<1>4. closing' \in {"no", "close", "error"}
  BY <1>1 DEF NewToken, EnvOK
<1> QED BY <1>2, <1>3, <1>4, UnsubscribedTyped

LEMMA DieTyped == Typed /\ Die => Typed'
<1> SUFFICES ASSUME Typed, Die PROVE Typed'
  OBVIOUS
<1>1. PICK error \in BOOLEAN : Hide(error \/ portal = "client")
  BY DEF Die
<1>2. /\ UNCHANGED <<envVars, opened, closing>>
      /\ socket' = "dead" /\ snap' = [c \in Call |-> "none"]
  BY DEF Die
<1>3. opened' \in 1 .. MaxSockets /\ closing' \in {"no", "close", "error"}
  BY <1>2, TypeParts DEF Typed, EnvOK
<1> QED BY <1>1, <1>2, <1>3, UnsubscribedTyped

LEMMA OnCloseTyped == Typed /\ OnClose => Typed'
<1> SUFFICES ASSUME Typed, OnClose PROVE Typed'
  OBVIOUS
<1>1. EnvOK /\ TableOK /\ \A d \in Call : Changeable(d) /\ Recorded(d)
  BY TypeParts DEF Typed, Queue
<1>2. /\ Hide(portal = "client" \/ closing = "error") /\ closing' = "no"
      /\ UNCHANGED <<portal, truth, tried, old, missed, behind, socket, opened, snap>>
  BY DEF OnClose, envVars
<1>3. /\ TableOK' /\ ready' \in BOOLEAN
      /\ \A d \in Call :
            Changeable(d)' /\ (Gone(d)' => Gone(d)) /\ (Awaited(d)' => Awaited(d))
  BY <1>1, <1>2, HideQueue DEF EnvOK
<1>4. EnvOK'
  BY <1>1, <1>2, <1>3 DEF EnvOK
<1>5. \A d \in Call : Recorded(d)'
  BY <1>1, <1>2 DEF Recorded
<1> QED BY <1>2, <1>3, <1>4, <1>5, EnvStep

\* Every step.
LEMMA NextTyped == Typed /\ [Next]_vars => Typed'
<1> SUFFICES ASSUME Typed, [Next]_vars PROVE Typed'
  OBVIOUS
<1>1. ASSUME NEW c \in Call, Snapshot(c) \/ MoveParty(c) \/ Age(c) PROVE Typed'
  BY <1>1, SnapshotTyped, MovePartyTyped, AgeTyped
<1>2. ASSUME NEW c \in Call, NEW state \in State, Progress(c, state) PROVE Typed'
  BY <1>2, ProgressTyped
<1>3. CASE UNCHANGED vars
  <2>1. EnvOK /\ TableOK /\ \A d \in Call : Changeable(d) /\ Recorded(d)
    BY TypeParts DEF Typed, Queue
  <2>2. UNCHANGED <<portal, truth, tried, old, missed, behind, socket, opened, closing, snap, ready,
                   calls, sync, pend, again, calm>>
    BY <1>3 DEF vars, envVars, wsVars, table
  <2>3. EnvOK' /\ TableOK'
    BY <2>1, <2>2 DEF EnvOK, TableOK
  <2>4. \A d \in Call : Changeable(d)' /\ (Gone(d)' => Gone(d)) /\ (Awaited(d)' => Awaited(d))
    BY <2>1, <2>2, SameQueue
  <2>5. \A d \in Call : Recorded(d)'
    BY <2>1, <2>2 DEF Recorded
  <2> QED BY <2>2, <2>3, <2>4, <2>5, EnvStep
<1>4. CASE Render \/ Tick \/ Subscribing \/ Challenged \/ NewToken \/ OnClose \/ Die
  BY <1>4, RenderTyped, TickTyped, SubscribingTyped, ChallengedTyped, NewTokenTyped,
     OnCloseTyped, DieTyped
<1> QED BY <1>1, <1>2, <1>3, <1>4 DEF Next

LEMMA SpecTyped == Spec => []Typed
BY InitTyped, NextTyped, PTL DEF Spec

\* The table, its reference and what waits for a render are always of their
\* types, in whatever order messages, ticks and renders come.
THEOREM TypeCorrect == Spec => []TypeOK
<1>1. Typed => TypeOK
  BY DEF Typed
<1> QED BY <1>1, SpecTyped, PTL

\* As the render comes to each update that changes a row, the row is there: the
\* functions that updateCall gives to setCalls never read a field of a row that a
\* removal or a tick before them has taken away.
ChangesFindTheirRow ==
    \A n \in 1 .. Len(pend) :
        pend[n].kind # "set" => Applies(Rendered[n - 1].ref, pend[n])

THEOREM RenderedChangesFindTheirRow == Spec => []ChangesFindTheirRow
<1>1. ASSUME Typed PROVE ChangesFindTheirRow
  <2>1. TableOK /\ \A d \in Call : Changeable(d)
    BY <1>1, TypeParts DEF Typed, Queue
  <2>2. ASSUME NEW n \in 1 .. Len(pend), pend[n].kind # "set"
        PROVE  Applies(Rendered[n - 1].ref, pend[n])
    <3>1. n - 1 \in 0 .. Len(pend)
      BY <2>1 DEF TableOK
    <3>2. Rendered[n - 1] \in Ready(n - 1)
      BY <2>1, <3>1, RenderedReady
    <3> QED BY <2>1, <2>2, <3>2, StepReady
  <2> QED BY <2>2 DEF ChangesFindTheirRow
<1> QED BY <1>1, SpecTyped, PTL

-----------------------------------------------------------------------------
(* The table that is shown.                                                *)

\* A socket that was closed was not the first.
ClosedOnes == closing # "no" => opened > 1

Visible == ClosedOnes /\ SubscribedIsShown

LEMMA VisibleNext ==
    ASSUME Typed, Visible, [Next]_vars
    PROVE  Visible'
<1> USE DEF Visible, ClosedOnes, SubscribedIsShown
<1>1. EnvOK
  BY TypeParts DEF Typed
<1>2. CASE UNCHANGED <<socket, opened, closing, ready>>
  BY <1>2
<1>3. CASE Subscribing \/ Challenged
  BY <1>3 DEF Subscribing, Challenged
<1>4. CASE NewToken
  <2>1. opened' > 1 /\ socket' = "connecting"
    BY <1>1, <1>4, BoundsAssumption DEF NewToken, EnvOK
  <2> QED BY <2>1
<1>5. CASE OnClose
  BY <1>5 DEF OnClose
<1>6. CASE Die
  BY <1>6 DEF Die
<1>7. CASE UNCHANGED vars
  BY <1>7 DEF vars, wsVars
<1>8. CASE Render \/ Tick
  BY <1>8 DEF Render, Tick, wsVars
<1>9. ASSUME NEW c \in Call, Snapshot(c) \/ MoveParty(c) \/ Age(c) PROVE Visible'
  BY <1>9 DEF Snapshot, MoveParty, Age, wsVars
<1>10. ASSUME NEW c \in Call, NEW state \in State, Progress(c, state) PROVE Visible'
  BY <1>10 DEF Progress
<1> QED BY <1>3, <1>4, <1>5, <1>6, <1>7, <1>8, <1>9, <1>10 DEF Next

\* A table whose socket is subscribed is shown, but after an event of an older
\* socket that came late.
THEOREM SubscribedShown == Spec => []SubscribedIsShown
<1>1. Init => Visible
  BY DEF Init, Visible, ClosedOnes, SubscribedIsShown
<1>2. Typed /\ Visible /\ [Next]_vars => Visible'
  BY VisibleNext
<1>3. Visible => SubscribedIsShown
  BY DEF Visible
<1> QED BY <1>1, <1>2, <1>3, SpecTyped, PTL DEF Spec

-----------------------------------------------------------------------------
(* The rows go forward.                                                    *)

\* The event of the row shown of a call, as a set.
Shown(c) == {e \in State : calls[c] # NoRow /\ e = calls[c].event}

\* The events of the rows that may be shown of it.
Coming(c) ==
    {e \in State :
        \/ sync[c] # NoRow /\ e = sync[c].event
        \/ \E i \in Waiting :
              \/ pend[i].kind = "set" /\ pend[i].rows[c] # NoRow /\ e = pend[i].rows[c].event
              \/ Creates(i, c) /\ e = pend[i].row.event}

\* a is not after b, and what has not begun is before all.
AtMost(a, b) == a = "none" \/ (b # "none" /\ Rank[a] <= Rank[b])

LEMMA AtMostOrder ==
    ASSUME NEW a \in State \cup {"none"}, NEW b \in State \cup {"none"}
    PROVE  /\ AtMost(a, a)
           /\ \A c \in State \cup {"none"} : AtMost(a, b) /\ AtMost(b, c) => AtMost(a, c)
           /\ a \in State => (AtMost(a, b) <=> b \in State /\ Rank[a] <= Rank[b])
BY States DEF AtMost

\* What a socket has delivered last, or else the dialog.
Latest(c) == IF snap[c] # "none" THEN snap[c] ELSE truth[c]

\* Nothing has set the rows of the call back: it has its first gateway, and no
\* socket began with a record that was behind.
Straight(c) == tried[c] = 0 /\ c \notin behind

\* Then a row only waits for rows not before it, and none is beyond what was
\* delivered.
Forward(c) ==
    Straight(c) =>
        /\ \A d \in Shown(c), e \in Coming(c) : AtMost(d, e)
        /\ \A e \in Shown(c) \cup Coming(c) : AtMost(e, Latest(c))
        /\ AtMost(snap[c], truth[c])

\* What setCalls adds to the rows that may be shown.
LEMMA SetCallsComing ==
    ASSUME TableOK, NEW rows \in Rows, NEW u \in Update, SetCalls(rows, u), Applies(rows, u),
           NEW d \in Call, NEW e \in Coming(d)'
    PROVE  \/ e \in Coming(d)
           \/ rows[d] # NoRow /\ e = rows[d].event
           \/ u.kind = "set" /\ u.rows[d] # NoRow /\ e = u.rows[d].event
           \/ u.kind = "create" /\ u.call = d /\ e = u.row.event
<1>1. CASE /\ u.kind # "set" /\ pend = <<>>
           /\ sync' = Evaluated(rows, u)
           /\ pend' = <<[kind |-> "set", rows |-> Evaluated(rows, u)]>>
  <2> DEFINE new == Evaluated(rows, u)
  <2>1. /\ \A c \in Call : c # u.call => new[c] = rows[c]
        /\ u.kind = "create" => new[u.call] = u.row
        /\ u.kind = "delete" => new[u.call] = NoRow
        /\ u.kind \in {"confirm", "party"} =>
              new[u.call] # NoRow /\ new[u.call].event = rows[u.call].event
    BY <1>1, EvaluatedRows
  <2> HIDE DEF new
  <2>2. sync' = new /\ Len(pend') = 1 /\ pend'[1].kind = "set" /\ pend'[1].rows = new
    BY <1>1 DEF new
  <2>3. new[d] # NoRow /\ e = new[d].event
    BY <2>2 DEF Coming, Waiting, Creates
  <2>4. CASE u.call # d
    BY <2>1, <2>3, <2>4
  <2>5. CASE u.call = d /\ u.kind \in {"confirm", "party"}
    BY <2>1, <2>3, <2>5 DEF Applies
  <2>6. CASE u.call = d /\ u.kind \in {"create", "delete"}
    BY <2>1, <2>3, <2>6
  <2> QED BY <1>1, <2>4, <2>5, <2>6, UpdateKinds
<1>2. CASE sync' = rows /\ pend' = Append(pend, u)
  <2>0. PICK n \in Nat : n = Len(pend)
    BY DEF TableOK
  <2>1. /\ Len(pend') = n + 1 /\ pend'[n + 1] = u /\ \A i \in 1 .. n : pend'[i] = pend[i]
    BY <1>2, <2>0 DEF TableOK
  <2>2. Waiting = 1 .. n /\ Waiting' = 1 .. n + 1
    BY <2>0, <2>1 DEF Waiting
  <2>3. e \in State
    BY DEF Coming
  <2>4. CASE sync'[d] # NoRow /\ e = sync'[d].event
    BY <1>2, <2>4
  <2>5. ASSUME NEW i \in 1 .. n + 1,
               \/ pend'[i].kind = "set" /\ pend'[i].rows[d] # NoRow /\ e = pend'[i].rows[d].event
               \/ pend'[i].kind = "create" /\ pend'[i].call = d /\ e = pend'[i].row.event
        PROVE  \/ e \in Coming(d)
               \/ u.kind = "set" /\ u.rows[d] # NoRow /\ e = u.rows[d].event
               \/ u.kind = "create" /\ u.call = d /\ e = u.row.event
    <3>1. CASE i = n + 1
      BY <2>1, <2>5, <3>1
    <3>2. CASE i \in 1 .. n
      BY <2>1, <2>2, <2>3, <2>5, <3>2 DEF Coming, Creates
    <3> QED BY <3>1, <3>2
  <2> QED BY <2>2, <2>4, <2>5 DEF Coming, Creates
<1> QED BY <1>1, <1>2 DEF SetCalls

\* A message about a call adds its own event.
LEMMA MessageComing ==
    ASSUME TableOK, NEW c \in Call, NEW m \in Message, OnMessage(c, m),
           NEW d \in Call, NEW e \in Coming(d)'
    PROVE  e \in Coming(d) \/ (d = c /\ e = m.event)
<1>0. sync \in Rows /\ e \in State
  BY DEF TableOK, Coming
<1>1. CASE sync[d] # NoRow /\ e = sync[d].event
  BY <1>0, <1>1 DEF Coming
<1>2. CASE /\ m.full /\ m.event \in State
           /\ SetCalls(sync, [kind |-> "create", call |-> c, row |-> NewRow(m.event)])
  <2> DEFINE u == [kind |-> "create", call |-> c, row |-> NewRow(m.event)]
  <2>1. u \in Update /\ u.kind = "create" /\ u.call = c /\ u.row.event = m.event
    BY <1>2, MessageUpdates DEF NewRow
  <2>2. SetCalls(sync, u)
    BY <1>2
  <2> HIDE DEF u
  <2>3. Applies(sync, u)
    BY <2>1 DEF Applies
  <2> QED BY <1>0, <1>1, <2>1, <2>2, <2>3, SetCallsComing
<1>3. ASSUME ~m.full, sync[c] # NoRow
      PROVE  /\ Heard(c, m) \in Rows /\ Heard(c, m)[c] # NoRow
             /\ Heard(c, m)[d] # NoRow /\ e = Heard(c, m)[d].event =>
                   e \in Coming(d) \/ (d = c /\ e = m.event)
  <2>1. /\ Heard(c, m) \in Rows
        /\ \A b \in Call : Heard(c, m)[b] = NoRow <=> sync[b] = NoRow
        /\ \A b \in Call : b # c => Heard(c, m)[b] = sync[b]
        /\ Heard(c, m)[c].event = IF m.event = "UpdateCLID" THEN sync[c].event ELSE m.event
    BY <1>0, <1>3, HeardRows
  <2>2. CASE d # c
    BY <1>1, <1>3, <2>1, <2>2
  <2>3. CASE d = c
    BY <1>1, <1>3, <2>1, <2>3
  <2> QED BY <1>3, <2>1, <2>2, <2>3
<1>4. ASSUME NEW kind \in {"confirm", "party", "delete"}, ~m.full, sync[c] # NoRow,
             SetCalls(Heard(c, m), [kind |-> kind, call |-> c])
      PROVE  e \in Coming(d) \/ (d = c /\ e = m.event)
  <2> DEFINE u == [kind |-> kind, call |-> c]
             rows == Heard(c, m)
  <2>1. u \in Update /\ u.kind = kind /\ u.call = c
    BY MessageUpdates
  <2>2. SetCalls(rows, u)
    BY <1>4
  <2>3. /\ rows \in Rows /\ rows[c] # NoRow
        /\ rows[d] # NoRow /\ e = rows[d].event => e \in Coming(d) \/ (d = c /\ e = m.event)
    BY <1>3, <1>4
  <2> HIDE DEF u, rows
  <2>4. Applies(rows, u) /\ u.kind \notin {"set", "create"}
    BY <2>1, <2>3 DEF Applies
  <2> QED BY <2>1, <2>2, <2>3, <2>4, SetCallsComing
<1>5. ASSUME NEW rows, Notes(rows), ~(rows[d] # NoRow /\ e = rows[d].event)
      PROVE  e \in Coming(d)
  <2>1. sync' = rows /\ pend' = pend
    BY <1>5 DEF Notes
  <2> QED BY <1>5, <2>1 DEF Coming, Waiting, Creates
<1>6. CASE ~m.full /\ sync[c] # NoRow /\ Notes(Heard(c, m))
  BY <1>3, <1>5, <1>6
<1>7. CASE Notes(sync)
  BY <1>1, <1>5, <1>7
<1> QED BY <1>2, <1>4, <1>6, <1>7, MessageCases

\* A step keeps a call's rows forward if it shows nothing, and what it adds to
\* come lies between what was the latest and what is now.
LEMMA ForwardStep ==
    ASSUME EnvOK, EnvOK', NEW c \in Call, Forward(c), UNCHANGED calls,
           Straight(c)' =>
              /\ Straight(c)
              /\ \A e \in Coming(c)' :
                    e \in Coming(c) \/ (AtMost(Latest(c), e) /\ AtMost(e, Latest(c)'))
              /\ AtMost(Latest(c), Latest(c)')
              /\ AtMost(snap'[c], truth'[c])
    PROVE  Forward(c)'
<1> SUFFICES ASSUME Straight(c)'
             PROVE  /\ \A d \in Shown(c)', e \in Coming(c)' : AtMost(d, e)
                    /\ \A e \in Shown(c)' \cup Coming(c)' : AtMost(e, Latest(c)')
                    /\ AtMost(snap'[c], truth'[c])
  BY DEF Forward, AtMost
<1> DEFINE S == State \cup {"none"}
           l == Latest(c)
<1>1. Latest(c) \in S /\ Latest(c)' \in S
  BY DEF EnvOK, Latest
<1>2. Shown(c)' = Shown(c) /\ Shown(c) \subseteq S /\ Coming(c) \subseteq S /\ Coming(c)' \subseteq S
  BY DEF Shown, Coming
<1>3. /\ \A d \in Shown(c), e \in Coming(c) : AtMost(d, e)
      /\ \A e \in Shown(c) \cup Coming(c) : AtMost(e, Latest(c))
  BY DEF Forward
<1>4. ASSUME NEW e \in Shown(c) \cup Coming(c) PROVE AtMost(e, Latest(c)')
  BY <1>1, <1>2, <1>3, AtMostOrder
<1>5. ASSUME NEW e \in Coming(c)', e \notin Coming(c), NEW d \in Shown(c) PROVE AtMost(d, e)
  BY <1>1, <1>2, <1>3, <1>5, AtMostOrder
<1> QED BY <1>2, <1>3, <1>4, <1>5

\* A message about the call that is the next to tell of it.
LEMMA MessageForward ==
    ASSUME Typed, EnvOK', NEW c \in Call, NEW m \in Message, OnMessage(c, m), UNCHANGED calls,
           NEW d \in Call, Forward(d),
           Straight(d)' =>
              /\ Straight(d)
              /\ \/ d # c \/ m.event = "UpdateCLID"
                 \/ AtMost(Latest(c), m.event) /\ AtMost(m.event, Latest(c)')
              /\ AtMost(Latest(d), Latest(d)')
              /\ AtMost(snap'[d], truth'[d])
    PROVE  Forward(d)'
<1>1. EnvOK /\ TableOK
  BY TypeParts DEF Typed
<1>2. "UpdateCLID" \notin State
  BY States
<1>3. ASSUME NEW e \in Coming(d)', e \notin Coming(d) PROVE d = c /\ e = m.event /\ e \in State
  BY <1>1, <1>3, MessageComing DEF Coming
<1> QED BY <1>1, <1>2, <1>3, ForwardStep

\* The rows that a render may show were coming.
LEMMA RenderedComing ==
    ASSUME TableOK, \A d \in Call : Changeable(d), NEW c \in Call
    PROVE  LET row == Rendered[Len(pend)].state[c] IN
           row # NoRow => IF pend = <<>> THEN row = calls[c] ELSE row.event \in Coming(c)
<1> DEFINE G(n) == {s \in Ready(n) :
                     /\ s.ref[c] # NoRow => s.ref[c].event \in Coming(c)
                     /\ n > 0 /\ s.state[c] # NoRow => s.state[c].event \in Coming(c)}
           F == [n \in 0 .. Len(pend) |-> G(n)]
           s0 == [state |-> calls, ref |-> sync]
<1>0. Len(pend) \in Nat /\ pend \in Seq(Update) /\ sync \in Rows
  BY DEF TableOK
<1>1. s0 \in G(0)
  <2>1. Rendered[0] = s0
    BY <1>0, RenderedSteps
  <2>2. Rendered[0] \in Ready(0)
    BY <1>0, RenderedReady
  <2>3. sync[c] # NoRow => sync[c].event \in State
    BY <1>0, RowFields DEF Rows
  <2>4. sync[c] # NoRow => sync[c].event \in Coming(c)
    BY <2>3 DEF Coming
  <2> QED BY <2>1, <2>2, <2>4
<1>2. ASSUME NEW n \in 1 .. Len(pend), NEW s \in G(n - 1) PROVE Step(s, pend[n]) \in G(n)
  <2> DEFINE u == pend[n]
             t == Step(s, u)
  <2>1. /\ s \in Ready(n - 1) /\ (s.ref[c] # NoRow => s.ref[c].event \in Coming(c))
        /\ s.ref \in Rows
    BY DEF Ready
  <2>2. t \in Ready(n) /\ (u.kind # "set" => Applies(s.ref, u))
    BY <2>1, StepReady
  <2>3. u \in Update /\ n \in Waiting /\ n > 0
    BY <1>0 DEF Waiting
  <2>4. CASE u.kind = "set"
    <3>1. t = [state |-> u.rows, ref |-> s.ref] /\ u.rows \in Rows
      BY <2>3, <2>4, UpdateKinds DEF Step
    <3>2. u.rows[c] # NoRow => u.rows[c].event \in State
      BY <3>1, RowFields DEF Rows
    <3>3. u.rows[c] # NoRow => u.rows[c].event \in Coming(c)
      BY <2>3, <2>4, <3>2 DEF Coming
    <3>4. t.state = u.rows /\ t.ref = s.ref
      BY <3>1
    <3> HIDE DEF t, u
    <3> QED BY <2>1, <2>2, <3>3, <3>4 DEF t, u
  <2>5. CASE u.kind # "set"
    <3> DEFINE new == Evaluated(s.ref, u)
    <3>1. /\ \A d \in Call : d # u.call => new[d] = s.ref[d]
          /\ u.kind = "create" => new[u.call] = u.row
          /\ u.kind = "delete" => new[u.call] = NoRow
          /\ u.kind \in {"confirm", "party"} =>
                new[u.call] # NoRow /\ new[u.call].event = s.ref[u.call].event
      BY <2>1, <2>2, <2>3, <2>5, EvaluatedRows
    <3>2. t = [state |-> new, ref |-> new]
      BY <2>5, StepOfOne
    <3>3. u.kind = "create" /\ u.call = c => u.row.event \in Coming(c)
      <4>1. SUFFICES ASSUME u.kind = "create" /\ u.call = c PROVE u.row.event \in Coming(c)
        OBVIOUS
      <4>2. u.row.event \in State
        BY <2>3, <4>1, UpdateKinds, RowFields
      <4> QED BY <2>3, <4>1, <4>2 DEF Coming, Creates
    <3> HIDE DEF new
    <3>4. new[c] # NoRow => new[c].event \in Coming(c)
      <4>1. CASE u.call # c
        BY <2>1, <3>1, <4>1
      <4>2. CASE u.call = c /\ u.kind = "create"
        BY <3>1, <3>3, <4>2
      <4>3. CASE u.call = c /\ u.kind = "delete"
        BY <3>1, <4>3
      <4>4. CASE u.call = c /\ u.kind \in {"confirm", "party"}
        BY <2>1, <2>2, <2>5, <3>1, <4>4 DEF Applies
      <4> QED BY <2>3, <2>5, <4>1, <4>2, <4>3, <4>4, UpdateKinds
    <3>5. t.state = new /\ t.ref = new
      BY <3>2
    <3> HIDE DEF t, u
    <3> QED BY <2>2, <3>4, <3>5 DEF t, u
  <2> QED BY <2>4, <2>5
<1> HIDE DEF G, s0
<1>3. s0 \in F[0] /\ \A n \in 0 .. Len(pend) : F[n] = G(n)
  BY <1>0, <1>1
<1>4. ASSUME NEW n \in 1 .. Len(pend), NEW s \in F[n - 1] PROVE Step(s, pend[n]) \in F[n]
  <2>1. n - 1 \in 0 .. Len(pend) /\ n \in 0 .. Len(pend)
    BY <1>0
  <2> HIDE DEF F
  <2> QED BY <1>2, <1>3, <1>4, <2>1
<1>5. \A n \in 0 .. Len(pend) : Rendered[n] \in F[n]
  <2> HIDE DEF F
  <2> QED BY <1>0, <1>3, <1>4, RenderedIn DEF s0
<1>6. Rendered[Len(pend)] \in G(Len(pend))
  <2> HIDE DEF F
  <2> QED BY <1>0, <1>3, <1>5
<1>7. CASE pend = <<>>
  <2>1. Rendered[Len(pend)] = [state |-> calls, ref |-> sync]
    BY <1>0, <1>7, RenderedSteps
  <2> QED BY <1>7, <2>1
<1>8. CASE pend # <<>>
  <2>1. Len(pend) > 0
    BY <1>0, <1>8
  <2> QED BY <1>6, <1>8, <2>1 DEF G
<1> QED BY <1>7, <1>8

LEMMA ForwardRender ==
    ASSUME Typed, Render, NEW c \in Call, Forward(c)
    PROVE  /\ Forward(c)'
           /\ calls[c] # NoRow /\ calls'[c] # NoRow /\ Straight(c)' =>
                 Rank[calls'[c].event] >= Rank[calls[c].event]
<1>1. EnvOK /\ TableOK /\ \A d \in Call : Changeable(d)
  BY TypeParts DEF Typed, Queue
<1>2. /\ sync' = calls' /\ pend' = <<>> /\ calls' = Rendered[Len(pend)].state
      /\ UNCHANGED <<tried, behind, snap, truth>> /\ Straight(c)' = Straight(c)
  BY DEF Render, Straight, envVars, wsVars
<1>3. calls'[c] # NoRow => IF pend = <<>> THEN calls'[c] = calls[c] ELSE calls'[c].event \in Coming(c)
  BY <1>1, <1>2, RenderedComing
<1>4. calls \in Rows /\ calls' \in Rows
  BY <1>1, <1>2, RenderedRows DEF TableOK
<1>5. \A row \in Row : row.event \in State
  BY RowFields
<1>6. Shown(c)' \subseteq Shown(c) \cup Coming(c)
  BY <1>3, <1>4, <1>5 DEF Shown, Rows
<1>7. Coming(c)' = Shown(c)'
  BY <1>2 DEF Coming, Shown, Waiting
<1>8. Latest(c)' = Latest(c)
  BY <1>2 DEF Latest
<1>9. \A e \in State : AtMost(e, e)
  BY AtMostOrder
<1>10. \A d, e \in Shown(c)' : d = e /\ d \in State
  BY DEF Shown
<1>11. Forward(c)'
  <2>1. SUFFICES ASSUME Straight(c)'
               PROVE  /\ \A d \in Shown(c)', e \in Coming(c)' : AtMost(d, e)
                      /\ \A e \in Shown(c)' \cup Coming(c)' : AtMost(e, Latest(c)')
                      /\ AtMost(snap'[c], truth'[c])
    BY DEF Forward, AtMost
  <2>2. \A e \in Shown(c) \cup Coming(c) : AtMost(e, Latest(c))
    BY <1>2, <2>1 DEF Forward
  <2>3. AtMost(snap[c], truth[c])
    BY <1>2, <2>1 DEF Forward
  <2> QED BY <1>2, <1>6, <1>7, <1>8, <1>9, <1>10, <2>2, <2>3
<1>12. ASSUME calls[c] # NoRow, calls'[c] # NoRow, Straight(c)'
       PROVE  Rank[calls'[c].event] >= Rank[calls[c].event]
  <2>1. calls[c].event \in Shown(c) /\ calls[c].event \in State /\ calls'[c].event \in State
    BY <1>4, <1>5, <1>12 DEF Shown, Rows
  <2>2. CASE pend = <<>>
    BY <1>3, <1>12, <2>1, <2>2, States
  <2>3. CASE pend # <<>>
    <3>1. calls'[c].event \in Coming(c)
      BY <1>3, <1>12, <2>3
    <3>2. AtMost(calls[c].event, calls'[c].event)
      BY <1>2, <1>12, <2>1, <3>1 DEF Forward
    <3> QED BY <2>1, <3>2, States DEF AtMost
  <2> QED BY <2>2, <2>3
<1> QED BY <1>11, <1>12

\* Nothing that comes is new when the rows become the given ones, all of which
\* were rows of the reference.
LEMMA SetAllComing ==
    ASSUME TableOK, NEW rows \in Rows, NEW all \in Rows,
           SetCalls(rows, [kind |-> "set", rows |-> all]),
           \A d \in Call : rows[d] # NoRow => rows[d] = sync[d],
           \A d \in Call : all[d] # NoRow => all[d] = sync[d],
           NEW c \in Call
    PROVE  Coming(c)' \subseteq Coming(c)
<1> DEFINE u == [kind |-> "set", rows |-> all]
<1>1. u \in Update /\ u.kind = "set" /\ u.rows = all
  BY DEF Update
<1>2. SetCalls(rows, u)
  OBVIOUS
<1> HIDE DEF u
<1>3. Applies(rows, u)
  BY <1>1 DEF Applies
<1>4. ASSUME NEW e \in State, sync[c] # NoRow, e = sync[c].event PROVE e \in Coming(c)
  BY <1>4 DEF Coming
<1>5. Coming(c)' \subseteq State
  BY DEF Coming
<1> QED BY <1>1, <1>2, <1>3, <1>4, <1>5, SetCallsComing

LEMMA HideComing ==
    ASSUME TableOK, NEW hidden, Hide(hidden), NEW c \in Call
    PROVE  Coming(c)' \subseteq Coming(c)
<1>1. CASE SetCalls(sync, [kind |-> "set", rows |-> Empty])
  <2>1. Empty \in Rows /\ sync \in Rows /\ Empty[c] = NoRow
    BY DEF Empty, Rows, TableOK
  <2>2. \A d \in Call : Empty[d] # NoRow => Empty[d] = sync[d]
    BY DEF Empty
  <2> QED BY <1>1, <2>1, <2>2, SetAllComing
<1>2. CASE UNCHANGED <<calls, sync, pend, calm>>
  BY <1>2 DEF Coming, Waiting, Creates
<1> QED BY <1>1, <1>2 DEF Hide

\* Every step keeps the rows of each call forward, and shows none that is not.
LEMMA ForwardNext ==
    ASSUME Typed, Typed', [Next]_vars, NEW c \in Call, Forward(c)
    PROVE  /\ Forward(c)'
           /\ calls[c] # NoRow /\ calls'[c] # NoRow /\ Straight(c)' =>
                 calls' = calls \/ Rank[calls'[c].event] >= Rank[calls[c].event]
<1> DEFINE Onward == UNCHANGED calls /\ Forward(c)'
           S == State \cup {"none"}
<1>0. EnvOK /\ TableOK /\ \A d \in Call : Changeable(d) /\ Recorded(d)
  BY TypeParts DEF Typed, Queue
<1>1. EnvOK'
  BY DEF Typed, TypeOK, EnvOK
<1>2. truth[c] \in S /\ snap[c] \in S /\ Latest(c) \in S
  BY <1>0 DEF EnvOK, Latest
<1>3. /\ AtMost(truth[c], truth[c]) /\ AtMost(snap[c], snap[c]) /\ AtMost(Latest(c), Latest(c))
  BY <1>2, AtMostOrder
<1>4. Straight(c) => AtMost(snap[c], truth[c]) /\ AtMost(Latest(c), truth[c])
  BY <1>3 DEF Forward, Latest
\* Steps with no news of the call.
<1>5. ASSUME UNCHANGED <<calls, truth, tried>>, behind \subseteq behind', Coming(c)' \subseteq Coming(c),
             \/ c \in behind'
             \/ snap'[c] = snap[c] \/ snap'[c] = "none" \/ snap'[c] = truth[c]
      PROVE  Onward
  <2>0. Straight(c)' => Straight(c) /\ c \notin behind'
    BY <1>5 DEF Straight
  <2>1. Straight(c)' => AtMost(Latest(c), Latest(c)')
    BY <1>3, <1>4, <1>5, <2>0 DEF Latest
  <2>2. Straight(c)' => AtMost(snap'[c], truth'[c])
    BY <1>3, <1>4, <1>5, <2>0 DEF AtMost
  <2> QED BY <1>0, <1>1, <1>5, <2>0, <2>1, <2>2, ForwardStep
<1>6. ASSUME UNCHANGED <<sync, pend>> PROVE Coming(c)' = Coming(c)
  BY <1>6 DEF Coming, Waiting, Creates
<1>7. ASSUME NEW hidden \in BOOLEAN, Hide(hidden) PROVE UNCHANGED calls /\ Coming(c)' \subseteq Coming(c)
  BY <1>0, <1>7, HideComing, HideQueue DEF EnvOK
<1>8. CASE Tick
  <2> DEFINE left == [d \in Call |-> IF d \in old THEN NoRow ELSE sync[d]]
  <2>1. SetCalls(left, [kind |-> "set", rows |-> left]) /\ UNCHANGED <<envVars, wsVars>>
    BY <1>8 DEF Tick
  <2>2. left \in Rows /\ \A d \in Call : left[d] # NoRow => left[d] = sync[d]
    BY <1>0 DEF TableOK, Rows
  <2> HIDE DEF left
  <2>3. Coming(c)' \subseteq Coming(c)
    BY <1>0, <2>1, <2>2, SetAllComing
  <2>4. UNCHANGED <<calls, truth, tried, behind, snap>>
    BY <2>1 DEF SetCalls, envVars, wsVars
  <2> QED BY <1>5, <2>3, <2>4
<1>9. ASSUME NEW d \in Call, Snapshot(d) PROVE Onward
  <2> DEFINE m == [Setup EXCEPT !.event = snap[d]]
  <2>1. /\ socket = "subscribed" /\ snap[d] # "none" /\ OnMessage(d, m)
        /\ snap' = [snap EXCEPT ![d] = "none"] /\ UNCHANGED <<truth, tried, behind>>
    BY <1>9 DEF Snapshot, envVars
  <2>2. snap[d] \in State
    BY <1>0, <2>1 DEF EnvOK
  <2>3. m \in Message /\ m.full /\ m.event = snap[d]
    BY <2>2, RecordMessage
  <2> HIDE DEF m
  <2>4. m.event # "Terminated"
    BY <1>0, <2>1, <2>3 DEF Recorded
  <2>5. UNCHANGED calls
    BY <2>1, <2>3, <2>4, TypedMessage DEF MessageQueued
  <2>6. CASE d = c
    <3>1. snap'[c] = "none" /\ Latest(c)' = truth[c] /\ Latest(c) = snap[c]
      BY <1>0, <2>1, <2>6 DEF Latest, EnvOK
    <3>2. AtMost("none", truth[c])
      BY DEF AtMost
    <3>3. AtMost(Latest(c), m.event)
      BY <1>3, <2>3, <2>6, <3>1
    <3>4. Straight(c) => AtMost(m.event, Latest(c)')
      BY <1>4, <2>3, <2>6, <3>1
    <3>5. Straight(c)' = Straight(c)
      BY <2>1 DEF Straight
    <3> QED BY <1>1, <1>4, <2>1, <2>3, <2>5, <2>6, <3>1, <3>2, <3>3, <3>4, <3>5,
               MessageForward
  <2>7. CASE d # c
    <3>1. snap'[c] = snap[c] /\ Latest(c)' = Latest(c) /\ Straight(c)' = Straight(c)
      BY <1>0, <2>1, <2>7 DEF Latest, EnvOK, Straight
    <3> QED BY <1>1, <1>3, <1>4, <2>1, <2>3, <2>5, <2>7, <3>1, MessageForward
  <2> QED BY <2>6, <2>7
<1>10. ASSUME NEW d \in Call, MoveParty(d) PROVE Onward
  <2> DEFINE m == Change("UpdateCLID")
  <2>1. OnMessage(d, m) /\ UNCHANGED <<truth, tried, behind, snap>>
    BY <1>10 DEF MoveParty, envVars, wsVars
  <2>2. m \in Message /\ ~m.full /\ m.event = "UpdateCLID"
    BY ChangeMessage DEF Event
  <2> HIDE DEF m
  <2>3. ~Gone(d)
    BY <1>10 DEF MoveParty, Hears, Typed, Queue, Ended
  <2>4. UNCHANGED calls
    BY <2>1, <2>2, <2>3, TypedMessage DEF MessageQueued
  <2>5. Latest(c)' = Latest(c) /\ Straight(c)' = Straight(c)
    BY <2>1 DEF Latest, Straight
  <2> QED BY <1>1, <1>3, <1>4, <2>1, <2>2, <2>4, <2>5, MessageForward
<1>11. ASSUME NEW d \in Call, Age(d) PROVE Onward
  <2>1. UNCHANGED <<calls, sync, pend, truth, tried, behind, snap>>
    BY <1>11 DEF Age, wsVars, table
  <2> QED BY <1>5, <1>6, <2>1
<1>12. ASSUME NEW d \in Call, NEW state \in State, Progress(d, state) PROVE Onward
  <2> DEFINE m == Told(state)
  <2>1. GoesOn(d, state)
    BY <1>0, <1>12, ProgressCases
  <2>2. m \in Message /\ m.event = state /\ (m.full <=> state = "Trying")
    BY ToldMessage
  <2> HIDE DEF m
  <2>3. Straight(c)' => Straight(c)
    BY <1>0, <2>1, BoundsAssumption DEF GoesOn, EnvOK, Straight
  <2>4. Straight(c)' => AtMost(truth[c], truth'[c])
    BY <1>0, <1>2, <1>3, <2>1, States, BoundsAssumption DEF GoesOn, EnvOK, AtMost, Straight
  <2>5. snap' = snap
    BY <2>1 DEF GoesOn
  <2>6. truth'[c] \in S
    BY <1>1 DEF EnvOK
  <2>7. Straight(c)' => AtMost(snap'[c], truth'[c])
    BY <1>2, <1>4, <2>3, <2>4, <2>5, <2>6, AtMostOrder
  <2>8. Straight(c)' => AtMost(Latest(c), Latest(c)')
    BY <1>3, <2>4, <2>5 DEF Latest
  <2>9. CASE Hears(d) /\ OnMessage(d, m)
    <3>1. ~m.full => ~Gone(d)
      BY <1>0, <2>1, <2>2, <2>9 DEF Hears, GoesOn, Typed, Queue, Ended
    <3>2. m.full => m.event # "Terminated"
      BY <2>2
    <3>3. UNCHANGED calls
      BY <2>2, <2>9, <3>1, <3>2, TypedMessage DEF MessageQueued
    <3>4. d = c /\ Straight(c)' =>
             AtMost(Latest(c), m.event) /\ AtMost(m.event, Latest(c)')
      <4>1. SUFFICES ASSUME d = c, Straight(c)'
                     PROVE AtMost(Latest(c), m.event) /\ AtMost(m.event, Latest(c)')
        OBVIOUS
      <4>2. Latest(c) = truth[c] /\ Latest(c)' = state
        BY <2>1, <2>5, <2>9, <4>1 DEF Latest, Hears, GoesOn
      <4>3. AtMost(state, state)
        BY AtMostOrder
      <4>4. truth'[c] = state
        BY <2>1, <4>1 DEF GoesOn
      <4> QED BY <2>2, <2>4, <4>1, <4>2, <4>3, <4>4
    <3> QED BY <1>1, <2>2, <2>3, <2>7, <2>8, <2>9, <3>3, <3>4, MessageForward
  <2>10. CASE ~Hears(d) /\ UNCHANGED <<calls, sync, pend, again, calm>>
    BY <1>0, <1>1, <1>6, <2>3, <2>7, <2>8, <2>10, ForwardStep
  <2> QED BY <1>12, <2>9, <2>10, ProgressTable DEF m
<1>13. CASE Subscribing
  <2>1. UNCHANGED <<calls, sync, pend, truth, tried>>
    BY <1>13 DEF Subscribing
  <2>2. Found
    BY <1>13 DEF Subscribing
  <2>3. behind \subseteq behind' /\ (c \notin behind' => snap'[c] \in {"none", truth[c]})
    BY <1>0, <2>2, FoundRecords
  <2> QED BY <1>5, <1>6, <2>1, <2>3
<1>14. CASE Challenged
  <2>1. UNCHANGED <<calls, sync, pend, truth, tried, behind, snap>>
    BY <1>14 DEF Challenged, envVars, table
  <2> QED BY <1>5, <1>6, <2>1
<1>15. CASE NewToken \/ OnClose
  <2>1. PICK hidden \in BOOLEAN : Hide(hidden)
    BY <1>15 DEF NewToken, OnClose
  <2>2. UNCHANGED <<truth, tried, behind>> /\ snap'[c] \in {"none", snap[c]}
    BY <1>15 DEF NewToken, OnClose, envVars
  <2> QED BY <1>5, <1>7, <2>1, <2>2
<1>16. CASE Die
  <2>1. PICK error \in BOOLEAN : Hide(error \/ portal = "client")
    BY <1>16 DEF Die
  <2>2. UNCHANGED <<truth, tried, behind>> /\ snap'[c] = "none"
    BY <1>16 DEF Die, envVars
  <2> QED BY <1>5, <1>7, <2>1, <2>2
<1>17. CASE UNCHANGED vars
  <2>1. UNCHANGED <<calls, sync, pend, truth, tried, behind, snap>>
    BY <1>17 DEF vars, envVars, wsVars, table
  <2> QED BY <1>5, <1>6, <2>1
<1>18. CASE Render
  BY <1>18, ForwardRender
<1>19. CASE \E d \in Call : Snapshot(d) \/ MoveParty(d) \/ Age(d)
  BY <1>9, <1>10, <1>11, <1>19
<1>20. CASE \E d \in Call, state \in State : Progress(d, state)
  BY <1>12, <1>20
<1> QED BY <1>8, <1>13, <1>14, <1>15, <1>16, <1>17, <1>18, <1>19, <1>20 DEF Next

\* Whatever the order of messages, renders and ticks, no row that is shown goes
\* back, unless another gateway was tried or a new socket began with a record that
\* was behind the call.
THEOREM RowsGoForward == Spec => ShownGoesForward
<1> DEFINE I == Typed /\ \A c \in Call : Forward(c)
           Step1 == \A c \in Call :
                       calls[c] # NoRow /\ calls'[c] # NoRow /\ tried'[c] = 0 /\ c \notin behind' =>
                           Rank[calls'[c].event] >= Rank[calls[c].event]
<1>1. Init => I
  <2> SUFFICES ASSUME Init PROVE \A c \in Call : Forward(c)
    BY InitTyped
  <2>1. \A c \in Call : sync[c] = NoRow /\ calls[c] = NoRow /\ snap[c] = "none"
    BY DEF Init, Empty
  <2>2. pend = <<>>
    BY DEF Init
  <2>3. \A c \in Call : Shown(c) = {} /\ Coming(c) = {}
    BY <2>1, <2>2 DEF Shown, Coming, Waiting
  <2> QED BY <2>1, <2>3 DEF Forward, AtMost
<1>2. I /\ [Next]_vars => I'
  BY NextTyped, ForwardNext
<1>3. I /\ I' /\ [Next]_vars => [Step1]_calls
  <2>1. \A c \in Call : Straight(c)' <=> tried'[c] = 0 /\ c \notin behind'
    BY DEF Straight
  <2> QED BY <2>1, ForwardNext
<1> QED BY <1>1, <1>2, <1>3, PTL DEF Spec, ShownGoesForward

-----------------------------------------------------------------------------
(* A calm table is current.                                                *)

\* The rows that the next render will show, if at most one update waits.
Next1 == IF pend = <<>> THEN sync
         ELSE IF pend[1].kind = "set" THEN pend[1].rows
         ELSE Evaluated(sync, pend[1])

Running(c) == truth[c] \notin {"none", "Terminated"}

\* They have no row of a call that is not running, and as soon as its record was
\* delivered the row of one that is.
Current(c) ==
    c \notin missed =>
        /\ ~Running(c) => Next1[c] = NoRow
        /\ ready /\ socket = "subscribed" /\ snap[c] = "none" /\ Running(c) =>
              Next1[c] # NoRow /\ Next1[c].event = truth[c]

Calm ==
    /\ calm => Len(pend) <= 1 /\ \A c \in Call : Current(c)
    /\ pend = <<>> => \A c \in Call : calls[c] = NoRow <=> sync[c] = NoRow
    /\ socket = "connecting" /\ opened = 1 => sync = Empty /\ pend = <<>>
    /\ \A c \in Call : c \notin missed /\ snap[c] # "none" => snap[c] = truth[c]

\* If it stays calm, a call of setCalls was alone.
LEMMA SetCallsCalm ==
    ASSUME TableOK, NEW rows, NEW u \in Update, SetCalls(rows, u)
    PROVE  /\ pend' # <<>>
           /\ calm' => /\ calm /\ pend = <<>> /\ Len(pend') <= 1
                       /\ Next1' = IF u.kind = "set" THEN u.rows ELSE Evaluated(rows, u)
<1>1. calm' = (calm /\ pend = <<>>)
  BY DEF SetCalls
<1>2. CASE /\ u.kind # "set" /\ pend = <<>>
           /\ sync' = Evaluated(rows, u)
           /\ pend' = <<[kind |-> "set", rows |-> Evaluated(rows, u)]>>
  <2> DEFINE new == Evaluated(rows, u)
  <2> HIDE DEF new
  <2>1. pend' = <<[kind |-> "set", rows |-> new]>>
    BY <1>2 DEF new
  <2>2. pend' # <<>> /\ Len(pend') <= 1 /\ pend'[1].kind = "set" /\ pend'[1].rows = new
    BY <2>1
  <2>3. Next1' = new
    BY <2>2 DEF Next1
  <2> QED BY <1>1, <1>2, <2>2, <2>3 DEF new
<1>3. CASE sync' = rows /\ pend' = Append(pend, u)
  <2>1. pend \in Seq(Update)
    BY DEF TableOK
  <2>2. pend' # <<>>
    BY <1>3, <2>1
  <2>3. ASSUME pend = <<>> PROVE Len(pend') <= 1 /\ pend'[1] = u
    BY <1>3, <2>1, <2>3
  <2>4. ASSUME pend = <<>>
        PROVE  Next1' = IF u.kind = "set" THEN u.rows ELSE Evaluated(rows, u)
    BY <1>3, <2>2, <2>3, <2>4 DEF Next1
  <2> QED BY <1>1, <2>2, <2>3, <2>4
<1> QED BY <1>2, <1>3 DEF SetCalls

\* What a message about c shows of it, if the table stays calm.
MessageCalm(c, m) ==
    /\ pend' = <<>> => pend = <<>> /\ \A d \in Call : sync'[d] = NoRow <=> sync[d] = NoRow
    /\ calm' =>
          /\ calm /\ pend = <<>> /\ Len(pend') <= 1
          /\ \A d \in Call : d # c => Next1'[d] = sync[d]
          /\ m.full => Next1'[c] # NoRow /\ Next1'[c].event = m.event
          /\ ~m.full /\ (sync[c] = NoRow \/ m.event = "Terminated") => Next1'[c] = NoRow
          /\ ~m.full /\ sync[c] # NoRow /\ m.event # "Terminated" =>
                /\ Next1'[c] # NoRow
                /\ Next1'[c].event = IF m.event = "UpdateCLID" THEN sync[c].event ELSE m.event

LEMMA MessageIsCalm ==
    ASSUME TableOK, NEW c \in Call, NEW m \in Message, OnMessage(c, m),
           m.full => m.event # "Terminated"
    PROVE  MessageCalm(c, m)
<1>0. sync \in Rows /\ pend \in Seq(Update)
  BY DEF TableOK
<1>1. CASE /\ m.full /\ m.event \in State
           /\ SetCalls(sync, [kind |-> "create", call |-> c, row |-> NewRow(m.event)])
  <2> DEFINE u == [kind |-> "create", call |-> c, row |-> NewRow(m.event)]
  <2>1. u \in Update /\ u.kind = "create" /\ u.call = c /\ u.row = NewRow(m.event)
    BY <1>1, MessageUpdates
  <2>2. SetCalls(sync, u)
    BY <1>1
  <2> HIDE DEF u
  <2>3. Applies(sync, u)
    BY <2>1 DEF Applies
  <2>4. /\ \A d \in Call : d # c => Evaluated(sync, u)[d] = sync[d]
        /\ Evaluated(sync, u)[c] = NewRow(m.event)
    BY <1>0, <2>1, <2>3, EvaluatedRows
  <2>5. NewRow(m.event) # NoRow /\ NewRow(m.event).event = m.event
    BY <1>1, MessageUpdates, RowFields DEF NewRow
  <2>6. /\ pend' # <<>>
        /\ calm' => calm /\ pend = <<>> /\ Len(pend') <= 1 /\ Next1' = Evaluated(sync, u)
    BY <2>1, <2>2, SetCallsCalm
  <2> QED BY <1>1, <2>4, <2>5, <2>6 DEF MessageCalm
<1>2. ASSUME sync[c] # NoRow
      PROVE  /\ Heard(c, m) \in Rows
             /\ \A d \in Call : Heard(c, m)[d] = NoRow <=> sync[d] = NoRow
             /\ \A d \in Call : d # c => Heard(c, m)[d] = sync[d]
             /\ Heard(c, m)[c].event = IF m.event = "UpdateCLID" THEN sync[c].event ELSE m.event
  BY <1>0, <1>2, HeardRows
<1>3. ASSUME NEW kind \in {"confirm", "party", "delete"}, ~m.full, sync[c] # NoRow,
             SetCalls(Heard(c, m), [kind |-> kind, call |-> c]),
             kind = "delete" <=> m.event = "Terminated"
      PROVE  MessageCalm(c, m)
  <2> DEFINE u == [kind |-> kind, call |-> c]
             rows == Heard(c, m)
  <2>0. PICK new : new = Evaluated(rows, u)
    OBVIOUS
  <2>1. u \in Update /\ u.kind = kind /\ u.call = c
    BY MessageUpdates
  <2>2. SetCalls(rows, u)
    BY <1>3
  <2>3. /\ rows \in Rows /\ rows[c] # NoRow
        /\ \A d \in Call : d # c => rows[d] = sync[d]
        /\ rows[c].event = IF m.event = "UpdateCLID" THEN sync[c].event ELSE m.event
    BY <1>2, <1>3
  <2> HIDE DEF u, rows
  <2>4. Applies(rows, u) /\ u.kind # "set"
    BY <2>1, <2>3 DEF Applies
  <2>5. /\ \A d \in Call : d # c => new[d] = rows[d]
        /\ kind = "delete" => new[c] = NoRow
        /\ kind # "delete" => new[c] # NoRow /\ new[c].event = rows[c].event
    BY <2>0, <2>1, <2>3, <2>4, EvaluatedRows
  <2>6. pend' # <<>> /\ (calm' => calm /\ pend = <<>> /\ Len(pend') <= 1 /\ Next1' = new)
    BY <2>0, <2>1, <2>2, <2>4, SetCallsCalm
  <2>7. CASE kind = "delete"
    BY <1>3, <2>3, <2>5, <2>6, <2>7 DEF MessageCalm
  <2>8. CASE kind # "delete"
    <3>1. m.event # "Terminated"
      BY <1>3, <2>8
    <3>2. new[c] # NoRow
      BY <2>5, <2>8
    <3>3. new[c].event = IF m.event = "UpdateCLID" THEN sync[c].event ELSE m.event
      BY <2>3, <2>5, <2>8
    <3>4. \A d \in Call : d # c => new[d] = sync[d]
      BY <2>3, <2>5
    <3>5. ~m.full /\ sync[c] # NoRow
      BY <1>3
    <3> QED BY <2>6, <3>1, <3>2, <3>3, <3>4, <3>5 DEF MessageCalm
  <2> QED BY <2>7, <2>8
<1>4. ASSUME NEW rows, Notes(rows)
      PROVE  /\ pend' = pend /\ sync' = rows
             /\ calm' => calm /\ pend = <<>> /\ Next1' = rows /\ Len(pend') <= 1
  <2>1. pend' = pend /\ sync' = rows /\ (calm' => calm /\ pend = <<>>)
    BY <1>4 DEF Notes
  <2>2. pend = <<>> => Next1' = rows /\ Len(pend') = 0
    BY <2>1 DEF Next1
  <2> QED BY <2>1, <2>2
<1>5. CASE /\ ~m.full /\ sync[c] # NoRow /\ m.event # "Terminated" /\ Notes(Heard(c, m))
  BY <1>2, <1>4, <1>5 DEF MessageCalm
<1>6. CASE ~m.full /\ sync[c] = NoRow /\ Notes(sync)
  BY <1>4, <1>6 DEF MessageCalm
<1>7. "UpdateCLID" # "Terminated" /\ "Confirmed" # "Terminated"
  OBVIOUS
<1> QED BY <1>1, <1>3, <1>5, <1>6, <1>7, MessageCases

\* What a calm table says, split by its parts.
LEMMA CalmParts ==
    ASSUME Calm
    PROVE  /\ calm => Len(pend) <= 1 /\ \A c \in Call : Current(c)
           /\ pend = <<>> => \A c \in Call : calls[c] = NoRow <=> sync[c] = NoRow
           /\ calm /\ pend = <<>> => Next1 = sync
           /\ socket = "connecting" /\ opened = 1 =>
                 pend = <<>> /\ \A c \in Call : sync[c] = NoRow
           /\ \A c \in Call : c \notin missed /\ snap[c] # "none" => snap[c] = truth[c]
BY DEF Calm, Empty, Next1

\* A step that leaves table and dialogs, with no more to be shown.
LEMMA QuietStep ==
    ASSUME Calm, UNCHANGED <<truth, calls, sync, pend, calm>>, missed \subseteq missed',
           \A c \in Call \ missed' : snap'[c] \in {"none", truth[c]} \/ snap'[c] = snap[c],
           ready' /\ socket' = "subscribed" =>
              \/ ready /\ socket = "subscribed" /\ UNCHANGED snap
              \/ \A c \in Call \ missed' : snap'[c] = "none" => ~Running(c),
           socket' = "connecting" /\ opened' = 1 => socket = "connecting" /\ opened = 1
    PROVE  Calm'
<1>1. Next1' = Next1 /\ \A c : Running(c)' = Running(c)
  BY DEF Next1, Running
<1>2. ASSUME NEW c \in Call, Current(c) PROVE Current(c)'
  BY <1>1, <1>2 DEF Current
<1> QED BY <1>2, CalmParts DEF Calm

LEMMA RenderCalm ==
    ASSUME Typed, Calm, Render
    PROVE  Calm'
<1>1. TableOK /\ pend \in Seq(Update)
  BY TypeParts DEF Typed, TableOK
<1>2. /\ pend' = <<>> /\ sync' = calls' /\ calls' = Rendered[Len(pend)].state
      /\ calm' = (calm /\ (pend # <<>> \/ sync = calls))
      /\ UNCHANGED <<truth, missed, ready, socket, snap, opened>>
  BY DEF Render, envVars, wsVars
<1>3. Rendered[0] = [state |-> calls, ref |-> sync]
  BY <1>1, RenderedSteps
<1>4. ASSUME calm' PROVE calm /\ calls' = Next1
  <2>1. calm /\ (pend # <<>> \/ sync = calls) /\ Len(pend) <= 1
    BY <1>2, <1>4, CalmParts
  <2>2. CASE pend = <<>>
    BY <1>2, <1>3, <2>1, <2>2 DEF Next1
  <2>3. CASE pend # <<>>
    <3>1. Len(pend) = 1
      <4>1. PICK n \in Nat : n = Len(pend)
        BY <1>1
      <4>2. n # 0 /\ n <= 1
        BY <1>1, <2>1, <2>3, <4>1
      <4> QED BY <4>1, <4>2
    <3>2. Rendered[1] = Step(Rendered[0], pend[1])
      BY <1>1, <3>1, RenderedSteps
    <3>3. Rendered[1].state = Next1
      BY <1>3, <2>3, <3>2 DEF Step, Next1
    <3> QED BY <1>2, <2>1, <3>1, <3>3
  <2> QED BY <2>2, <2>3
<1>5. Next1' = calls' /\ Len(pend') <= 1
  BY <1>2 DEF Next1
<1>6. ASSUME calm', NEW c \in Call PROVE Current(c)'
  BY <1>2, <1>4, <1>5, <1>6, CalmParts DEF Current, Running
<1>7. socket = "connecting" /\ opened = 1 => sync' = Empty
  <2>1. ASSUME socket = "connecting", opened = 1 PROVE sync' = Empty
    <3>1. Calm => sync = Empty /\ pend = <<>>
      BY <2>1 DEF Calm
    <3>2. \A c \in Call : calls[c] = NoRow
      BY <3>1, CalmParts DEF Empty
    <3>3. calls = Empty
      BY <1>1, <3>2 DEF Empty, TableOK, Rows
    <3>4. calls' = calls
      BY <1>2, <1>3, <3>1
    <3> QED BY <1>2, <3>3, <3>4
  <2> QED BY <2>1
<1> QED BY <1>2, <1>5, <1>6, <1>7 DEF Calm

\* What setCalls with all the rows leaves.
LEMMA SetAllCalm ==
    ASSUME Typed, Calm, NEW rows \in Rows, NEW all \in Rows,
           SetCalls(rows, [kind |-> "set", rows |-> all]), UNCHANGED <<truth, missed>>,
           socket' # "connecting" \/ opened' > 1,
           \A c \in Call : snap'[c] \in {"none", snap[c]},
           \A c \in Call : ~Running(c) => all[c] \in {NoRow, sync[c]},
           ready' /\ socket' = "subscribed" =>
              /\ ready /\ socket = "subscribed" /\ UNCHANGED snap
              /\ \A c \in Call : Running(c) => all[c] = sync[c]
    PROVE  Calm'
<1> DEFINE u == [kind |-> "set", rows |-> all]
<1>0. TableOK
  BY TypeParts DEF Typed
<1>1. u \in Update /\ u.kind = "set" /\ u.rows = all
  BY DEF Update
<1>2. SetCalls(rows, u)
  OBVIOUS
<1> HIDE DEF u
<1>3. pend' # <<>> /\ (calm' => calm /\ pend = <<>> /\ Len(pend') <= 1 /\ Next1' = all)
  BY <1>0, <1>1, <1>2, SetCallsCalm
<1>4. \A c \in Call : c \notin missed' /\ snap'[c] # "none" => snap'[c] = truth'[c]
  BY CalmParts
<1>5. \A c : Running(c)' = Running(c)
  BY DEF Running
<1>6. ASSUME calm', NEW c \in Call PROVE Current(c)'
  <2>1. Current(c) /\ Next1 = sync
    BY <1>3, <1>6, CalmParts
  <2> QED BY <1>3, <1>5, <1>6, <2>1 DEF Current
<1>7. ~(socket' = "connecting" /\ opened' = 1)
  OBVIOUS
<1> QED BY <1>3, <1>4, <1>6, <1>7 DEF Calm

\* The brand portal's table is hidden as it is emptied.
LEMMA HideCalm ==
    ASSUME Typed, Calm, NEW hidden \in BOOLEAN, Hide(hidden), UNCHANGED <<truth, missed>>,
           socket' # "connecting" \/ opened' > 1,
           \A c \in Call : snap'[c] \in {"none", snap[c]},
           socket' = "subscribed" => socket = "subscribed" /\ UNCHANGED snap
    PROVE  Calm'
<1>0. TableOK /\ EnvOK
  BY TypeParts DEF Typed
<1>1. CASE portal = "brand" /\ ready /\ hidden
  <2>1. SetCalls(sync, [kind |-> "set", rows |-> Empty]) /\ ~ready'
    BY <1>1 DEF Hide
  <2>2. sync \in Rows /\ Empty \in Rows /\ \A c \in Call : Empty[c] = NoRow
    BY <1>0 DEF TableOK, Empty, Rows
  <2> QED BY <2>1, <2>2, SetAllCalm
<1>2. CASE ~(portal = "brand" /\ ready /\ hidden)
  <2>1. UNCHANGED <<calls, sync, pend, calm>> /\ (ready' => ready)
    BY <1>2 DEF Hide
  <2>2. ~(socket' = "connecting" /\ opened' = 1)
    OBVIOUS
  <2> QED BY <2>1, <2>2, QuietStep
<1> QED BY <1>1, <1>2

\* A message delivered about c, if what it shows is the dialog as it is now.
LEMMA MessageKeepsCalm ==
    ASSUME Calm, NEW c \in Call, NEW m \in Message, MessageCalm(c, m), socket = "subscribed",
           UNCHANGED <<calls, missed, ready, socket, opened>>,
           \A d \in Call : d # c => truth'[d] = truth[d] /\ snap'[d] = snap[d],
           snap'[c] = "none",
           m.full => m.event # "Terminated",
           c \notin missed /\ m.full => Running(c)' /\ m.event = truth'[c],
           c \notin missed /\ ~m.full => /\ snap[c] = "none"
                                        /\ Running(c)
                                        /\ IF m.event = "UpdateCLID" THEN truth'[c] = truth[c]
                                           ELSE truth'[c] = m.event /\ truth'[c] # "none"
    PROVE  Calm'
<1>1. ASSUME calm', NEW d \in Call PROVE Current(d)'
  <2>1. /\ Current(d) /\ Next1 = sync
        /\ \A e \in Call : e # c => Next1'[e] = sync[e]
        /\ m.full => Next1'[c] # NoRow /\ Next1'[c].event = m.event
        /\ ~m.full /\ (sync[c] = NoRow \/ m.event = "Terminated") => Next1'[c] = NoRow
        /\ ~m.full /\ sync[c] # NoRow /\ m.event # "Terminated" =>
              /\ Next1'[c] # NoRow
              /\ Next1'[c].event = IF m.event = "UpdateCLID" THEN sync[c].event ELSE m.event
    BY <1>1, CalmParts DEF MessageCalm
  <2>2. CASE d # c
    <3>1. Running(d)' = Running(d) /\ Next1'[d] = Next1[d]
      BY <2>1, <2>2 DEF Running
    <3> QED BY <2>1, <2>2, <3>1 DEF Current
  <2>3. CASE d = c /\ m.full
    BY <2>1, <2>3 DEF Current
  <2>4. CASE d = c /\ ~m.full
    <3>1. SUFFICES ASSUME c \notin missed
                   PROVE  /\ ~Running(c)' => Next1'[c] = NoRow
                          /\ ready /\ Running(c)' => Next1'[c] # NoRow /\ Next1'[c].event = truth'[c]
      BY <2>4 DEF Current
    <3>2. ready => sync[c] # NoRow /\ sync[c].event = truth[c]
      BY <2>1, <2>4, <3>1 DEF Current
    <3>3. CASE m.event = "UpdateCLID"
      BY <2>1, <2>4, <3>1, <3>2, <3>3 DEF Running
    <3>4. CASE m.event # "UpdateCLID"
      BY <2>1, <2>4, <3>1, <3>2, <3>4 DEF Running
    <3> QED BY <3>3, <3>4
  <2> QED BY <2>2, <2>3, <2>4
<1>2. calm' => Len(pend') <= 1
  BY DEF MessageCalm
<1>3. pend' = <<>> => \A d \in Call : calls'[d] = NoRow <=> sync'[d] = NoRow
  BY CalmParts DEF MessageCalm
<1>4. \A d \in Call : d \notin missed' /\ snap'[d] # "none" => snap'[d] = truth'[d]
  BY CalmParts
<1> QED BY <1>1, <1>2, <1>3, <1>4 DEF Calm

LEMMA CalmNext ==
    ASSUME Typed, Visible, Calm, [Next]_vars
    PROVE  Calm'
<1>0. EnvOK /\ TableOK /\ \A d \in Call : Recorded(d) /\ Over(d)
  BY TypeParts DEF Typed, Queue
<1>1. CASE Render
  BY <1>1, RenderCalm
<1>2. CASE Tick
  <2> DEFINE left == [d \in Call |-> IF d \in old THEN NoRow ELSE sync[d]]
  <2>1. SetCalls(left, [kind |-> "set", rows |-> left]) /\ sync # Empty
    BY <1>2 DEF Tick
  <2>2. left \in Rows /\ \A d \in Call : left[d] = IF d \in old THEN NoRow ELSE sync[d]
    BY <1>0 DEF TableOK, Rows
  <2> HIDE DEF left
  <2>3. UNCHANGED <<truth, missed, socket, opened, snap, ready>>
    BY <1>2 DEF Tick, envVars, wsVars
  <2>4. ~(socket = "connecting" /\ opened = 1)
    BY <2>1 DEF Calm
  <2>5. socket' # "connecting" \/ opened' > 1
    BY <1>0, <2>3, <2>4, BoundsAssumption DEF EnvOK
  <2>6. \A d \in Call : Running(d) => left[d] = sync[d]
    BY <1>0, <2>2 DEF Over, Running
  <2>7. \A d \in Call : left[d] \in {NoRow, sync[d]}
    BY <2>2
  <2> QED BY <2>1, <2>2, <2>3, <2>5, <2>6, <2>7, SetAllCalm
<1>3. ASSUME NEW c \in Call, Snapshot(c) PROVE Calm'
  <2> DEFINE m == [Setup EXCEPT !.event = snap[c]]
  <2>1. /\ socket = "subscribed" /\ snap[c] # "none" /\ OnMessage(c, m)
        /\ snap' = [snap EXCEPT ![c] = "none"]
        /\ UNCHANGED <<truth, missed, socket, opened, ready>>
    BY <1>3 DEF Snapshot, envVars
  <2>2. snap[c] \in State
    BY <1>0, <2>1 DEF EnvOK
  <2>3. m \in Message /\ m.full /\ m.event = snap[c]
    BY <2>2, RecordMessage
  <2> HIDE DEF m
  <2>4. m.event # "Terminated" /\ m.event # "none"
    BY <1>0, <2>1, <2>3 DEF Recorded
  <2>5. UNCHANGED calls /\ MessageCalm(c, m)
    BY <1>0, <2>1, <2>3, <2>4, TypedMessage, MessageIsCalm DEF MessageQueued
  <2>6. snap'[c] = "none" /\ \A d \in Call : d # c => snap'[d] = snap[d]
    BY <1>0, <2>1 DEF EnvOK
  <2>7. c \notin missed => m.event = truth'[c] /\ Running(c)'
    BY <2>1, <2>3, <2>4, CalmParts DEF Running
  <2> QED BY <2>1, <2>3, <2>4, <2>5, <2>6, <2>7, MessageKeepsCalm
<1>4. ASSUME NEW c \in Call, MoveParty(c) PROVE Calm'
  <2> DEFINE m == Change("UpdateCLID")
  <2>1. /\ OnMessage(c, m) /\ socket = "subscribed" /\ snap[c] = "none" /\ Running(c)
        /\ UNCHANGED <<truth, missed, socket, opened, ready, snap>>
    BY <1>4 DEF MoveParty, Hears, Running, envVars, wsVars
  <2>2. m \in Message /\ ~m.full /\ m.event = "UpdateCLID"
    BY ChangeMessage DEF Event
  <2> HIDE DEF m
  <2>3. ~Gone(c)
    BY <2>1 DEF Running, Typed, Queue, Ended
  <2>4. UNCHANGED calls /\ MessageCalm(c, m)
    BY <1>0, <2>1, <2>2, <2>3, TypedMessage, MessageIsCalm DEF MessageQueued
  <2> QED BY <2>1, <2>2, <2>4, MessageKeepsCalm
<1>5. ASSUME NEW c \in Call, Age(c) PROVE Calm'
  <2>1. UNCHANGED <<truth, missed, snap, ready, socket, opened, calls, sync, pend, calm>>
    BY <1>5 DEF Age, wsVars, table
  <2> QED BY <2>1, QuietStep
<1>6. ASSUME NEW c \in Call, NEW state \in State, Progress(c, state) PROVE Calm'
  <2> DEFINE m == Told(state)
  <2>1. GoesOn(c, state)
    BY <1>0, <1>6, ProgressCases
  <2>2. m \in Message /\ m.event = state /\ (m.full <=> state = "Trying")
    BY ToldMessage
  <2> HIDE DEF m
  <2>3. state # "none" /\ state # "UpdateCLID"
    BY States
  <2>4. CASE Hears(c) /\ OnMessage(c, m) /\ missed' = missed
    <3>1. ~m.full => Running(c) /\ ~Gone(c)
      BY <1>0, <2>1, <2>2, <2>4, States DEF Hears, GoesOn, Typed, Queue, Ended, Running
    <3>2. m.full => m.event # "Terminated"
      BY <2>2
    <3>3. UNCHANGED calls /\ MessageCalm(c, m)
      BY <1>0, <2>2, <2>4, <3>1, <3>2, TypedMessage, MessageIsCalm DEF MessageQueued
    <3>4. /\ UNCHANGED <<socket, opened, snap, ready>> /\ truth'[c] = state
          /\ \A d \in Call : d # c => truth'[d] = truth[d]
      BY <2>1 DEF GoesOn
    <3>5. socket = "subscribed" /\ snap[c] = "none"
      BY <2>4 DEF Hears
    <3>6. m.full => Running(c)'
      BY <2>2, <3>4 DEF Running
    <3> QED BY <2>2, <2>3, <2>4, <3>1, <3>2, <3>3, <3>4, <3>5, <3>6, MessageKeepsCalm
  <2>5. CASE /\ ~Hears(c) /\ UNCHANGED <<calls, sync, pend, again, calm>>
             /\ missed' = IF socket = "connecting" /\ opened = 1 THEN missed ELSE missed \cup {c}
    <3>1. /\ UNCHANGED <<socket, opened, snap, ready>>
          /\ \A d \in Call : d # c => truth'[d] = truth[d]
      BY <2>1 DEF GoesOn
    <3>2. Next1' = Next1
      BY <2>5 DEF Next1
    <3>3. ASSUME NEW d \in Call, Current(d), d # c PROVE Current(d)'
      BY <2>5, <3>1, <3>2, <3>3 DEF Current, Running
    <3>4. ASSUME calm' PROVE Current(c)'
      <4>1. SUFFICES ASSUME c \notin missed' PROVE Current(c)'
        BY DEF Current
      <4>2. socket = "connecting" /\ opened = 1
        BY <2>5, <4>1
      <4>3. Next1 = sync /\ sync[c] = NoRow
        BY <2>5, <3>4, <4>2, CalmParts
      <4> QED BY <3>1, <3>2, <4>2, <4>3 DEF Current
    <3>5. ASSUME NEW d \in Call, d \notin missed', snap'[d] # "none" PROVE snap'[d] = truth'[d]
      <4>1. CASE d # c
        BY <2>5, <3>1, <3>5, <4>1, CalmParts
      <4>2. CASE d = c
        BY <1>0, <2>5, <3>1, <3>5, <4>2 DEF Recorded
      <4> QED BY <4>1, <4>2
    <3>6. calm' => Len(pend') <= 1 /\ \A d \in Call : Current(d)'
      BY <2>5, <3>3, <3>4, CalmParts
    <3>7. pend' = <<>> => \A d \in Call : calls'[d] = NoRow <=> sync'[d] = NoRow
      BY <2>5, CalmParts
    <3>8. socket' = "connecting" /\ opened' = 1 => sync' = Empty /\ pend' = <<>>
      BY <2>5, <3>1 DEF Calm
    <3> QED BY <3>5, <3>6, <3>7, <3>8 DEF Calm
  <2> QED BY <1>6, <2>4, <2>5, ProgressTable DEF m
<1>7. CASE Subscribing
  <2>1. UNCHANGED <<truth, opened, calls, sync, pend, calm>> /\ socket' = "subscribed"
    BY <1>7 DEF Subscribing
  <2>2. Found
    BY <1>7 DEF Subscribing
  <2>3. /\ \A d \in Call \ missed' : snap'[d] = IF Running(d) THEN truth[d] ELSE "none"
        /\ missed \subseteq missed'
    BY <1>0, <2>2, FoundRecords DEF InProgress, Running
  <2>4. \A d \in Call \ missed' : snap'[d] = "none" => ~Running(d)
    BY <2>3 DEF Running
  <2> QED BY <2>1, <2>3, <2>4, QuietStep
<1>8. CASE Challenged
  <2>1. /\ UNCHANGED <<truth, missed, snap, opened, calls, sync, pend, calm>> /\ socket' = "deaf"
    BY <1>8 DEF Challenged, envVars, table
  <2> QED BY <2>1, QuietStep
<1>9. CASE NewToken
  <2>1. /\ Hide(portal = "brand") /\ UNCHANGED <<truth, missed>>
        /\ socket' = "connecting" /\ snap' = [d \in Call |-> "none"]
    BY <1>9 DEF NewToken, envVars
  <2>2. opened' > 1
    BY <1>0, <1>9, BoundsAssumption DEF NewToken, EnvOK
  <2> QED BY <2>1, <2>2, HideCalm
<1>10. CASE OnClose
  <2>1. /\ Hide(portal = "client" \/ closing = "error") /\ closing # "no"
        /\ UNCHANGED <<truth, missed, socket, opened, snap>>
    BY <1>10 DEF OnClose, envVars
  <2>2. opened' > 1
    BY <2>1 DEF Visible, ClosedOnes
  <2> QED BY <2>1, <2>2, HideCalm
<1>11. CASE Die
  <2>1. PICK error \in BOOLEAN : Hide(error \/ portal = "client")
    BY <1>11 DEF Die
  <2>2. UNCHANGED <<truth, missed>> /\ socket' = "dead" /\ snap' = [d \in Call |-> "none"]
    BY <1>11 DEF Die, envVars
  <2> QED BY <2>1, <2>2, HideCalm
<1>12. CASE UNCHANGED vars
  <2>1. UNCHANGED <<truth, missed, snap, ready, socket, opened, calls, sync, pend, calm>>
    BY <1>12 DEF vars, envVars, wsVars, table
  <2> QED BY <2>1, QuietStep
<1>13. CASE \E c \in Call : Snapshot(c) \/ MoveParty(c) \/ Age(c)
  BY <1>3, <1>4, <1>5, <1>13
<1>14. CASE \E c \in Call, state \in State : Progress(c, state)
  BY <1>6, <1>14
<1> QED BY <1>1, <1>2, <1>7, <1>8, <1>9, <1>10, <1>11, <1>12, <1>13, <1>14 DEF Next

\* Only a change that meets another one not rendered yet can be lost: as long as
\* none did, the table that is shown has a row for exactly the calls in progress
\* of which every event was delivered, in the state of the dialog.
THEOREM CalmTableCurrent == Spec => []CalmTableIsCurrent
<1>1. Init => Visible /\ Calm
  <2> SUFFICES ASSUME Init PROVE Visible /\ Calm
    OBVIOUS
  <2>1. Visible
    BY DEF Init, Visible, ClosedOnes, SubscribedIsShown
  <2>2. \A c \in Call : sync[c] = NoRow /\ calls[c] = NoRow /\ snap[c] = "none"
    BY DEF Init, Empty
  <2>3. pend = <<>> /\ Len(pend) <= 1 /\ Next1 = sync /\ sync = Empty /\ ready = FALSE
    BY DEF Init, Next1
  <2> QED BY <2>1, <2>2, <2>3 DEF Calm, Current
<1>2. Typed /\ Visible /\ Calm /\ [Next]_vars => (Visible /\ Calm)'
  BY VisibleNext, CalmNext
<1>3. Calm => CalmTableIsCurrent
  <2> SUFFICES ASSUME Calm, calm, ready, socket = "subscribed", pend = <<>>,
                      NEW c \in Call \ missed, snap[c] = "none"
               PROVE  IF truth[c] \in {"none", "Terminated"}
                      THEN calls[c] = NoRow /\ sync[c] = NoRow
                      ELSE calls[c] # NoRow /\ sync[c] # NoRow /\ sync[c].event = truth[c]
    BY DEF CalmTableIsCurrent
  <2> QED BY CalmParts DEF Current, Running
<1> QED BY <1>1, <1>2, <1>3, SpecTyped, PTL DEF Spec

=============================================================================
