-------------------------- MODULE ActiveCalls_proofs --------------------------
(***************************************************************************)
(* Proofs about ActiveCalls for every set of calls and every bound.        *)
(***************************************************************************)
EXTENDS ActiveCalls, TLAPS

Slot == Record \cup {NoRecord}

-----------------------------------------------------------------------------
(* The vocabulary of events.                                               *)

\* The five states, with the proxies' numbers.
LEMMA States ==
    /\ State = {"Trying", "Proceeding", "Early", "Confirmed", "Terminated"}
    /\ Rank["Trying"] = 0 /\ Rank["Proceeding"] = 1 /\ Rank["Early"] = 2
    /\ Rank["Confirmed"] = 3 /\ Rank["Terminated"] = 4
BY DEF State, Rank

\* What the proxies publish are messages.
LEMMA Messages ==
    /\ Setup \in Message
    /\ \A event \in Event : Change(event) \in Message
    /\ Setup.event = "Trying"
    /\ \A event \in Event : Change(event).event = event
    /\ Change("UpdateCLID").party = "next"
BY States DEF Setup, Change, Message, Event, Time, Party

\* The control subscriber stores a record or none.
LEMMA UpdatedType ==
    ASSUME NEW record \in Slot, NEW m \in Message
    PROVE  Updated(record, m) \in Slot
<1>1. /\ m.event \in State \cup {"UpdateCLID"} /\ m.time \in Time /\ m.party \in Party
  BY DEF Message, Event
<1>2. CASE m.event = "Terminated"
  BY <1>2 DEF Updated, Slot
<1>3. CASE m.event = "Trying"
  BY <1>1, <1>3, States DEF Updated, Slot, Record
<1>4. CASE m.event \notin {"Terminated", "Trying"} /\ record = NoRecord
  BY <1>4 DEF Updated, Slot
<1>5. CASE m.event \notin {"Terminated", "Trying"} /\ record # NoRecord
  BY <1>1, <1>5 DEF Updated, Slot, Record
<1> QED BY <1>2, <1>3, <1>4, <1>5

-----------------------------------------------------------------------------
(* The record that is left when the published events have been handled.    *)

\* A record that tells a dialog in state d, whose party has moved or not: any,
\* for a dialog that the proxy has lost.
Agrees(record, d, gone) ==
    CASE d = "lost" -> TRUE
      [] d \in {"none", "Terminated"} -> record = NoRecord
      [] OTHER -> /\ record # NoRecord
                  /\ record.event = d
                  /\ gone => record.party = "next"

\* From record on, handling the messages of q one by one goes forward and ends
\* in agreement.
EndsWell(record, q, d, gone) ==
    \E r \in [0 .. Len(q) -> Slot] :
        /\ r[0] = record
        /\ \A i \in 1 .. Len(q) : r[i] = Updated(r[i - 1], q[i]) /\ NotBehind(r[i - 1], r[i])
        /\ Agrees(r[Len(q)], d, gone)

\* With nothing left to handle the record agrees by itself.
LEMMA EndsWellEmpty ==
    ASSUME NEW record \in Slot, NEW d, NEW gone
    PROVE  EndsWell(record, <<>>, d, gone) <=> Agrees(record, d, gone)
<1>1. ASSUME EndsWell(record, <<>>, d, gone) PROVE Agrees(record, d, gone)
  BY <1>1 DEF EndsWell
<1>2. ASSUME Agrees(record, d, gone) PROVE EndsWell(record, <<>>, d, gone)
  <2> DEFINE r == [i \in 0 .. Len(<<>>) |-> record]
  <2>1. r \in [0 .. Len(<<>>) -> Slot] /\ r[0] = record /\ r[Len(<<>>)] = record
    OBVIOUS
  <2>2. \A i \in 1 .. Len(<<>>) : r[i] = Updated(r[i - 1], <<>>[i]) /\ NotBehind(r[i - 1], r[i])
    OBVIOUS
  <2> HIDE DEF r
  <2> QED BY <1>2, <2>1, <2>2 DEF EndsWell
<1> QED BY <1>1, <1>2

\* One more message takes agreement with one state to agreement with the next.
LEMMA EndsWellAppend ==
    ASSUME NEW record \in Slot, NEW q \in Seq(Message), NEW m \in Message,
           NEW d, NEW gone, NEW d2, NEW gone2,
           EndsWell(record, q, d, gone),
           \A s \in Slot : Agrees(s, d, gone) =>
                              Agrees(Updated(s, m), d2, gone2) /\ NotBehind(s, Updated(s, m))
    PROVE  EndsWell(record, Append(q, m), d2, gone2)
<1> DEFINE n == Len(q)
           p == Append(q, m)
<1>0. n \in Nat /\ Len(p) = n + 1 /\ p[n + 1] = m /\ \A i \in 1 .. n : p[i] = q[i]
  OBVIOUS
<1>1. PICK r \in [0 .. n -> Slot] :
          /\ r[0] = record
          /\ \A i \in 1 .. n : r[i] = Updated(r[i - 1], q[i]) /\ NotBehind(r[i - 1], r[i])
          /\ Agrees(r[n], d, gone)
  BY DEF EndsWell
<1> HIDE DEF n, p
<1> DEFINE t == [i \in 0 .. (n + 1) |-> IF i <= n THEN r[i] ELSE Updated(r[n], m)]
<1>2. Updated(r[n], m) \in Slot /\ r[n] \in Slot
  BY <1>0, UpdatedType
<1>3. t \in [0 .. (n + 1) -> Slot]
  BY <1>0, <1>2
<1>4. t[0] = record
  BY <1>0, <1>1
<1>5. \A i \in 1 .. (n + 1) : t[i] = Updated(t[i - 1], p[i]) /\ NotBehind(t[i - 1], t[i])
  <2>1. ASSUME NEW i \in 1 .. n PROVE t[i] = Updated(t[i - 1], p[i]) /\ NotBehind(t[i - 1], t[i])
    BY <1>0, <1>1
  <2>2. t[n + 1] = Updated(t[n], m) /\ t[n] = r[n]
    BY <1>0
  <2>3. NotBehind(r[n], Updated(r[n], m))
    BY <1>1, <1>2
  <2>4. p[n + 1] = m /\ (n + 1) - 1 = n /\ \A i \in 1 .. (n + 1) : i \in 1 .. n \/ i = n + 1
    BY <1>0
  <2> HIDE DEF t
  <2> QED BY <2>1, <2>2, <2>3, <2>4
<1>6. Agrees(t[n + 1], d2, gone2)
  BY <1>0, <1>1, <1>2
<1> HIDE DEF t
<1>7. EndsWell(record, p, d2, gone2)
  BY <1>0, <1>3, <1>4, <1>5, <1>6 DEF EndsWell
<1> QED BY <1>7 DEF p

\* Handling the first message goes forward and leaves the end as it was.
LEMMA EndsWellTail ==
    ASSUME NEW record \in Slot, NEW q \in Seq(Message), q # <<>>,
           NEW d, NEW gone, EndsWell(record, q, d, gone)
    PROVE  /\ EndsWell(Updated(record, Head(q)), Tail(q), d, gone)
           /\ NotBehind(record, Updated(record, Head(q)))
<1> DEFINE n == Len(q)
           p == Tail(q)
<1>0. /\ n \in Nat \ {0} /\ Len(p) = n - 1 /\ Head(q) = q[1]
      /\ \A i \in 1 .. (n - 1) : p[i] = q[i + 1]
  OBVIOUS
<1>1. PICK r \in [0 .. n -> Slot] :
          /\ r[0] = record
          /\ \A i \in 1 .. n : r[i] = Updated(r[i - 1], q[i]) /\ NotBehind(r[i - 1], r[i])
          /\ Agrees(r[n], d, gone)
  BY DEF EndsWell
<1> HIDE DEF n, p
<1> DEFINE t == [i \in 0 .. (n - 1) |-> r[i + 1]]
<1>2. t \in [0 .. (n - 1) -> Slot]
  BY <1>0
<1>3. t[0] = Updated(record, Head(q))
  BY <1>0, <1>1
<1>4. \A i \in 1 .. (n - 1) : t[i] = Updated(t[i - 1], p[i]) /\ NotBehind(t[i - 1], t[i])
  BY <1>0, <1>1
<1>5. Agrees(t[n - 1], d, gone)
  BY <1>0, <1>1
<1> HIDE DEF t
<1>6. EndsWell(Updated(record, Head(q)), p, d, gone)
  BY <1>0, <1>2, <1>3, <1>4, <1>5 DEF EndsWell
<1>7. r[0] = record /\ r[1] = Updated(record, Head(q)) /\ NotBehind(r[0], r[1])
  <2>1. 1 \in 1 .. n /\ 1 - 1 = 0
    BY <1>0
  <2>2. r[1] = Updated(r[1 - 1], q[1]) /\ NotBehind(r[1 - 1], r[1])
    BY <1>1, <2>1
  <2> QED BY <1>0, <1>1, <2>1, <2>2
<1> QED BY <1>6, <1>7 DEF p

-----------------------------------------------------------------------------
(* What the page shows when the messages on the wire have arrived.         *)

Place == Row \cup {NoRecord}

\* A row, or its absence, that tells a dialog in state d: one in any state, for
\* a dialog that the proxy has lost.
Pictures(row, d) ==
    CASE d = "none" -> row = NoRecord
      [] d = "lost" -> row # NoRecord => row.event \in State
      [] d = "Terminated" -> row = NoRecord \/ row.leaving
      [] OTHER -> row # NoRecord /\ ~row.leaving /\ row.full /\ row.event = d

\* From row on, showing the messages of q one by one goes forward and ends in a
\* picture of d.
ShowsWell(row, q, d) ==
    \E r \in [0 .. Len(q) -> Place] :
        /\ r[0] = row
        /\ \A i \in 1 .. Len(q) : r[i] = Shown(r[i - 1], q[i]) /\ NotBehind(r[i - 1], r[i])
        /\ Pictures(r[Len(q)], d)

\* A Terminated comes last, when the call is over (s is what really happens to
\* it), and nothing comes for a row that is leaving.
EndsLast(row, q, s) ==
    /\ \A i \in 1 .. Len(q) : q[i].event = "Terminated" => i = Len(q) /\ s = "over"
    /\ row # NoRecord /\ row.leaving => q = <<>> /\ s = "over"

Viewed(row, q, d, s) == ShowsWell(row, q, d) /\ EndsLast(row, q, s)

\* A row after a message is a row or none; only a Terminated makes it leave.
LEMMA ShownType ==
    ASSUME NEW row \in Place, NEW m \in Message
    PROVE  /\ Shown(row, m) \in Place
           /\ Shown(row, m) # NoRecord /\ Shown(row, m).leaving =>
                  m.event = "Terminated" \/ (row # NoRecord /\ row.leaving)
<1>1. /\ m.event \in State \cup {"UpdateCLID"} /\ m.time \in Time /\ m.party \in Party
      /\ m.full \in BOOLEAN
  BY DEF Message, Event
<1>2. CASE row = NoRecord
  <2>1. CASE m.event = "Terminated"
    BY <1>2, <2>1 DEF Shown, NewRow, Place
  <2>2. CASE m.event # "Terminated"
    <3>1. Shown(row, m) = [full |-> m.full, event |-> IF m.event = "UpdateCLID" THEN "none" ELSE m.event,
                           time |-> m.time, party |-> m.party, leaving |-> FALSE]
      BY <1>2, <2>2 DEF Shown, NewRow
    <3> QED BY <1>1, <3>1 DEF Place, Row
  <2> QED BY <2>1, <2>2
<1>3. CASE row # NoRecord
  <2>1. row \in Row
    BY <1>3 DEF Place
  <2>2. \/ m.event = "Terminated"
        \/ Shown(row, m) = [row EXCEPT !.party = m.party]
        \/ Shown(row, m) = [row EXCEPT !.event = m.event, !.time = m.time] /\ m.event \in State
        \/ Shown(row, m) = [row EXCEPT !.event = m.event] /\ m.event \in State
    BY <1>1, <1>3, States DEF Shown
  <2>3. m.event = "Terminated" => Shown(row, m) = [row EXCEPT !.event = m.event, !.leaving = TRUE]
    BY <1>3, States DEF Shown
  <2> QED BY <1>1, <1>3, <2>1, <2>2, <2>3, States DEF Place, Row
<1> QED BY <1>2, <1>3

\* With nothing on the wire the row pictures the dialog by itself.
LEMMA ShowsWellEmpty ==
    ASSUME NEW row \in Place, NEW d
    PROVE  ShowsWell(row, <<>>, d) <=> Pictures(row, d)
<1>1. ASSUME ShowsWell(row, <<>>, d) PROVE Pictures(row, d)
  BY <1>1 DEF ShowsWell
<1>2. ASSUME Pictures(row, d) PROVE ShowsWell(row, <<>>, d)
  <2> DEFINE r == [i \in 0 .. Len(<<>>) |-> row]
  <2>1. r \in [0 .. Len(<<>>) -> Place] /\ r[0] = row /\ r[Len(<<>>)] = row
    OBVIOUS
  <2>2. \A i \in 1 .. Len(<<>>) : r[i] = Shown(r[i - 1], <<>>[i]) /\ NotBehind(r[i - 1], r[i])
    OBVIOUS
  <2> HIDE DEF r
  <2> QED BY <1>2, <2>1, <2>2 DEF ShowsWell
<1> QED BY <1>1, <1>2

\* One more message takes pictures of one state to pictures of the next.
LEMMA ShowsWellAppend ==
    ASSUME NEW row \in Place, NEW q \in Seq(Message), NEW m \in Message, NEW d, NEW d2,
           ShowsWell(row, q, d),
           \A p \in Place : Pictures(p, d) =>
                               Pictures(Shown(p, m), d2) /\ NotBehind(p, Shown(p, m))
    PROVE  ShowsWell(row, Append(q, m), d2)
<1> DEFINE n == Len(q)
           p == Append(q, m)
<1>0. n \in Nat /\ Len(p) = n + 1 /\ p[n + 1] = m /\ \A i \in 1 .. n : p[i] = q[i]
  OBVIOUS
<1>1. PICK r \in [0 .. n -> Place] :
          /\ r[0] = row
          /\ \A i \in 1 .. n : r[i] = Shown(r[i - 1], q[i]) /\ NotBehind(r[i - 1], r[i])
          /\ Pictures(r[n], d)
  BY DEF ShowsWell
<1> HIDE DEF n, p
<1> DEFINE t == [i \in 0 .. (n + 1) |-> IF i <= n THEN r[i] ELSE Shown(r[n], m)]
<1>2. Shown(r[n], m) \in Place /\ r[n] \in Place
  BY <1>0, ShownType
<1>3. t \in [0 .. (n + 1) -> Place]
  BY <1>0, <1>2
<1>4. t[0] = row
  BY <1>0, <1>1
<1>5. \A i \in 1 .. (n + 1) : t[i] = Shown(t[i - 1], p[i]) /\ NotBehind(t[i - 1], t[i])
  <2>1. ASSUME NEW i \in 1 .. n PROVE t[i] = Shown(t[i - 1], p[i]) /\ NotBehind(t[i - 1], t[i])
    BY <1>0, <1>1
  <2>2. t[n + 1] = Shown(t[n], m) /\ t[n] = r[n]
    BY <1>0
  <2>3. NotBehind(r[n], Shown(r[n], m))
    BY <1>1, <1>2
  <2>4. p[n + 1] = m /\ (n + 1) - 1 = n /\ \A i \in 1 .. (n + 1) : i \in 1 .. n \/ i = n + 1
    BY <1>0
  <2> HIDE DEF t
  <2> QED BY <2>1, <2>2, <2>3, <2>4
<1>6. Pictures(t[n + 1], d2)
  BY <1>0, <1>1, <1>2
<1> HIDE DEF t
<1>7. ShowsWell(row, p, d2)
  BY <1>0, <1>3, <1>4, <1>5, <1>6 DEF ShowsWell
<1> QED BY <1>7 DEF p

\* Showing the first message goes forward and leaves the end as it was.
LEMMA ShowsWellTail ==
    ASSUME NEW row \in Place, NEW q \in Seq(Message), q # <<>>, NEW d, ShowsWell(row, q, d)
    PROVE  /\ ShowsWell(Shown(row, Head(q)), Tail(q), d)
           /\ NotBehind(row, Shown(row, Head(q)))
<1> DEFINE n == Len(q)
           p == Tail(q)
<1>0. /\ n \in Nat \ {0} /\ Len(p) = n - 1 /\ Head(q) = q[1]
      /\ \A i \in 1 .. (n - 1) : p[i] = q[i + 1]
  OBVIOUS
<1>1. PICK r \in [0 .. n -> Place] :
          /\ r[0] = row
          /\ \A i \in 1 .. n : r[i] = Shown(r[i - 1], q[i]) /\ NotBehind(r[i - 1], r[i])
          /\ Pictures(r[n], d)
  BY DEF ShowsWell
<1> HIDE DEF n, p
<1> DEFINE t == [i \in 0 .. (n - 1) |-> r[i + 1]]
<1>2. t \in [0 .. (n - 1) -> Place]
  BY <1>0
<1>3. t[0] = Shown(row, Head(q))
  BY <1>0, <1>1
<1>4. \A i \in 1 .. (n - 1) : t[i] = Shown(t[i - 1], p[i]) /\ NotBehind(t[i - 1], t[i])
  BY <1>0, <1>1
<1>5. Pictures(t[n - 1], d)
  BY <1>0, <1>1
<1> HIDE DEF t
<1>6. ShowsWell(Shown(row, Head(q)), p, d)
  BY <1>0, <1>2, <1>3, <1>4, <1>5 DEF ShowsWell
<1>7. r[0] = row /\ r[1] = Shown(row, Head(q)) /\ NotBehind(r[0], r[1])
  <2>1. 1 \in 1 .. n /\ 1 - 1 = 0
    BY <1>0
  <2>2. r[1] = Shown(r[1 - 1], q[1]) /\ NotBehind(r[1 - 1], r[1])
    BY <1>1, <2>1
  <2> QED BY <1>0, <1>1, <2>1, <2>2
<1> QED BY <1>6, <1>7 DEF p

\* A message for a call that is not over: the view follows it.
LEMMA ViewedAppend ==
    ASSUME NEW row \in Place, NEW q \in Seq(Message), NEW m \in Message,
           NEW d, NEW d2, NEW s, NEW s2,
           Viewed(row, q, d, s), s # "over", m.event = "Terminated" => s2 = "over",
           \A p \in Place : Pictures(p, d) =>
                               Pictures(Shown(p, m), d2) /\ NotBehind(p, Shown(p, m))
    PROVE  Viewed(row, Append(q, m), d2, s2)
<1>1. ShowsWell(row, Append(q, m), d2)
  BY ShowsWellAppend DEF Viewed
<1>2. EndsLast(row, Append(q, m), s2)
  BY DEF Viewed, EndsLast
<1> QED BY <1>1, <1>2 DEF Viewed

\* The page shows a message: the view is the same, and the row not behind.
LEMMA ViewedTail ==
    ASSUME NEW row \in Place, NEW q \in Seq(Message), q # <<>>, NEW d, NEW s,
           Viewed(row, q, d, s)
    PROVE  Viewed(Shown(row, Head(q)), Tail(q), d, s) /\ NotBehind(row, Shown(row, Head(q)))
<1>1. ShowsWell(Shown(row, Head(q)), Tail(q), d) /\ NotBehind(row, Shown(row, Head(q)))
  BY ShowsWellTail DEF Viewed
<1>2. Head(q) \in Message /\ Head(q) = q[1] /\ 1 \in 1 .. Len(q)
  OBVIOUS
<1>3. \A i \in 1 .. Len(Tail(q)) : Tail(q)[i].event = "Terminated" => i = Len(Tail(q)) /\ s = "over"
  BY DEF Viewed, EndsLast
<1>4. ASSUME Shown(row, Head(q)) # NoRecord, Shown(row, Head(q)).leaving
      PROVE  Tail(q) = <<>> /\ s = "over"
  <2>1. Head(q).event = "Terminated"
    BY <1>2, <1>4, ShownType DEF Viewed, EndsLast
  <2>2. Len(q) = 1 /\ s = "over"
    <3>1. \A i \in 1 .. Len(q) : q[i].event = "Terminated" => i = Len(q) /\ s = "over"
      BY DEF Viewed, EndsLast
    <3> QED BY <1>2, <2>1, <3>1
  <2>3. Tail(q) \in Seq(Message) /\ Len(Tail(q)) = 0
    BY <2>2
  <2>4. \A z \in Seq(Message) : Len(z) = 0 => z = <<>>
    OBVIOUS
  <2>5. Tail(q) = <<>>
    BY <2>3, <2>4
  <2> QED BY <2>2, <2>5
<1> QED BY <1>1, <1>3, <1>4 DEF Viewed, EndsLast

\* A view stays one when the proxy loses the dialog, or a lost call ends.
LEMMA ViewedLost ==
    ASSUME NEW row, NEW q, NEW d, NEW s, NEW s2, Viewed(row, q, d, s),
           d \in State \ {"Terminated"} \/ d = "lost", s = "over" => s2 = "over"
    PROVE  Viewed(row, q, "lost", s2)
<1>1. \A p : Pictures(p, d) => Pictures(p, "lost")
  BY States DEF Pictures
<1>2. ShowsWell(row, q, "lost")
  BY <1>1 DEF Viewed, ShowsWell
<1>3. EndsLast(row, q, s2)
  BY DEF Viewed, EndsLast
<1> QED BY <1>2, <1>3 DEF Viewed

-----------------------------------------------------------------------------
(* The inductive invariant.                                                *)

\* The state of the dialog fits what happens to the call.
DialogFits(c) ==
    /\ sip[c] = "idle" => dlg[c] = "none" /\ ~moved[c]
    /\ sip[c] = "setup" => dlg[c] \in {"Trying", "Proceeding", "Early"}
    /\ sip[c] = "rerouting" => dlg[c] = "Terminated" /\ proxy = "trunks"
    /\ sip[c] = "talking" => dlg[c] \in {"Confirmed", "lost"}
    /\ sip[c] = "over" => dlg[c] \in {"Terminated", "lost"}
    /\ moved[c] => proxy = "users"

Dialogs == \A c \in Call : DialogFits(c)

\* What is published and not handled yet takes the record forward to the dialog.
Traces == \A c \in Call \ unsynced : EndsWell(store[c], ctl[c], dlg[c], moved[c])

\* The last state a connection was told: none before it reads the records,
\* and that of the dialog once it forwards the events of a call not missed.
Told ==
    /\ conn \in {"open", "deaf", "registered", "listed"} => \A c \in Call : sent[c] = "none"
    /\ conn = "forwarding" =>
          \A c \in Call \ missed :
              \/ dlg[c] = "lost"
              \/ sent[c] = dlg[c]
              \/ sent[c] = "none" /\ dlg[c] \in {"none", "Terminated"}

Inv == TypeOK /\ Dialogs /\ Traces /\ Told

\* With an empty queue, what the traces end in is the record itself.
LEMMA TracesImplyRecord == TypeOK /\ Traces => RecordFollowsDialog
<1> SUFFICES ASSUME TypeOK, Traces, NEW c \in Call \ unsynced, ctl[c] = <<>>, dlg[c] # "lost"
             PROVE  IF Expected(c) = "none" THEN store[c] = NoRecord
                    ELSE /\ store[c] # NoRecord
                         /\ store[c].event = dlg[c]
                         /\ moved[c] => store[c].party = "next"
  BY DEF RecordFollowsDialog
<1>1. store[c] \in Slot /\ EndsWell(store[c], <<>>, dlg[c], moved[c])
  BY DEF TypeOK, Traces, Slot
<1>2. Agrees(store[c], dlg[c], moved[c])
  BY <1>1, EndsWellEmpty
<1>3. dlg[c] \in State \cup {"none", "lost"}
  BY DEF TypeOK
<1> QED BY <1>2, <1>3, States DEF Agrees, Expected

-----------------------------------------------------------------------------
(* Publishing.                                                             *)

\* A published message keeps the types of all that it changes.
LEMMA PublishType ==
    ASSUME TypeOK, NEW c \in Call, NEW m \in Message, Publish(c, m)
    PROVE  /\ ctl' \in [Call -> Seq(Message)] /\ wire' \in [Call -> Seq(Message)]
           /\ sent' \in [Call -> State \cup {"none"}]
           /\ UNCHANGED <<store, unsynced, conn, keys, missed, rows>>
<1>1. ctl[c] \in Seq(Message) /\ wire[c] \in Seq(Message)
  BY DEF TypeOK
<1>2. Append(ctl[c], m) \in Seq(Message) /\ Append(wire[c], m) \in Seq(Message)
  BY <1>1
<1>3. NowSent(c, m) \in State \cup {"none"}
  BY DEF NowSent, TypeOK, Message, Event
<1> QED BY <1>2, <1>3 DEF Publish, TypeOK

\* When a message takes agreement with the old state of its call to agreement
\* with the new one, publishing it preserves the traces.
LEMMA PublishTraces ==
    ASSUME TypeOK, Traces, NEW c \in Call, NEW m \in Message, Publish(c, m),
           \A t \in Call \ {c} : dlg'[t] = dlg[t] /\ moved'[t] = moved[t],
           \A s \in Slot : Agrees(s, dlg[c], moved[c]) =>
               Agrees(Updated(s, m), dlg'[c], moved'[c]) /\ NotBehind(s, Updated(s, m))
    PROVE  Traces'
<1> SUFFICES ASSUME NEW t \in Call, t \notin unsynced'
             PROVE  EndsWell(store'[t], ctl'[t], dlg'[t], moved'[t])
  BY DEF Traces, EndsWell
<1>1. t \notin unsynced /\ store'[t] = store[t] /\ store[t] \in Slot /\ ctl[t] \in Seq(Message)
  BY DEF Publish, TypeOK, Slot
<1>2. CASE t = c
  <2>1. ctl'[c] = Append(ctl[c], m)
    BY DEF Publish, TypeOK
  <2>2. EndsWell(store[c], ctl[c], dlg[c], moved[c])
    BY <1>1, <1>2 DEF Traces
  <2>3. EndsWell(store[c], Append(ctl[c], m), dlg'[c], moved'[c])
    BY <1>1, <1>2, <2>2, EndsWellAppend
  <2> QED BY <1>1, <1>2, <2>1, <2>3
<1>3. CASE t # c
  <2>1. ctl'[t] = ctl[t] /\ dlg'[t] = dlg[t] /\ moved'[t] = moved[t]
    BY <1>3 DEF Publish, TypeOK
  <2> QED BY <1>1, <2>1 DEF Traces
<1> QED BY <1>2, <1>3

\* Steps that leave the store, the queues and the dialogs alone, or lose
\* dialogs, keep the traces.
LEMMA TracesStay ==
    ASSUME Traces, UNCHANGED <<store, ctl, unsynced, moved>>,
           \A c \in Call : dlg'[c] = dlg[c] \/ dlg'[c] = "lost"
    PROVE  Traces'
<1>1. ASSUME NEW c \in Call \ unsynced PROVE EndsWell(store[c], ctl[c], dlg'[c], moved[c])
  BY <1>1 DEF Traces, EndsWell, Agrees
<1> QED BY <1>1 DEF Traces, EndsWell

-----------------------------------------------------------------------------
(* What each kind of message does to the record and to the feed.           *)

\* A new attempt starts a record.
LEMMA AgreesSetup ==
    ASSUME NEW s \in Slot, NEW d \in {"none", "Terminated"}, NEW gone, Agrees(s, d, gone)
    PROVE  Agrees(Updated(s, Setup), "Trying", FALSE) /\ NotBehind(s, Updated(s, Setup))
<1>1. Updated(s, Setup) = [event |-> "Trying", time |-> Setup.time, party |-> Setup.party]
  BY Messages DEF Updated
<1>2. Updated(s, Setup) \in Record
  BY <1>1, States DEF Setup, Record, Time, Party
<1>3. Updated(s, Setup) # NoRecord /\ Updated(s, Setup).event = "Trying"
  BY <1>1, <1>2, NoRecordAssumption DEF Record
<1>4. s = NoRecord
  BY DEF Agrees
<1> QED BY <1>3, <1>4 DEF Agrees, NotBehind

\* A later state takes the record with it, or away.
LEMMA AgreesChange ==
    ASSUME NEW s \in Slot, NEW d \in State \ {"Terminated"}, NEW gone, Agrees(s, d, gone),
           NEW event \in State, Rank[event] > Rank[d]
    PROVE  Agrees(Updated(s, Change(event)), event, gone) /\ NotBehind(s, Updated(s, Change(event)))
<1>1. Change(event).event = event /\ event \notin {"UpdateCLID", "none", "lost", "Trying"}
  BY Messages, States DEF Event
<1>2. s \in Record /\ s # NoRecord /\ s.event = d /\ (gone => s.party = "next")
  BY States DEF Agrees, Slot
<1>3. CASE event = "Terminated"
  BY <1>1, <1>3 DEF Agrees, Updated, NotBehind
<1>4. CASE event # "Terminated"
  <2>1. Updated(s, Change(event)) = [s EXCEPT !.event = event]
    BY <1>1, <1>2, <1>4 DEF Updated
  <2>2. [s EXCEPT !.event = event] \in Record
    BY <1>2 DEF Record
  <2>3. [s EXCEPT !.event = event] # NoRecord /\ [s EXCEPT !.event = event].event = event
    BY <1>2, <2>2, NoRecordAssumption DEF Record
  <2>4. NotBehind(s, Updated(s, Change(event)))
    BY <1>2, <2>1, <2>3, States DEF NotBehind
  <2> QED BY <1>1, <1>2, <1>4, <2>1, <2>2, <2>3, <2>4 DEF Agrees, Record
<1> QED BY <1>3, <1>4

\* A change of the party is noted in the record.
LEMMA AgreesParty ==
    ASSUME NEW s \in Slot, NEW d \in State \ {"Terminated"}, NEW gone, Agrees(s, d, gone)
    PROVE  /\ Agrees(Updated(s, Change("UpdateCLID")), d, TRUE)
           /\ NotBehind(s, Updated(s, Change("UpdateCLID")))
<1>1. Change("UpdateCLID").event = "UpdateCLID" /\ Change("UpdateCLID").party = "next"
  BY Messages, States DEF Event
<1>2. s \in Record /\ s # NoRecord /\ s.event = d
  BY States DEF Agrees, Slot
<1>3. Updated(s, Change("UpdateCLID")) = [s EXCEPT !.party = "next"]
  BY <1>1, <1>2 DEF Updated
<1>4. [s EXCEPT !.party = "next"] \in Record
  BY <1>2 DEF Record, Party
<1>5. Updated(s, Change("UpdateCLID")) # NoRecord /\ Updated(s, Change("UpdateCLID")).event = d
  BY <1>2, <1>3, <1>4, NoRecordAssumption DEF Record
<1>6. NotBehind(s, Updated(s, Change("UpdateCLID")))
  BY <1>2, <1>5, States DEF NotBehind
<1> QED BY <1>2, <1>3, <1>4, <1>5, <1>6, States DEF Agrees, Record

\* The end of a lost dialog takes its record away.
LEMMA AgreesLost ==
    ASSUME NEW s \in Slot, NEW gone
    PROVE  /\ Agrees(Updated(s, Change("Terminated")), "lost", gone)
           /\ NotBehind(s, Updated(s, Change("Terminated")))
BY Messages, States DEF Event, Agrees, NotBehind, Updated

\* A message that tells the new state, or changes none, keeps what was told.
LEMMA PublishTold ==
    ASSUME TypeOK, Told, NEW c \in Call, NEW m \in Message, Publish(c, m),
           \A t \in Call \ {c} : dlg'[t] = dlg[t],
           \/ dlg'[c] = "lost"
           \/ m.event # "UpdateCLID" /\ dlg'[c] = m.event
           \/ m.event = "UpdateCLID" /\ dlg'[c] = dlg[c]
    PROVE  Told'
<1>1. conn' = conn /\ missed' = missed
  BY DEF Publish
<1>2. CASE conn # "forwarding"
  BY <1>1, <1>2 DEF Publish, Told
<1>3. CASE conn = "forwarding"
  <2>1. sent' = [sent EXCEPT ![c] = NowSent(c, m)]
    BY <1>3 DEF Publish
  <2>2. sent'[c] = NowSent(c, m) /\ \A t \in Call \ {c} : sent'[t] = sent[t]
    BY <2>1 DEF TypeOK
  <2> QED BY <1>1, <1>3, <2>2 DEF Told, NowSent
<1> QED BY <1>2, <1>3

\* What a connection is told goes forward in this step.
FeedStep ==
    \A c \in Call \ missed' : FeedGoesForward(c)

\* Only the call that is published is told of, with the message's state.
LEMMA PublishFeed ==
    ASSUME TypeOK, NEW c \in Call, NEW m \in Message, Publish(c, m),
           conn = "forwarding" /\ c \notin missed /\ sent[c] # "none"
               /\ m.event # "UpdateCLID" /\ m.event # sent[c] => Follows(sent[c], m.event)
    PROVE  FeedStep
<1>1. missed' = missed
  BY DEF Publish
<1>2. CASE conn # "forwarding"
  BY <1>2 DEF Publish, FeedStep, FeedGoesForward
<1>3. CASE conn = "forwarding"
  <2>1. sent'[c] = NowSent(c, m) /\ \A t \in Call \ {c} : sent'[t] = sent[t]
    BY <1>3 DEF Publish, TypeOK
  <2> QED BY <1>1, <1>3, <2>1 DEF FeedStep, FeedGoesForward, NowSent
<1> QED BY <1>2, <1>3

\* route[REALTIME] for a call whose dialog is known.
LEMMA RealtimeKeeps ==
    ASSUME Inv, NEW c \in Call, NEW event \in State, REALTIME(c, event),
           UNCHANGED moved
    PROVE  /\ dlg' \in [Call -> State \cup {"none", "lost"}]
           /\ \A t \in Call \ {c} : dlg'[t] = dlg[t]
           /\ dlg'[c] = IF Passes(c, event) THEN event ELSE dlg[c]
           /\ ctl' \in [Call -> Seq(Message)] /\ wire' \in [Call -> Seq(Message)]
           /\ sent' \in [Call -> State \cup {"none"}]
           /\ UNCHANGED <<store, unsynced, conn, keys, missed, rows>>
           /\ Traces' /\ Told' /\ FeedStep
<1> DEFINE m == IF event = "Trying" THEN Setup ELSE Change(event)
<1>0. TypeOK /\ Traces /\ Told /\ DialogFits(c)
  BY DEF Inv, Dialogs
<1>1. m \in Message /\ m.event = event /\ m.event # "UpdateCLID"
  BY Messages, States DEF Event
<1> HIDE DEF m
<1>2. CASE ~Passes(c, event)
  <2>1. UNCHANGED <<dlg, storeVars, connVars, rows>>
    BY <1>2 DEF REALTIME
  <2>2. Traces'
    BY <1>0, <2>1, TracesStay DEF storeVars
  <2>3. Told' /\ FeedStep
    BY <1>0, <2>1 DEF Told, FeedStep, FeedGoesForward, connVars
  <2> QED BY <1>0, <1>2, <2>1, <2>2, <2>3 DEF TypeOK, storeVars, connVars
<1>3. CASE Passes(c, event)
  <2>1. dlg' = [dlg EXCEPT ![c] = event] /\ Publish(c, m)
    BY <1>3 DEF REALTIME, m
  <2>2. /\ dlg' \in [Call -> State \cup {"none", "lost"}]
        /\ \A t \in Call \ {c} : dlg'[t] = dlg[t]
        /\ dlg'[c] = event
    BY <1>0, <2>1 DEF TypeOK
  <2>3. dlg[c] \in State /\ dlg[c] # "lost" /\ dlg[c] # "none"
    BY <1>3, States DEF Passes, Known
  <2>4. \A s \in Slot : Agrees(s, dlg[c], moved[c]) =>
                        Agrees(Updated(s, m), dlg'[c], moved'[c]) /\ NotBehind(s, Updated(s, m))
    <3>1. CASE event = "Trying"
      <4>1. dlg[c] = "Terminated" /\ proxy = "trunks"
        BY <1>3, <3>1 DEF Passes
      <4>2. moved[c] = FALSE
        BY <1>0, <4>1 DEF DialogFits, TypeOK
      <4> QED BY <2>2, <3>1, <4>1, <4>2, AgreesSetup DEF m
    <3>2. CASE event # "Trying"
      <4>1. dlg[c] \in State \ {"Terminated"} /\ Rank[event] > Rank[dlg[c]]
        BY <1>3, <2>3, <3>2, States DEF Passes
      <4> QED BY <2>2, <3>2, <4>1, AgreesChange DEF m
    <3> QED BY <3>1, <3>2
  <2>5. Traces'
    BY <1>0, <1>1, <2>1, <2>2, <2>3, <2>4, PublishTraces
  <2>6. Told'
    BY <1>0, <1>1, <2>1, <2>2, PublishTold
  <2>7. FeedStep
    <3>1. conn = "forwarding" /\ c \notin missed /\ sent[c] # "none" => sent[c] = dlg[c]
      BY <1>0, <2>3 DEF Told
    <3>2. Follows(dlg[c], event)
      BY <1>3, States DEF Passes, Follows
    <3> QED BY <1>0, <1>1, <2>1, <3>1, <3>2, PublishFeed
  <2> QED BY <1>0, <1>1, <1>3, <2>1, <2>2, <2>5, <2>6, <2>7, PublishType
<1> QED BY <1>2, <1>3

-----------------------------------------------------------------------------
(* Every step preserves the invariant and feeds connections forward.       *)

\* The steps of the proxy for one call.
LEMMA ProxyKeeps == ASSUME Inv, NEW c \in Call, Proxy(c) PROVE Inv' /\ FeedStep
<1>0. TypeOK /\ Dialogs /\ Traces /\ Told /\ DialogFits(c)
  BY DEF Inv, Dialogs
<1> USE BoundsAssumption
\* One state of the dialog follows another through route[REALTIME].
<1>1. ASSUME NEW event \in State, REALTIME(c, event),
             UNCHANGED <<proxy, moved, bounds>>,
             sip' \in [Call -> {"idle", "setup", "rerouting", "talking", "over"}],
             tried' \in [Call -> 0 .. MaxGateways],
             \A t \in Call \ {c} : sip'[t] = sip[t],
             DialogFits(c)'
      PROVE  Inv' /\ FeedStep
  <2>1. /\ dlg' \in [Call -> State \cup {"none", "lost"}]
        /\ \A t \in Call \ {c} : dlg'[t] = dlg[t]
        /\ ctl' \in [Call -> Seq(Message)] /\ wire' \in [Call -> Seq(Message)]
        /\ sent' \in [Call -> State \cup {"none"}]
        /\ UNCHANGED <<store, unsynced, conn, keys, missed, rows>>
        /\ Traces' /\ Told' /\ FeedStep
    BY <1>1, RealtimeKeeps
  <2>2. TypeOK'
    BY <1>0, <1>1, <2>1 DEF TypeOK, bounds
  <2>3. ASSUME NEW t \in Call, t # c PROVE DialogFits(t)'
    <3>1. DialogFits(t) /\ sip'[t] = sip[t] /\ dlg'[t] = dlg[t] /\ moved'[t] = moved[t] /\ proxy' = proxy
      BY <1>0, <1>1, <2>1, <2>3 DEF Dialogs
    <3> QED BY <3>1 DEF DialogFits
  <2>4. Dialogs'
    BY <1>1, <2>3 DEF Dialogs
  <2> QED BY <2>1, <2>2, <2>4 DEF Inv
<1>2. CASE Invite(c)
  <2>1. /\ sip[c] = "idle" /\ dlg[c] = "none" /\ moved[c] = FALSE
        /\ sip' = [sip EXCEPT ![c] = "setup"] /\ dlg' = [dlg EXCEPT ![c] = "Trying"]
        /\ Publish(c, Setup) /\ UNCHANGED <<proxy, tried, moved, bounds>>
    BY <1>0, <1>2 DEF Invite, DialogFits, TypeOK
  <2>2. /\ dlg'[c] = "Trying" /\ \A t \in Call \ {c} : dlg'[t] = dlg[t] /\ sip'[t] = sip[t]
        /\ sip'[c] = "setup"
    BY <1>0, <2>1 DEF TypeOK
  <2>3. Setup \in Message /\ Setup.event = "Trying"
    BY Messages
  <2>4. \A s \in Slot : Agrees(s, dlg[c], moved[c]) =>
            Agrees(Updated(s, Setup), dlg'[c], moved'[c]) /\ NotBehind(s, Updated(s, Setup))
    BY <2>1, <2>2, AgreesSetup
  <2>5. Traces'
    BY <1>0, <2>1, <2>2, <2>3, <2>4, PublishTraces
  <2>6. Told'
    BY <1>0, <2>1, <2>2, <2>3, PublishTold
  <2>7. FeedStep
    <3>1. ~(conn = "forwarding" /\ c \notin missed /\ sent[c] # "none")
      BY <1>0, <2>1 DEF Told
    <3> QED BY <1>0, <2>1, <2>3, <3>1, PublishFeed
  <2>8. TypeOK'
    <3>1. /\ ctl' \in [Call -> Seq(Message)] /\ wire' \in [Call -> Seq(Message)]
          /\ sent' \in [Call -> State \cup {"none"}]
          /\ UNCHANGED <<store, unsynced, conn, keys, missed, rows>>
      BY <1>0, <2>1, <2>3, PublishType
    <3> QED BY <1>0, <2>1, <3>1, States DEF TypeOK, bounds
  <2>9. Dialogs'
    BY <1>0, <2>1, <2>2 DEF Dialogs, DialogFits
  <2> QED BY <2>5, <2>6, <2>7, <2>8, <2>9 DEF Inv
<1>3. CASE ProvisionalReply(c)
  <2>1. PICK event \in {"Proceeding", "Early"} :
            /\ sip[c] = "setup" /\ Passes(c, event) /\ REALTIME(c, event)
            /\ UNCHANGED <<proxy, sip, tried, moved, bounds>>
    BY <1>3 DEF ProvisionalReply
  <2>2. event \in State /\ dlg'[c] = event
    BY <2>1, <1>0, States, RealtimeKeeps
  <2>3. DialogFits(c)'
    BY <1>0, <2>1, <2>2 DEF DialogFits
  <2> QED BY <1>0, <1>1, <2>1, <2>2, <2>3 DEF TypeOK
<1>4. CASE Answer(c)
  <2>1. /\ sip[c] = "setup" /\ sip' = [sip EXCEPT ![c] = "talking"]
        /\ REALTIME(c, "Confirmed") /\ UNCHANGED <<proxy, tried, moved, bounds>>
    BY <1>4 DEF Answer
  <2>2. Passes(c, "Confirmed")
    BY <1>0, <2>1, States DEF Passes, Known, DialogFits
  <2>3. dlg'[c] = "Confirmed" /\ "Confirmed" \in State
    BY <2>1, <2>2, States, RealtimeKeeps
  <2>4. DialogFits(c)'
    BY <1>0, <2>1, <2>3 DEF DialogFits, TypeOK
  <2> QED BY <1>0, <1>1, <2>1, <2>3, <2>4 DEF TypeOK
<1>5. CASE GatewayFails(c)
  <2>1. /\ proxy = "trunks" /\ sip[c] = "setup" /\ tried[c] < MaxGateways
        /\ sip' = [sip EXCEPT ![c] = "rerouting"]
        /\ tried' = [tried EXCEPT ![c] = tried[c] + 1]
        /\ REALTIME(c, "Terminated") /\ UNCHANGED <<proxy, moved, bounds>>
    BY <1>5 DEF GatewayFails
  <2>2. Passes(c, "Terminated")
    BY <1>0, <2>1, States DEF Passes, Known, DialogFits
  <2>3. dlg'[c] = "Terminated" /\ "Terminated" \in State
    BY <2>1, <2>2, States, RealtimeKeeps
  <2>4. DialogFits(c)'
    BY <1>0, <2>1, <2>3 DEF DialogFits, TypeOK
  <2>5. tried' \in [Call -> 0 .. MaxGateways]
    BY <1>0, <2>1 DEF TypeOK
  <2>6. /\ sip' \in [Call -> {"idle", "setup", "rerouting", "talking", "over"}]
        /\ \A t \in Call \ {c} : sip'[t] = sip[t]
    BY <1>0, <2>1 DEF TypeOK
  <2> QED BY <1>1, <2>1, <2>3, <2>4, <2>5, <2>6
<1>6. CASE NextGateway(c)
  <2>1. /\ sip[c] = "rerouting" /\ sip' = [sip EXCEPT ![c] = "setup"]
        /\ REALTIME(c, "Trying") /\ UNCHANGED <<proxy, tried, moved, bounds>>
    BY <1>6 DEF NextGateway
  <2>2. Passes(c, "Trying")
    BY <1>0, <2>1, States DEF Passes, Known, DialogFits
  <2>3. dlg'[c] = "Trying" /\ "Trying" \in State
    BY <2>1, <2>2, States, RealtimeKeeps
  <2>4. DialogFits(c)'
    BY <1>0, <2>1, <2>3 DEF DialogFits, TypeOK
  <2> QED BY <1>0, <1>1, <2>1, <2>3, <2>4 DEF TypeOK
<1>7. CASE Hangup(c)
  <2>1. /\ sip' = [sip EXCEPT ![c] = "over"] /\ dlg[c] \in State
        /\ REALTIME(c, "Terminated") /\ UNCHANGED <<proxy, tried, moved, bounds>>
    BY <1>7 DEF Hangup, Known
  <2>2. Passes(c, "Terminated") \/ dlg[c] = "Terminated"
    BY <2>1, States DEF Passes, Known
  <2>3. dlg'[c] = "Terminated" /\ "Terminated" \in State
    BY <2>1, <2>2, States, RealtimeKeeps
  <2>4. DialogFits(c)'
    BY <1>0, <2>1, <2>3 DEF DialogFits, TypeOK
  <2> QED BY <1>0, <1>1, <2>1, <2>3, <2>4 DEF TypeOK
<1>8. CASE MoveParty(c)
  <2> DEFINE m == Change("UpdateCLID")
  <2>1. /\ proxy = "users" /\ sip[c] \in {"setup", "talking"} /\ dlg[c] \in State
        /\ moved' = [moved EXCEPT ![c] = TRUE]
        /\ Publish(c, m) /\ UNCHANGED <<proxy, sip, dlg, tried, bounds>>
    BY <1>8 DEF MoveParty, Known
  <2>2. m \in Message /\ m.event = "UpdateCLID"
    BY Messages DEF Event
  <2> HIDE DEF m
  <2>3. dlg[c] \in State \ {"Terminated"} /\ dlg[c] # "lost"
    BY <1>0, <2>1, States DEF DialogFits
  <2>4. moved'[c] = TRUE /\ \A t \in Call \ {c} : moved'[t] = moved[t]
    BY <1>0, <2>1 DEF TypeOK
  <2>5. \A s \in Slot : Agrees(s, dlg[c], moved[c]) =>
            Agrees(Updated(s, m), dlg'[c], moved'[c]) /\ NotBehind(s, Updated(s, m))
    BY <2>1, <2>3, <2>4, AgreesParty DEF m
  <2>6. Traces'
    BY <1>0, <2>1, <2>2, <2>3, <2>4, <2>5, PublishTraces
  <2>7. Told'
    BY <1>0, <2>1, <2>2, PublishTold
  <2>8. FeedStep
    BY <1>0, <2>1, <2>2, PublishFeed
  <2>9. TypeOK'
    <3>1. /\ ctl' \in [Call -> Seq(Message)] /\ wire' \in [Call -> Seq(Message)]
          /\ sent' \in [Call -> State \cup {"none"}]
          /\ UNCHANGED <<store, unsynced, conn, keys, missed, rows>>
      BY <1>0, <2>1, <2>2, PublishType
    <3> QED BY <1>0, <2>1, <3>1 DEF TypeOK, bounds
  <2>10. Dialogs'
    BY <1>0, <2>1, <2>3, <2>4 DEF Dialogs, DialogFits
  <2> QED BY <2>6, <2>7, <2>8, <2>9, <2>10 DEF Inv
<1>9. CASE RT_UNKNOWN_BYE(c)
  <2> DEFINE m == Change("Terminated")
  <2>1. /\ sip[c] = "talking" /\ dlg[c] = "lost" /\ sip' = [sip EXCEPT ![c] = "over"]
        /\ \/ UNCHANGED <<storeVars, connVars, rows>>
           \/ Publish(c, m)
        /\ UNCHANGED <<proxy, dlg, tried, moved, bounds>>
    BY <1>9 DEF RT_UNKNOWN_BYE
  <2>2. m \in Message /\ m.event = "Terminated" /\ m.event # "UpdateCLID"
    BY Messages, States DEF Event
  <2>6. \A s \in Slot : Agrees(Updated(s, m), dlg'[c], moved'[c]) /\ NotBehind(s, Updated(s, m))
    BY <2>1, AgreesLost
  <2> HIDE DEF m
  <2>3. Dialogs'
    BY <1>0, <2>1 DEF Dialogs, DialogFits, TypeOK
  <2>4. CASE UNCHANGED <<storeVars, connVars, rows>>
    <3>1. Traces'
      BY <1>0, <2>1, <2>4, TracesStay DEF storeVars
    <3>2. Told' /\ FeedStep
      BY <1>0, <2>1, <2>4 DEF Told, FeedStep, FeedGoesForward, connVars
    <3>3. TypeOK'
      BY <1>0, <2>1, <2>4 DEF TypeOK, storeVars, connVars, bounds
    <3> QED BY <2>3, <3>1, <3>2, <3>3 DEF Inv
  <2>5. CASE Publish(c, m)
    <3>1. Traces'
      BY <1>0, <2>1, <2>2, <2>5, <2>6, PublishTraces
    <3>2. Told'
      BY <1>0, <2>1, <2>2, <2>5, PublishTold
    <3>3. FeedStep
      <4>1. sent[c] \in State \cup {"none"}
        BY <1>0 DEF TypeOK
      <4>2. sent[c] # "none" /\ m.event # sent[c] => Follows(sent[c], m.event)
        BY <2>2, <4>1, States DEF Follows
      <4> QED BY <1>0, <2>2, <2>5, <4>2, PublishFeed
    <3>4. TypeOK'
      <4>1. /\ ctl' \in [Call -> Seq(Message)] /\ wire' \in [Call -> Seq(Message)]
            /\ sent' \in [Call -> State \cup {"none"}]
            /\ UNCHANGED <<store, unsynced, conn, keys, missed, rows>>
        BY <1>0, <2>2, <2>5, PublishType
      <4> QED BY <1>0, <2>1, <4>1 DEF TypeOK, bounds
    <3> QED BY <2>3, <3>1, <3>2, <3>3, <3>4 DEF Inv
  <2> QED BY <2>1, <2>4, <2>5
<1> QED BY <1>2, <1>3, <1>4, <1>5, <1>6, <1>7, <1>8, <1>9 DEF Proxy

\* A crash of the proxy loses dialogs, and with them the traces.
LEMMA CrashKeeps == ASSUME Inv, CrashProxy PROVE Inv' /\ FeedStep
<1>0. TypeOK /\ Dialogs /\ Traces /\ Told
  BY DEF Inv
<1>1. \A c \in Call : dlg'[c] = dlg[c] \/ dlg'[c] = "lost"
  BY DEF CrashProxy
<1>2. Traces'
  BY <1>0, <1>1, TracesStay DEF CrashProxy, storeVars
<1>3. Told'
  BY <1>0, <1>1 DEF CrashProxy, Told, connVars
<1>4. TypeOK'
  <2>1. sip' \in [Call -> {"idle", "setup", "rerouting", "talking", "over"}]
    BY <1>0 DEF CrashProxy, TypeOK
  <2>2. dlg' \in [Call -> State \cup {"none", "lost"}]
    BY <1>0 DEF CrashProxy, TypeOK
  <2> QED BY <1>0, <2>1, <2>2, BoundsAssumption DEF CrashProxy, TypeOK, storeVars, connVars
<1>5. Dialogs'
  BY <1>0 DEF CrashProxy, Dialogs, DialogFits, TypeOK
<1>6. FeedStep
  BY DEF CrashProxy, FeedStep, FeedGoesForward, connVars
<1> QED BY <1>2, <1>3, <1>4, <1>5, <1>6 DEF Inv

\* The control subscriber handles a message, or a key expires.
LEMMA ServiceKeeps == ASSUME Inv, NEW c \in Call, Service(c) PROVE Inv' /\ FeedStep
<1>0. TypeOK /\ Dialogs /\ Traces /\ Told /\ DialogFits(c)
  BY DEF Inv, Dialogs
<1>1. /\ UNCHANGED <<proxyVars, unsynced, connVars, rows, bounds>>
      /\ \A t \in Call \ {c} : store'[t] = store[t] /\ ctl'[t] = ctl[t]
  BY <1>0 DEF Service, UpdateCurrentCallsStatus, Expire, TypeOK
<1>2. Dialogs' /\ Told' /\ FeedStep
  BY <1>0, <1>1 DEF Dialogs, DialogFits, Told, FeedStep, FeedGoesForward, proxyVars, connVars
<1>3. CASE UpdateCurrentCallsStatus(c)
  <2>1. /\ ctl[c] \in Seq(Message) /\ ctl[c] # <<>> /\ store[c] \in Slot
        /\ Head(ctl[c]) \in Message /\ Tail(ctl[c]) \in Seq(Message)
    BY <1>0, <1>3 DEF UpdateCurrentCallsStatus, TypeOK, Slot
  <2>2. /\ store'[c] = Updated(store[c], Head(ctl[c])) /\ ctl'[c] = Tail(ctl[c])
        /\ store' = [store EXCEPT ![c] = Updated(store[c], Head(ctl[c]))]
        /\ ctl' = [ctl EXCEPT ![c] = Tail(ctl[c])]
    BY <1>0, <1>3 DEF UpdateCurrentCallsStatus, TypeOK
  <2>3. Updated(store[c], Head(ctl[c])) \in Slot
    BY <2>1, UpdatedType
  <2>4. TypeOK'
    BY <1>0, <1>1, <2>1, <2>2, <2>3 DEF TypeOK, Slot, proxyVars, connVars, bounds
  <2>5. Traces'
    <3> SUFFICES ASSUME NEW t \in Call, t \notin unsynced'
                 PROVE  EndsWell(store'[t], ctl'[t], dlg'[t], moved'[t])
      BY DEF Traces, EndsWell
    <3>1. EndsWell(store[t], ctl[t], dlg[t], moved[t]) /\ dlg'[t] = dlg[t] /\ moved'[t] = moved[t]
      BY <1>0, <1>1 DEF Traces, proxyVars
    <3>2. CASE t = c
      BY <2>1, <2>2, <3>1, <3>2, EndsWellTail
    <3>3. CASE t # c
      BY <1>1, <3>1, <3>3
    <3> QED BY <3>2, <3>3
  <2> QED BY <1>2, <2>4, <2>5 DEF Inv
<1>4. CASE Expire(c)
  <2>1. /\ ctl[c] = <<>> /\ store' = [store EXCEPT ![c] = NoRecord] /\ ctl' = ctl
        /\ sip[c] = "over" \/ dlg[c] = "lost"
    BY <1>4 DEF Expire
  <2>2. TypeOK'
    BY <1>0, <1>1, <2>1 DEF TypeOK, proxyVars, connVars, bounds
  <2>3. Traces'
    <3> SUFFICES ASSUME NEW t \in Call, t \notin unsynced'
                 PROVE  EndsWell(store'[t], ctl'[t], dlg'[t], moved'[t])
      BY DEF Traces, EndsWell
    <3>1. EndsWell(store[t], ctl[t], dlg[t], moved[t]) /\ dlg'[t] = dlg[t] /\ moved'[t] = moved[t]
      BY <1>0, <1>1 DEF Traces, proxyVars
    <3>2. CASE t = c
      <4>1. dlg[c] \in {"Terminated", "lost"}
        BY <1>0, <2>1, <3>1, <3>2 DEF DialogFits
      <4>2. store'[c] = NoRecord
        BY <1>0, <2>1 DEF TypeOK
      <4>3. EndsWell(NoRecord, <<>>, dlg[c], moved[c])
        BY <4>1, EndsWellEmpty DEF Agrees, Slot
      <4> QED BY <2>1, <3>1, <3>2, <4>2, <4>3
    <3>3. CASE t # c
      BY <1>1, <3>1, <3>3
    <3> QED BY <3>2, <3>3
  <2> QED BY <1>2, <2>2, <2>3 DEF Inv
<1> QED BY <1>3, <1>4 DEF Service

\* A restart of the service: the calls with messages left are out of step.
LEMMA RestartKeeps == ASSUME Inv, RestartService PROVE Inv' /\ FeedStep
<1>0. TypeOK /\ Dialogs /\ Traces /\ Told
  BY DEF Inv
<1>1. /\ UNCHANGED <<proxyVars, store, sent, missed, rows, crashes, openings>>
      /\ unsynced' = unsynced \cup {c \in Call : ctl[c] # <<>>}
      /\ ctl' = Nothing
      /\ \/ conn' = "closed" /\ keys' = {} /\ wire' = Nothing
         \/ UNCHANGED <<conn, keys, wire>>
      /\ restarts < MaxRestarts /\ restarts' = restarts + 1
  BY DEF RestartService
<1>2. Dialogs' /\ Told' /\ FeedStep
  BY <1>0, <1>1 DEF Dialogs, DialogFits, Told, FeedStep, FeedGoesForward, proxyVars
<1>3. Traces'
  <2> SUFFICES ASSUME NEW t \in Call, t \notin unsynced'
               PROVE  EndsWell(store'[t], ctl'[t], dlg'[t], moved'[t])
    BY DEF Traces, EndsWell
  <2>1. t \notin unsynced /\ ctl[t] = <<>> /\ ctl'[t] = <<>>
    BY <1>1 DEF Nothing
  <2>2. /\ EndsWell(store[t], ctl[t], dlg[t], moved[t])
        /\ store'[t] = store[t] /\ dlg'[t] = dlg[t] /\ moved'[t] = moved[t]
    BY <1>0, <1>1, <2>1 DEF Traces, proxyVars
  <2> QED BY <2>1, <2>2
<1>4. TypeOK'
  <2>1. Nothing \in [Call -> Seq(Message)]
    BY DEF Nothing
  <2>2. restarts' \in 0 .. MaxRestarts
    BY <1>0, <1>1, BoundsAssumption DEF TypeOK
  <2> QED BY <1>0, <1>1, <2>1, <2>2 DEF TypeOK, proxyVars
<1> QED BY <1>2, <1>3, <1>4 DEF Inv

\* The steps of a websocket connection.
LEMMA ConnectionKeeps == ASSUME Inv, Connection PROVE Inv' /\ FeedStep
<1>0. TypeOK /\ Dialogs /\ Traces /\ Told
  BY DEF Inv
<1>1. UNCHANGED <<proxyVars, storeVars, crashes, restarts>>
  BY DEF Connection, Open, Register, Refuse, ListKeys, SendCurrentState, Subscribe, Cut, bounds
<1>2. Dialogs' /\ Traces'
  BY <1>0, <1>1, TracesStay DEF Dialogs, DialogFits, proxyVars, storeVars
<1>3. Nothing \in [Call -> Seq(Message)]
  BY DEF Nothing
<1>4. CASE Open
  <2>1. TypeOK'
    BY <1>0, <1>1, <1>4, BoundsAssumption DEF Open, TypeOK, proxyVars, storeVars
  <2>2. Told'
    BY <1>4 DEF Open, Told
  <2>3. FeedStep
    BY <1>0, <1>4 DEF Open, FeedStep, FeedGoesForward, TypeOK
  <2> QED BY <1>2, <2>1, <2>2, <2>3 DEF Inv
<1>5. CASE Register \/ Refuse \/ ListKeys \/ Cut
  <2>1. TypeOK'
    BY <1>0, <1>1, <1>3, <1>5
       DEF Register, Refuse, ListKeys, Cut, TypeOK, proxyVars, storeVars, bounds
  <2>2. Told'
    BY <1>0, <1>5 DEF Register, Refuse, ListKeys, Cut, Told
  <2>3. FeedStep
    BY <1>5 DEF Register, Refuse, ListKeys, Cut, FeedStep, FeedGoesForward
  <2> QED BY <1>2, <2>1, <2>2, <2>3 DEF Inv
<1>6. CASE SendCurrentState
  <2> DEFINE found == IF \E c \in keys : store[c] = NoRecord THEN {} ELSE keys
  <2>1. /\ found \in SUBSET Call
        /\ \A c \in found : store[c] # NoRecord
        /\ wire' = [c \in Call |-> IF c \in found
              THEN <<[full |-> TRUE, event |-> store[c].event,
                      time |-> store[c].time, party |-> store[c].party]>>
              ELSE <<>>]
        /\ sent' = [c \in Call |-> IF c \in found THEN store[c].event ELSE "none"]
    BY <1>0, <1>6 DEF SendCurrentState, TypeOK
  <2> HIDE DEF found
  <2>2. /\ conn = "listed" /\ conn' = "read" /\ keys' = {}
        /\ UNCHANGED <<proxyVars, storeVars, missed, rows, bounds>>
    BY <1>6 DEF SendCurrentState
  <2>3. \A c \in found : store[c] \in Record /\ store[c].event \in State
    BY <1>0, <2>1 DEF TypeOK, Record
  <2>4. \A c \in found : [full |-> TRUE, event |-> store[c].event, time |-> store[c].time,
                          party |-> store[c].party] \in Message
    BY <2>3, States DEF Record, Message, Event
  <2>5. wire' \in [Call -> Seq(Message)] /\ sent' \in [Call -> State \cup {"none"}]
    <3>1. \A m \in Message : <<m>> \in Seq(Message)
      OBVIOUS
    <3>2. \A c \in found : <<[full |-> TRUE, event |-> store[c].event, time |-> store[c].time,
                               party |-> store[c].party]>> \in Seq(Message)
      BY <2>4, <3>1
    <3>3. wire' \in [Call -> Seq(Message)]
      BY <2>1, <3>2
    <3> QED BY <2>1, <2>3, <3>3
  <2>6. TypeOK'
    BY <1>0, <2>2, <2>5 DEF TypeOK, proxyVars, storeVars, bounds
  <2>7. Told' /\ FeedStep
    BY <1>0, <2>2 DEF Told, FeedStep, FeedGoesForward
  <2> QED BY <1>2, <2>6, <2>7 DEF Inv
<1>7. CASE Subscribe
  <2>1. /\ conn' = "forwarding" /\ missed' = {c \in Call : sent[c] # Expected(c)}
        /\ UNCHANGED <<proxyVars, storeVars, keys, wire, sent, rows, bounds>>
    BY <1>7 DEF Subscribe
  <2>2. TypeOK'
    BY <1>0, <2>1 DEF TypeOK, proxyVars, storeVars, bounds
  <2>3. Told'
    BY <2>1 DEF Told, Expected, proxyVars
  <2>4. FeedStep
    BY <2>1 DEF FeedStep, FeedGoesForward
  <2> QED BY <1>2, <2>2, <2>3, <2>4 DEF Inv
<1> QED BY <1>4, <1>5, <1>6, <1>7 DEF Connection

\* The page shows messages, and takes rows away.
LEMMA PageKeeps == ASSUME Inv, NEW c \in Call, Page(c) PROVE Inv' /\ FeedStep
<1>0. TypeOK /\ Dialogs /\ Traces /\ Told
  BY DEF Inv
<1>1. UNCHANGED <<proxyVars, storeVars, conn, keys, sent, missed, bounds>>
  BY DEF Page, InsertData, HideRow, TimeRefresh, connVars
<1>2. Dialogs' /\ Traces' /\ Told' /\ FeedStep
  BY <1>0, <1>1, TracesStay DEF Dialogs, DialogFits, Told, FeedStep, FeedGoesForward, proxyVars, storeVars
<1>3. rows' \in [Call -> Place] /\ wire' \in [Call -> Seq(Message)]
  <2>1. CASE InsertData(c)
    <3>1. wire[c] \in Seq(Message) /\ wire[c] # <<>> /\ rows[c] \in Place
      BY <1>0, <2>1 DEF InsertData, TypeOK, Place
    <3>2. Head(wire[c]) \in Message /\ Tail(wire[c]) \in Seq(Message)
      BY <3>1
    <3>3. Shown(rows[c], Head(wire[c])) \in Place
      BY <3>1, <3>2, ShownType
    <3> QED BY <1>0, <2>1, <3>2, <3>3 DEF InsertData, TypeOK, Place
  <2>2. CASE HideRow(c) \/ TimeRefresh(c)
    BY <1>0, <2>2 DEF HideRow, TimeRefresh, TypeOK, Place, connVars
  <2> QED BY <2>1, <2>2 DEF Page
<1>4. TypeOK'
  BY <1>0, <1>1, <1>3 DEF TypeOK, Place, proxyVars, storeVars, bounds
<1> QED BY <1>2, <1>4 DEF Inv

-----------------------------------------------------------------------------
LEMMA Inductive == Inv /\ [Next]_vars => Inv' /\ [FeedStep]_vars
<1> SUFFICES ASSUME Inv, [Next]_vars PROVE Inv' /\ [FeedStep]_vars
  OBVIOUS
<1>1. CASE Next
  BY <1>1, ProxyKeeps, ServiceKeeps, PageKeeps, ConnectionKeeps, CrashKeeps, RestartKeeps DEF Next
<1>2. CASE UNCHANGED vars
  <2>1. TypeOK' /\ Dialogs' /\ Told'
    BY <1>2 DEF vars, proxyVars, storeVars, connVars, bounds, Inv, TypeOK, Dialogs, DialogFits, Told
  <2>2. Traces'
    BY <1>2, TracesStay DEF vars, proxyVars, storeVars, Inv
  <2> QED BY <1>2, <2>1, <2>2 DEF Inv
<1> QED BY <1>1, <1>2

LEMMA Initial == Init => Inv
<1> SUFFICES ASSUME Init PROVE Inv
  OBVIOUS
<1>1. TypeOK /\ Dialogs /\ Told
  BY BoundsAssumption DEF Init, TypeOK, Dialogs, DialogFits, Told, Nothing
<1>2. Traces
  <2> SUFFICES ASSUME NEW c \in Call PROVE EndsWell(store[c], ctl[c], dlg[c], moved[c])
    BY DEF Traces
  <2>1. store[c] = NoRecord /\ ctl[c] = <<>> /\ dlg[c] = "none"
    BY DEF Init, Nothing
  <2>2. NoRecord \in Slot /\ Agrees(NoRecord, "none", moved[c])
    BY DEF Slot, Agrees
  <2> QED BY <2>1, <2>2, EndsWellEmpty
<1> QED BY <1>1, <1>2 DEF Inv

LEMMA Invariance == Spec => []Inv
<1>1. Inv /\ [Next]_vars => Inv'
  BY Inductive
<1> QED BY <1>1, Initial, PTL DEF Spec

\* Every state is well typed: a Redis record, a row and a published event
\* always say what they should say of a call.
THEOREM TypeCorrect == Spec => []TypeOK
BY Invariance, PTL DEF Inv

\* Once the control subscriber has handled what was published, Redis agrees
\* with the proxy's dialog (route[REALTIME], updateCurrentCallsStatus).
THEOREM RecordsFollow == Spec => []RecordFollowsDialog
<1>1. Inv => RecordFollowsDialog
  BY TracesImplyRecord DEF Inv
<1> QED BY <1>1, Invariance, PTL

\* The record of a call whose events were all received goes forward.
LEMMA RecordStep == Inv /\ [Next]_vars => \A c \in Call \ unsynced' : NotBehind(store[c], store'[c])
<1> SUFFICES ASSUME Inv, [Next]_vars, NEW c \in Call \ unsynced' PROVE NotBehind(store[c], store'[c])
  OBVIOUS
<1>0. TypeOK /\ Traces
  BY DEF Inv
<1>1. CASE store'[c] = store[c]
  <2>1. store[c] # NoRecord => store[c].event \in State
    BY <1>0 DEF TypeOK, Record
  <2> QED BY <1>1, <2>1, States DEF NotBehind
<1>2. CASE UpdateCurrentCallsStatus(c)
  <2>1. /\ store'[c] = Updated(store[c], Head(ctl[c])) /\ unsynced' = unsynced
        /\ ctl[c] \in Seq(Message) /\ ctl[c] # <<>> /\ store[c] \in Slot
    BY <1>0, <1>2 DEF UpdateCurrentCallsStatus, TypeOK, Slot
  <2>2. EndsWell(store[c], ctl[c], dlg[c], moved[c])
    BY <1>0, <2>1 DEF Traces
  <2>3. NotBehind(store[c], Updated(store[c], Head(ctl[c])))
    BY <2>1, <2>2, EndsWellTail
  <2> QED BY <2>1, <2>3 DEF NotBehind
<1>3. CASE Expire(c)
  BY <1>0, <1>3 DEF Expire, TypeOK, NotBehind
<1>4. ASSUME NEW t \in Call \ {c}, Service(t) PROVE store'[c] = store[c]
  BY <1>0, <1>4 DEF Service, UpdateCurrentCallsStatus, Expire, TypeOK
<1>5. ASSUME NEW t \in Call, Proxy(t) PROVE store' = store
  BY <1>5 DEF Proxy, Invite, ProvisionalReply, Answer, GatewayFails, NextGateway, Hangup,
              MoveParty, RT_UNKNOWN_BYE, REALTIME, Publish, storeVars
<1>6. ASSUME NEW t \in Call, Page(t) PROVE store' = store
  BY <1>6 DEF Page, InsertData, HideRow, TimeRefresh, storeVars
<1>7. ASSUME Connection \/ CrashProxy \/ RestartService PROVE store' = store
  BY <1>7 DEF Connection, Open, Register, Refuse, ListKeys, SendCurrentState, Subscribe, Cut,
              CrashProxy, RestartService, storeVars
<1>8. CASE UNCHANGED vars
  BY <1>1, <1>8 DEF vars, storeVars
<1> QED BY <1>1, <1>2, <1>3, <1>4, <1>5, <1>6, <1>7, <1>8 DEF Next, Service

-----------------------------------------------------------------------------
(* The page: an invariant over the first one.                              *)

\* Another gateway is sought only after one has failed.
Retried == \A c \in Call : sip[c] = "rerouting" => tried[c] # 0

\* The view of an open connection: empty until the records are read; then one
\* message at most, of the state that was read, as long as the call goes on; and
\* of the dialog, for the calls that are followed and that no gateway refused.
Views ==
    /\ conn \notin {"read", "forwarding"} => \A c \in Call : wire[c] = <<>>
    /\ conn \in {"open", "deaf", "registered", "listed"} => \A c \in Call : rows[c] = NoRecord
    /\ conn = "read" => \A c \in Call :
          /\ wire[c] = <<>> \/ (Len(wire[c]) = 1 /\ rows[c] = NoRecord)
          /\ sent[c] = "none" => wire[c] = <<>> /\ rows[c] = NoRecord
          /\ sent[c] \in State \ {"Terminated"} /\ sip[c] # "over" /\ dlg[c] # "lost"
                => Viewed(rows[c], wire[c], sent[c], sip[c])
    /\ conn = "forwarding" => \A c \in Call \ missed :
          tried[c] = 0 => Viewed(rows[c], wire[c], dlg[c], sip[c])

PageInv == Inv /\ Retried /\ Views

\* What is seen on the page when no message is on its way.
LEMMA ViewsImplyQuiet == PageInv => QuietViewIsCurrent
<1> SUFFICES ASSUME PageInv, conn = "forwarding", NEW c \in Call \ missed,
                    wire[c] = <<>>, dlg[c] # "lost", tried[c] = 0
             PROVE  IF Expected(c) = "none" THEN rows[c] = NoRecord \/ rows[c].leaving
                    ELSE /\ rows[c] # NoRecord /\ ~rows[c].leaving
                         /\ rows[c].full /\ rows[c].event = dlg[c]
  BY DEF QuietViewIsCurrent
<1>1. rows[c] \in Place /\ dlg[c] \in State \cup {"none", "lost"}
  BY DEF PageInv, Inv, TypeOK, Place
<1>2. ShowsWell(rows[c], <<>>, dlg[c])
  BY DEF PageInv, Views, Viewed
<1>3. Pictures(rows[c], dlg[c])
  BY <1>1, <1>2, ShowsWellEmpty
<1> QED BY <1>1, <1>3, States DEF Pictures, Expected

\* Views that nothing has reached: a call that is over stays over, and a dialog
\* that is followed is the same or lost.
LEMMA ViewsStay ==
    ASSUME Views, UNCHANGED <<wire, rows, conn, sent, missed>>,
           \A c \in Call : sip'[c] # "over" /\ dlg'[c] # "lost" => sip[c] # "over" /\ dlg[c] # "lost",
           \A c \in Call : tried'[c] = 0 =>
               /\ tried[c] = 0
               /\ sip[c] = "over" => sip'[c] = "over"
               /\ \/ dlg'[c] = dlg[c]
                  \/ dlg'[c] = "lost" /\ dlg[c] \in State \ {"Terminated"}
    PROVE  Views'
<1>1. /\ conn' \notin {"read", "forwarding"} => \A c \in Call : wire'[c] = <<>>
      /\ conn' \in {"open", "deaf", "registered", "listed"} => \A c \in Call : rows'[c] = NoRecord
  BY DEF Views
<1>2. ASSUME conn' = "read", NEW c \in Call
      PROVE  /\ wire'[c] = <<>> \/ (Len(wire'[c]) = 1 /\ rows'[c] = NoRecord)
             /\ sent'[c] = "none" => wire'[c] = <<>> /\ rows'[c] = NoRecord
             /\ sent'[c] \in State \ {"Terminated"} /\ sip'[c] # "over" /\ dlg'[c] # "lost"
                   => Viewed(rows'[c], wire'[c], sent'[c], sip'[c])
  <2>1. sip'[c] # "over" /\ dlg'[c] # "lost" => sip[c] # "over" /\ dlg[c] # "lost"
    OBVIOUS
  <2>2. sip[c] # "over" /\ Viewed(rows[c], wire[c], sent[c], sip[c])
            => Viewed(rows[c], wire[c], sent[c], sip'[c])
    BY DEF Viewed, EndsLast
  <2> QED BY <1>2, <2>1, <2>2 DEF Views
<1>3. ASSUME conn' = "forwarding", NEW c \in Call \ missed', tried'[c] = 0
      PROVE  Viewed(rows'[c], wire'[c], dlg'[c], sip'[c])
  <2>1. /\ Viewed(rows[c], wire[c], dlg[c], sip[c])
        /\ sip[c] = "over" => sip'[c] = "over"
    BY <1>3 DEF Views
  <2>2. CASE dlg'[c] = dlg[c]
    BY <2>1, <2>2 DEF Viewed, EndsLast
  <2>3. CASE dlg'[c] = "lost" /\ dlg[c] \in State \ {"Terminated"}
    BY <2>1, <2>3, ViewedLost
  <2> QED BY <1>3, <2>2, <2>3
<1> QED BY <1>1, <1>2, <1>3 DEF Views, Viewed, ShowsWell, EndsLast

\* Publishing what a picture of the dialog follows.
LEMMA PublishViews ==
    ASSUME TypeOK, Views, NEW c \in Call, NEW m \in Message, Publish(c, m),
           \A t \in Call \ {c} : sip'[t] = sip[t] /\ dlg'[t] = dlg[t] /\ tried'[t] = tried[t],
           sip'[c] # "over" /\ dlg'[c] # "lost" => sip[c] # "over" /\ dlg[c] # "lost",
           tried'[c] = 0 =>
               /\ tried[c] = 0 /\ sip[c] # "over"
               /\ m.event = "Terminated" => sip'[c] = "over"
               /\ \A p \in Place : Pictures(p, dlg[c]) =>
                      Pictures(Shown(p, m), dlg'[c]) /\ NotBehind(p, Shown(p, m))
    PROVE  Views'
<1>0. rows[c] \in Place /\ wire[c] \in Seq(Message)
  BY DEF TypeOK, Place
<1>1. conn' = conn /\ missed' = missed /\ rows' = rows
  BY DEF Publish
<1>2. /\ conn # "forwarding" => wire' = wire /\ sent' = sent
      /\ conn = "forwarding" => wire' = [wire EXCEPT ![c] = Append(wire[c], m)]
  BY DEF Publish
<1>3. /\ conn' \notin {"read", "forwarding"} => \A t \in Call : wire'[t] = <<>>
      /\ conn' \in {"open", "deaf", "registered", "listed"} => \A t \in Call : rows'[t] = NoRecord
  BY <1>1, <1>2 DEF Views
<1>4. ASSUME conn' = "read", NEW t \in Call
      PROVE  /\ wire'[t] = <<>> \/ (Len(wire'[t]) = 1 /\ rows'[t] = NoRecord)
             /\ sent'[t] = "none" => wire'[t] = <<>> /\ rows'[t] = NoRecord
             /\ sent'[t] \in State \ {"Terminated"} /\ sip'[t] # "over" /\ dlg'[t] # "lost"
                   => Viewed(rows'[t], wire'[t], sent'[t], sip'[t])
  <2>1. wire' = wire /\ sent' = sent
    BY <1>1, <1>2, <1>4
  <2>2. sip'[t] # "over" /\ dlg'[t] # "lost" => sip[t] # "over" /\ dlg[t] # "lost"
    OBVIOUS
  <2>3. sip[t] # "over" /\ Viewed(rows[t], wire[t], sent[t], sip[t])
            => Viewed(rows[t], wire[t], sent[t], sip'[t])
    BY DEF Viewed, EndsLast
  <2> QED BY <1>1, <1>4, <2>1, <2>2, <2>3 DEF Views
<1>5. ASSUME conn' = "forwarding", NEW t \in Call \ missed', tried'[t] = 0
      PROVE  Viewed(rows'[t], wire'[t], dlg'[t], sip'[t])
  <2>1. CASE t = c
    <3>1. wire'[c] = Append(wire[c], m)
      BY <1>1, <1>2, <1>5 DEF TypeOK
    <3>2. Viewed(rows[c], wire[c], dlg[c], sip[c])
      BY <1>1, <1>5, <2>1 DEF Views
    <3>3. Viewed(rows[c], Append(wire[c], m), dlg'[c], sip'[c])
      BY <1>0, <1>5, <2>1, <3>2, ViewedAppend
    <3> QED BY <1>1, <2>1, <3>1, <3>3
  <2>2. CASE t # c
    <3>1. wire'[t] = wire[t]
      BY <1>1, <1>2, <1>5, <2>2 DEF TypeOK
    <3> QED BY <1>1, <1>5, <2>2, <3>1 DEF Views
  <2> QED BY <2>1, <2>2
<1> QED BY <1>3, <1>4, <1>5 DEF Views, Viewed, ShowsWell, EndsLast

\* A picture of a dialog that has not begun, shown its set-up.
LEMMA PictureSetup ==
    ASSUME NEW s \in Place, Pictures(s, "none")
    PROVE  Pictures(Shown(s, Setup), "Trying") /\ NotBehind(s, Shown(s, Setup))
<1>1. s = NoRecord
  BY DEF Pictures
<1>2. Shown(s, Setup) = [full |-> TRUE, event |-> "Trying", time |-> "setup",
                         party |-> "first", leaving |-> FALSE]
  BY <1>1 DEF Shown, NewRow, Setup
<1>3. Shown(s, Setup) \in Row
  BY <1>2, States DEF Row, Time, Party
<1>4. Shown(s, Setup) # NoRecord
  BY <1>3, NoRecordAssumption DEF Row
<1> QED BY <1>1, <1>2, <1>4 DEF Pictures, NotBehind

\* A later state is pictured, or the row leaves.
LEMMA PictureChange ==
    ASSUME NEW s \in Place, NEW d \in State \ {"Terminated"}, Pictures(s, d),
           NEW event \in State, Rank[event] > Rank[d]
    PROVE  Pictures(Shown(s, Change(event)), event) /\ NotBehind(s, Shown(s, Change(event)))
<1>1. Change(event).event = event /\ event \notin {"UpdateCLID", "none", "lost"} /\ event \in State
      /\ Change(event).time \in Time
  BY Messages, States DEF Event, Change, Time
<1>2. s \in Row /\ s # NoRecord /\ ~s.leaving /\ s.full /\ s.event = d
  BY States DEF Pictures, Place
<1>3. CASE event = "Terminated"
  <2>1. Shown(s, Change(event)) = [s EXCEPT !.event = event, !.leaving = TRUE]
    BY <1>1, <1>2, <1>3 DEF Shown
  <2>2. LET row == [s EXCEPT !.event = event, !.leaving = TRUE] IN row.leaving /\ row.event = event
    BY <1>2 DEF Row
  <2> QED BY <1>2, <1>3, <2>1, <2>2 DEF Pictures, NotBehind
<1>4. CASE event # "Terminated"
  <2>1. \/ Shown(s, Change(event)) = [s EXCEPT !.event = event]
        \/ Shown(s, Change(event)) = [s EXCEPT !.event = event, !.time = Change(event).time]
    BY <1>1, <1>2, <1>4 DEF Shown
  <2>2. Shown(s, Change(event)) \in Row
    <3>1. [s EXCEPT !.event = event] \in Row
      BY <1>1, <1>2 DEF Row
    <3>2. [s EXCEPT !.event = event, !.time = Change(event).time] \in Row
      BY <1>1, <1>2 DEF Row
    <3> QED BY <2>1, <3>1, <3>2
  <2>3. LET row == Shown(s, Change(event)) IN ~row.leaving /\ row.full /\ row.event = event
    BY <1>1, <1>2, <2>1 DEF Row
  <2>4. Shown(s, Change(event)) # NoRecord
    BY <2>2, NoRecordAssumption DEF Row
  <2> QED BY <1>1, <1>2, <1>4, <2>3, <2>4 DEF Pictures, NotBehind
<1> QED BY <1>3, <1>4

\* A change of the party leaves the picture of the state as it is.
LEMMA PictureParty ==
    ASSUME NEW s \in Place, NEW d \in State \ {"Terminated"}, Pictures(s, d)
    PROVE  /\ Pictures(Shown(s, Change("UpdateCLID")), d)
           /\ NotBehind(s, Shown(s, Change("UpdateCLID")))
<1>1. Change("UpdateCLID").event = "UpdateCLID" /\ Change("UpdateCLID").party \in Party
  BY Messages, States DEF Event, Party
<1>2. s \in Row /\ s # NoRecord /\ ~s.leaving /\ s.full /\ s.event = d
  BY States DEF Pictures, Place
<1>3. Shown(s, Change("UpdateCLID")) = [s EXCEPT !.party = Change("UpdateCLID").party]
  BY <1>1, <1>2 DEF Shown
<1>4. Shown(s, Change("UpdateCLID")) \in Row
  BY <1>1, <1>2, <1>3 DEF Row
<1>5. LET row == Shown(s, Change("UpdateCLID")) IN ~row.leaving /\ row.full /\ row.event = d
  BY <1>2, <1>3 DEF Row
<1>6. Shown(s, Change("UpdateCLID")) # NoRecord
  BY <1>4, NoRecordAssumption DEF Row
<1> QED BY <1>2, <1>5, <1>6, States DEF Pictures, NotBehind

\* The end of a lost dialog makes the row leave, if there is one.
LEMMA PictureLost ==
    ASSUME NEW s \in Place, Pictures(s, "lost")
    PROVE  /\ Pictures(Shown(s, Change("Terminated")), "lost")
           /\ NotBehind(s, Shown(s, Change("Terminated")))
<1>1. Change("Terminated").event = "Terminated"
  BY Messages, States DEF Event
<1>2. CASE s = NoRecord
  BY <1>1, <1>2 DEF Shown, NewRow, Pictures, NotBehind
<1>3. CASE s # NoRecord
  <2>1. s \in Row /\ s.event \in State
    BY <1>3 DEF Pictures, Place
  <2>2. Shown(s, Change("Terminated")) = [s EXCEPT !.event = "Terminated", !.leaving = TRUE]
    BY <1>1, <1>3, States DEF Shown
  <2>3. Shown(s, Change("Terminated")).event = "Terminated"
    BY <2>1, <2>2 DEF Row
  <2> QED BY <2>1, <2>3, States DEF Pictures, NotBehind
<1> QED BY <1>2, <1>3

\* route[REALTIME] and the views: a Trying after a failed gateway is excepted.
LEMMA RealtimeViews ==
    ASSUME PageInv, NEW c \in Call, NEW event \in State, REALTIME(c, event),
           \A t \in Call \ {c} : sip'[t] = sip[t] /\ tried'[t] = tried[t],
           sip[c] # "over",
           tried'[c] = 0 =>
               /\ tried[c] = 0 /\ event # "Trying"
               /\ event = "Terminated" => sip'[c] = "over"
    PROVE  Views'
<1> DEFINE m == IF event = "Trying" THEN Setup ELSE Change(event)
<1>0. TypeOK /\ Views
  BY DEF PageInv, Inv
<1>1. CASE ~Passes(c, event)
  BY <1>0, <1>1, ViewsStay DEF REALTIME, connVars
<1>2. CASE Passes(c, event)
  <2>1. dlg' = [dlg EXCEPT ![c] = event] /\ Publish(c, m) /\ dlg[c] \in State
    BY <1>2 DEF REALTIME, Passes, Known
  <2>2. m \in Message /\ m.event = event
    BY Messages, States DEF Event
  <2>3. /\ dlg'[c] = event /\ \A t \in Call \ {c} : dlg'[t] = dlg[t]
        /\ dlg[c] # "lost"
    BY <1>0, <2>1, States DEF TypeOK
  <2>4. ASSUME tried'[c] = 0
        PROVE  /\ tried[c] = 0 /\ event = "Terminated" => sip'[c] = "over"
               /\ \A p \in Place : Pictures(p, dlg[c]) =>
                      Pictures(Shown(p, m), dlg'[c]) /\ NotBehind(p, Shown(p, m))
    <3>1. event \in State \ {"Trying"} /\ m = Change(event) /\ tried[c] = 0
      BY <2>4
    <3>2. dlg[c] \in State \ {"Terminated"} /\ Rank[event] > Rank[dlg[c]]
      BY <1>2, <2>1, <3>1, States DEF Passes
    <3> QED BY <2>3, <2>4, <3>1, <3>2, PictureChange
  <2> HIDE DEF m
  <2> QED BY <1>0, <2>1, <2>2, <2>3, <2>4, PublishViews
<1> QED BY <1>1, <1>2

\* The steps of the proxy.
LEMMA ProxyViews == ASSUME PageInv, NEW c \in Call, Proxy(c) PROVE Retried' /\ Views'
<1>0. TypeOK /\ Views /\ Retried /\ DialogFits(c)
  BY DEF PageInv, Inv, Dialogs
<1>1. CASE Invite(c)
  <2>1. /\ sip[c] = "idle" /\ dlg[c] = "none"
        /\ sip' = [sip EXCEPT ![c] = "setup"] /\ dlg' = [dlg EXCEPT ![c] = "Trying"]
        /\ Publish(c, Setup) /\ tried' = tried
    BY <1>0, <1>1 DEF Invite, DialogFits
  <2>2. Setup \in Message /\ Setup.event = "Trying"
    BY Messages
  <2>3. /\ dlg'[c] = "Trying" /\ sip'[c] = "setup"
        /\ \A t \in Call \ {c} : sip'[t] = sip[t] /\ dlg'[t] = dlg[t] /\ tried'[t] = tried[t]
    BY <1>0, <2>1 DEF TypeOK
  <2>4. \A p \in Place : Pictures(p, dlg[c]) =>
            Pictures(Shown(p, Setup), dlg'[c]) /\ NotBehind(p, Shown(p, Setup))
    BY <2>1, <2>3, PictureSetup
  <2>5. Views'
    BY <1>0, <2>1, <2>2, <2>3, <2>4, PublishViews
  <2>6. Retried'
    BY <1>0, <2>1, <2>3 DEF Retried
  <2> QED BY <2>5, <2>6
<1>2. CASE ProvisionalReply(c)
  <2>1. PICK event \in {"Proceeding", "Early"} : REALTIME(c, event)
    BY <1>2 DEF ProvisionalReply
  <2>2. sip' = sip /\ tried' = tried /\ sip[c] = "setup"
    BY <1>2 DEF ProvisionalReply
  <2>3. event \in State \ {"Trying"}
    BY States
  <2>4. Views'
    BY <2>1, <2>2, <2>3, RealtimeViews
  <2> QED BY <1>0, <2>2, <2>4 DEF Retried
<1>3. CASE Answer(c)
  <2>1. /\ sip[c] = "setup" /\ sip' = [sip EXCEPT ![c] = "talking"]
        /\ REALTIME(c, "Confirmed") /\ tried' = tried
    BY <1>3 DEF Answer
  <2>2. sip'[c] = "talking" /\ \A t \in Call \ {c} : sip'[t] = sip[t] /\ tried'[t] = tried[t]
    BY <1>0, <2>1 DEF TypeOK
  <2>3. Views'
    BY <2>1, <2>2, States, RealtimeViews
  <2> QED BY <1>0, <2>1, <2>2, <2>3 DEF Retried
<1>4. CASE GatewayFails(c)
  <2>1. /\ sip[c] = "setup" /\ sip' = [sip EXCEPT ![c] = "rerouting"]
        /\ tried' = [tried EXCEPT ![c] = tried[c] + 1]
        /\ REALTIME(c, "Terminated")
    BY <1>4 DEF GatewayFails
  <2>2. /\ sip'[c] = "rerouting" /\ tried'[c] = tried[c] + 1
        /\ \A t \in Call \ {c} : sip'[t] = sip[t] /\ tried'[t] = tried[t]
    BY <1>0, <2>1 DEF TypeOK
  <2>3. tried[c] \in 0 .. MaxGateways
    BY <1>0 DEF TypeOK
  <2>4. tried'[c] # 0
    BY <2>2, <2>3
  <2>5. Views'
    BY <2>1, <2>2, <2>4, States, RealtimeViews
  <2> QED BY <1>0, <2>2, <2>4, <2>5 DEF Retried
<1>5. CASE NextGateway(c)
  <2>1. /\ sip[c] = "rerouting" /\ sip' = [sip EXCEPT ![c] = "setup"]
        /\ REALTIME(c, "Trying") /\ tried' = tried
    BY <1>5 DEF NextGateway
  <2>2. /\ sip'[c] = "setup" /\ tried'[c] # 0
        /\ \A t \in Call \ {c} : sip'[t] = sip[t] /\ tried'[t] = tried[t]
    BY <1>0, <2>1 DEF TypeOK, Retried
  <2>3. Views'
    BY <2>1, <2>2, States, RealtimeViews
  <2> QED BY <1>0, <2>1, <2>2, <2>3 DEF Retried
<1>6. CASE Hangup(c)
  <2>1. /\ sip[c] # "over" /\ sip' = [sip EXCEPT ![c] = "over"]
        /\ REALTIME(c, "Terminated") /\ tried' = tried
    BY <1>6 DEF Hangup
  <2>2. sip'[c] = "over" /\ \A t \in Call \ {c} : sip'[t] = sip[t] /\ tried'[t] = tried[t]
    BY <1>0, <2>1 DEF TypeOK
  <2>3. Views'
    BY <2>1, <2>2, States, RealtimeViews
  <2> QED BY <1>0, <2>1, <2>2, <2>3 DEF Retried
<1>7. CASE MoveParty(c)
  <2> DEFINE m == Change("UpdateCLID")
  <2>1. /\ sip[c] \in {"setup", "talking"} /\ dlg[c] \in State
        /\ Publish(c, m) /\ UNCHANGED <<sip, dlg, tried>>
    BY <1>7 DEF MoveParty, Known
  <2>2. m \in Message /\ m.event = "UpdateCLID"
    BY Messages DEF Event
  <2>3. dlg[c] \in State \ {"Terminated"} /\ dlg[c] # "lost"
    BY <1>0, <2>1, States DEF DialogFits
  <2>4. \A p \in Place : Pictures(p, dlg[c]) =>
            Pictures(Shown(p, m), dlg'[c]) /\ NotBehind(p, Shown(p, m))
    BY <2>1, <2>3, PictureParty
  <2> HIDE DEF m
  <2>5. Views'
    BY <1>0, <2>1, <2>2, <2>3, <2>4, PublishViews
  <2> QED BY <1>0, <2>1, <2>5 DEF Retried
<1>8. CASE RT_UNKNOWN_BYE(c)
  <2> DEFINE m == Change("Terminated")
  <2>1. /\ sip[c] = "talking" /\ dlg[c] = "lost" /\ sip' = [sip EXCEPT ![c] = "over"]
        /\ UNCHANGED <<dlg, tried>>
        /\ \/ UNCHANGED <<connVars, rows>>
           \/ Publish(c, m)
    BY <1>8 DEF RT_UNKNOWN_BYE
  <2>2. sip'[c] = "over" /\ \A t \in Call \ {c} : sip'[t] = sip[t]
    BY <1>0, <2>1 DEF TypeOK
  <2>3. m \in Message /\ m.event = "Terminated"
    BY Messages, States DEF Event
  <2>6. \A p \in Place : Pictures(p, dlg[c]) =>
            Pictures(Shown(p, m), dlg'[c]) /\ NotBehind(p, Shown(p, m))
    BY <2>1, PictureLost
  <2> HIDE DEF m
  <2>4. CASE UNCHANGED <<connVars, rows>>
    BY <1>0, <2>1, <2>2, <2>4, ViewsStay DEF connVars, Retried
  <2>5. CASE Publish(c, m)
    BY <1>0, <2>1, <2>2, <2>3, <2>5, <2>6, PublishViews DEF Retried
  <2> QED BY <2>1, <2>4, <2>5
<1> QED BY <1>1, <1>2, <1>3, <1>4, <1>5, <1>6, <1>7, <1>8 DEF Proxy

\* A crash, a restart and the control subscriber.
LEMMA OthersViews ==
    ASSUME PageInv,
           CrashProxy \/ RestartService \/ (\E c \in Call : Service(c))
    PROVE  Retried' /\ Views'
<1>0. TypeOK /\ Views /\ Retried /\ Dialogs
  BY DEF PageInv, Inv
<1>1. CASE CrashProxy
  <2>1. /\ \A c \in Call : sip'[c] = IF sip[c] \in {"setup", "rerouting"} THEN "over" ELSE sip[c]
        /\ \A c \in Call : dlg'[c] = IF sip[c] \in {"idle", "over"} THEN dlg[c] ELSE "lost"
        /\ UNCHANGED <<tried, wire, rows, conn, sent, missed>>
    BY <1>1 DEF CrashProxy, connVars
  <2>2. ASSUME NEW c \in Call, tried'[c] = 0
        PROVE  /\ tried[c] = 0 /\ sip[c] = "over" => sip'[c] = "over"
               /\ dlg'[c] = dlg[c] \/ (dlg'[c] = "lost" /\ dlg[c] \in State \ {"Terminated"})
    <3>1. DialogFits(c) /\ sip[c] # "rerouting" /\ tried[c] = 0
      BY <1>0, <2>1, <2>2 DEF Dialogs, Retried
    <3>2. sip[c] \in {"idle", "over", "setup", "talking"}
      BY <1>0, <3>1 DEF TypeOK
    <3> QED BY <2>1, <3>1, <3>2, States DEF DialogFits
  <2>3. \A c \in Call : sip'[c] # "over" /\ dlg'[c] # "lost" => sip[c] # "over" /\ dlg[c] # "lost"
    BY <2>1
  <2> QED BY <1>0, <2>1, <2>2, <2>3, ViewsStay DEF Retried
<1>2. CASE RestartService
  <2>1. UNCHANGED <<sip, dlg, tried, rows, sent, missed>>
    BY <1>2 DEF RestartService, proxyVars
  <2>2. Retried'
    BY <1>0, <2>1 DEF Retried
  <2>3. CASE conn' = "closed" /\ wire' = Nothing
    <3>1. \A c \in Call : wire'[c] = <<>>
      BY <2>3 DEF Nothing
    <3> QED BY <2>2, <2>3, <3>1 DEF Views
  <2>4. CASE UNCHANGED <<conn, wire>>
    BY <1>0, <2>1, <2>2, <2>4, ViewsStay
  <2> QED BY <1>2, <2>3, <2>4 DEF RestartService
<1>3. ASSUME NEW c \in Call, Service(c) PROVE Retried' /\ Views'
  <2>1. UNCHANGED <<sip, dlg, tried, wire, rows, conn, sent, missed>>
    BY <1>3 DEF Service, UpdateCurrentCallsStatus, Expire, proxyVars, connVars
  <2> QED BY <1>0, <2>1, ViewsStay DEF Retried
<1> QED BY <1>1, <1>2, <1>3

\* The steps of a connection.
LEMMA ConnectionViews == ASSUME PageInv, Connection PROVE Retried' /\ Views'
<1>0. TypeOK /\ Views /\ Retried /\ Dialogs
  BY DEF PageInv, Inv
<1>1. UNCHANGED <<sip, dlg, tried>>
  BY DEF Connection, Open, Register, Refuse, ListKeys, SendCurrentState, Subscribe, Cut, proxyVars
<1>2. Retried'
  BY <1>0, <1>1 DEF Retried
<1>3. CASE Open
  BY <1>0, <1>2, <1>3 DEF Open, Views
<1>4. CASE Register \/ Refuse \/ ListKeys
  BY <1>0, <1>2, <1>4 DEF Register, Refuse, ListKeys, Views
<1>5. CASE Cut
  BY <1>0, <1>2, <1>5 DEF Cut, Views, Nothing
<1>6. CASE SendCurrentState
  <2> DEFINE found == IF \E c \in keys : store[c] = NoRecord THEN {} ELSE keys
             Found(c) == [full |-> TRUE, event |-> store[c].event,
                          time |-> store[c].time, party |-> store[c].party]
  <2>1. /\ conn = "listed" /\ conn' = "read" /\ rows' = rows
        /\ wire' = [c \in Call |-> IF c \in found THEN <<Found(c)>> ELSE <<>>]
        /\ sent' = [c \in Call |-> IF c \in found THEN store[c].event ELSE "none"]
    BY <1>6 DEF SendCurrentState
  <2>2. \A c \in found : c \in Call /\ store[c] \in Record
    BY <1>0 DEF TypeOK
  <2> HIDE DEF found
  <2>3. \A c \in Call : rows[c] = NoRecord
    BY <1>0, <2>1 DEF Views
  <2>4. ASSUME NEW c \in Call, sent'[c] = "none" PROVE wire'[c] = <<>> /\ rows'[c] = NoRecord
    BY <2>1, <2>2, <2>3, <2>4, States DEF Record
  <2>5. ASSUME NEW c \in Call, sent'[c] \in State \ {"Terminated"}
        PROVE  Viewed(rows'[c], wire'[c], sent'[c], sip'[c])
    <3>1. c \in found /\ wire'[c] = <<Found(c)>> /\ sent'[c] = store[c].event
      BY <2>1, <2>5, States
    <3>2. Found(c) \in Message /\ Found(c).event = sent'[c] /\ Found(c).full
      BY <2>2, <3>1, States DEF Record, Message, Event
    <3> DEFINE row == Shown(NoRecord, Found(c))
    <3>3. row \in Place /\ NoRecord \in Place
      BY <3>2, ShownType DEF Place
    <3>4. row = [full |-> TRUE, event |-> sent'[c], time |-> Found(c).time,
                 party |-> Found(c).party, leaving |-> FALSE]
      BY <2>5, <3>2, States DEF Shown, NewRow
    <3> HIDE DEF Found
    <3>5. row # NoRecord
      <4>1. sent'[c] \in State /\ Found(c).time \in Time /\ Found(c).party \in Party
        BY <2>5, <3>2 DEF Message
      <4>2. row \in Row
        BY <3>4, <4>1 DEF Row
      <4> QED BY <4>2, NoRecordAssumption DEF Row
    <3>6. Pictures(row, sent'[c]) /\ ~row.leaving
      BY <2>5, <3>4, <3>5, States DEF Pictures
    <3> HIDE DEF row
    <3>7. ShowsWell(NoRecord, <<Found(c)>>, sent'[c])
      <4>1. \A p \in Place : Pictures(p, "none") =>
                Pictures(Shown(p, Found(c)), sent'[c]) /\ NotBehind(p, Shown(p, Found(c)))
        BY <3>6 DEF Pictures, NotBehind, row
      <4>2. ShowsWell(NoRecord, <<>>, "none")
        BY <3>3, ShowsWellEmpty DEF Pictures
      <4>3. <<>> \in Seq(Message) /\ Append(<<>>, Found(c)) = <<Found(c)>>
        BY <3>2
      <4>4. ShowsWell(NoRecord, Append(<<>>, Found(c)), sent'[c])
        BY <3>2, <3>3, <4>1, <4>2, <4>3, ShowsWellAppend
      <4> QED BY <4>3, <4>4
    <3>8. EndsLast(NoRecord, <<Found(c)>>, sip'[c])
      BY <2>5, <3>2 DEF EndsLast
    <3> QED BY <2>1, <2>3, <3>1, <3>7, <3>8 DEF Viewed
  <2>6. \A c \in Call : wire'[c] = <<>> \/ (Len(wire'[c]) = 1 /\ rows'[c] = NoRecord)
    BY <2>1, <2>3
  <2>7. Views'
    BY <2>1, <2>4, <2>5, <2>6 DEF Views, Viewed, ShowsWell, EndsLast
  <2> QED BY <1>2, <2>7
<1>7. CASE Subscribe
  <2>1. /\ conn = "read" /\ conn' = "forwarding" /\ missed' = {c \in Call : sent[c] # Expected(c)}
        /\ UNCHANGED <<wire, sent, rows>>
    BY <1>7 DEF Subscribe
  <2>2. ASSUME NEW c \in Call \ missed', tried'[c] = 0
        PROVE  Viewed(rows'[c], wire'[c], dlg'[c], sip'[c])
    <3>1. /\ dlg[c] \in State \cup {"none"} /\ dlg[c] # "lost"
          /\ sent[c] = Expected(c) /\ rows[c] \in Place
      <4>1. sent[c] = Expected(c) /\ sent[c] \in State \cup {"none"} /\ rows[c] \in Place
        BY <1>0, <2>1, <2>2 DEF TypeOK, Place
      <4>2. dlg[c] \in State \cup {"none", "lost"}
        BY <1>0 DEF TypeOK
      <4> QED BY <4>1, <4>2, States DEF Expected
    <3>2. CASE dlg[c] \in {"none", "Terminated"}
      <4>1. wire[c] = <<>> /\ rows[c] = NoRecord
        BY <1>0, <2>1, <3>1, <3>2 DEF Expected, Views
      <4>2. ShowsWell(NoRecord, <<>>, dlg[c])
        BY <3>1, <3>2, <4>1, ShowsWellEmpty DEF Pictures
      <4>3. EndsLast(NoRecord, <<>>, sip[c])
        BY DEF EndsLast
      <4> QED BY <1>1, <2>1, <4>1, <4>2, <4>3 DEF Viewed
    <3>3. CASE dlg[c] \notin {"none", "Terminated"}
      <4>1. sent[c] = dlg[c] /\ dlg[c] \in State \ {"Terminated"}
        BY <3>1, <3>3 DEF Expected
      <4>2. sip[c] # "over" /\ dlg[c] # "lost"
        BY <1>0, <4>1, States DEF Dialogs, DialogFits
      <4>3. Viewed(rows[c], wire[c], dlg[c], sip[c])
        BY <1>0, <2>1, <4>1, <4>2 DEF Views
      <4> QED BY <1>1, <2>1, <4>3
    <3> QED BY <3>2, <3>3
  <2>3. Views'
    BY <2>1, <2>2 DEF Views, Viewed, ShowsWell, EndsLast
  <2> QED BY <1>2, <2>3
<1> QED BY <1>3, <1>4, <1>5, <1>6, <1>7 DEF Connection

\* The page shows a message or takes a row away.
LEMMA PageViews == ASSUME PageInv, NEW c \in Call, Page(c) PROVE Retried' /\ Views'
<1>0. TypeOK /\ Views /\ Retried /\ DialogFits(c) /\ rows[c] \in Place /\ wire[c] \in Seq(Message)
  BY DEF PageInv, Inv, Dialogs, TypeOK, Place
<1>1. UNCHANGED <<sip, dlg, tried, conn, sent, missed>>
  BY DEF Page, InsertData, HideRow, TimeRefresh, proxyVars, connVars
<1>2. \A t \in Call \ {c} : rows'[t] = rows[t] /\ wire'[t] = wire[t]
  BY <1>0 DEF Page, InsertData, HideRow, TimeRefresh, TypeOK, connVars
\* It is enough to look at the call itself, in an open connection.
<1>3. ASSUME conn \notin {"read", "forwarding"} => wire'[c] = <<>>,
             conn \in {"open", "deaf", "registered", "listed"} => rows'[c] = NoRecord,
             conn = "read" => wire'[c] = <<>> \/ (Len(wire'[c]) = 1 /\ rows'[c] = NoRecord),
             conn = "read" /\ sent[c] = "none" => wire'[c] = <<>> /\ rows'[c] = NoRecord,
             \A d \in State \ {"Terminated"} :
                 sip[c] # "over" /\ dlg[c] # "lost" /\ Viewed(rows[c], wire[c], d, sip[c])
                     => Viewed(rows'[c], wire'[c], d, sip[c]),
             Viewed(rows[c], wire[c], dlg[c], sip[c]) => Viewed(rows'[c], wire'[c], dlg[c], sip[c])
      PROVE  Retried' /\ Views'
  <2>1. Retried'
    BY <1>0, <1>1 DEF Retried
  <2>2. /\ conn' \notin {"read", "forwarding"} => \A t \in Call : wire'[t] = <<>>
        /\ conn' \in {"open", "deaf", "registered", "listed"} => \A t \in Call : rows'[t] = NoRecord
    BY <1>0, <1>1, <1>2, <1>3 DEF Views
  <2>3. ASSUME conn' = "read", NEW t \in Call
        PROVE  /\ wire'[t] = <<>> \/ (Len(wire'[t]) = 1 /\ rows'[t] = NoRecord)
               /\ sent'[t] = "none" => wire'[t] = <<>> /\ rows'[t] = NoRecord
               /\ sent'[t] \in State \ {"Terminated"} /\ sip'[t] # "over" /\ dlg'[t] # "lost"
                     => Viewed(rows'[t], wire'[t], sent'[t], sip'[t])
    BY <1>0, <1>1, <1>2, <1>3, <2>3 DEF Views
  <2>4. ASSUME conn' = "forwarding", NEW t \in Call \ missed', tried'[t] = 0
        PROVE  Viewed(rows'[t], wire'[t], dlg'[t], sip'[t])
    BY <1>0, <1>1, <1>2, <1>3, <2>4 DEF Views
  <2>5. Views'
    BY <2>2, <2>3, <2>4 DEF Views, Viewed, ShowsWell, EndsLast
  <2> QED BY <2>1, <2>5
<1>4. CASE InsertData(c)
  <2>1. /\ wire[c] # <<>> /\ rows'[c] = Shown(rows[c], Head(wire[c])) /\ wire'[c] = Tail(wire[c])
    BY <1>0, <1>4 DEF InsertData, TypeOK
  <2>2. \A d, s : Viewed(rows[c], wire[c], d, s) => Viewed(rows'[c], wire'[c], d, s)
    BY <1>0, <2>1, ViewedTail
  <2>3. conn \in {"read", "forwarding"} /\ ~(conn = "read" /\ sent[c] = "none")
    BY <1>0, <2>1 DEF Views
  <2>4. conn = "read" => wire'[c] = <<>>
    <3>1. conn = "read" => Len(wire[c]) = 1
      BY <1>0, <2>1 DEF Views
    <3>2. conn = "read" => Len(wire'[c]) = 0 /\ wire'[c] \in Seq(Message)
      BY <1>0, <2>1, <3>1
    <3>3. \A q \in Seq(Message) : Len(q) = 0 => q = <<>>
      OBVIOUS
    <3> QED BY <3>2, <3>3
  <2> QED BY <1>3, <2>2, <2>3, <2>4
<1>5. CASE HideRow(c)
  <2>1. rows[c] # NoRecord /\ rows[c].leaving /\ rows'[c] = NoRecord /\ wire'[c] = wire[c]
    BY <1>0, <1>5 DEF HideRow, TypeOK, connVars
  <2>2. ASSUME NEW d, Viewed(rows[c], wire[c], d, sip[c])
        PROVE  wire[c] = <<>> /\ sip[c] = "over"
    BY <2>1, <2>2 DEF Viewed, EndsLast
  <2>3. ASSUME Viewed(rows[c], wire[c], dlg[c], sip[c])
        PROVE  Viewed(rows'[c], wire'[c], dlg[c], sip[c])
    <3>1. wire[c] = <<>> /\ dlg[c] \in {"Terminated", "lost"}
      BY <1>0, <2>2, <2>3 DEF DialogFits
    <3>2. ShowsWell(NoRecord, <<>>, dlg[c])
      BY <3>1, ShowsWellEmpty DEF Pictures, Place
    <3>3. EndsLast(NoRecord, <<>>, sip[c])
      BY DEF EndsLast
    <3> QED BY <2>1, <3>1, <3>2, <3>3 DEF Viewed
  <2>4. /\ conn \notin {"read", "forwarding"} => wire[c] = <<>>
        /\ conn = "read" => wire[c] = <<>>
    BY <1>0, <2>1 DEF Views
  <2> QED BY <1>3, <2>1, <2>2, <2>3, <2>4
<1>6. CASE TimeRefresh(c)
  <2>1. /\ rows[c] # NoRecord /\ ~rows[c].leaving /\ wire[c] = <<>>
        /\ sip[c] = "over" \/ dlg[c] = "lost"
        /\ rows'[c] = NoRecord /\ wire'[c] = wire[c]
    BY <1>0, <1>6 DEF TimeRefresh, TypeOK, connVars
  <2>2. ASSUME Viewed(rows[c], wire[c], dlg[c], sip[c])
        PROVE  Viewed(rows'[c], wire'[c], dlg[c], sip[c])
    <3>1. dlg[c] \in {"Terminated", "lost"}
      BY <1>0, <2>1 DEF DialogFits
    <3>2. ShowsWell(NoRecord, <<>>, dlg[c])
      BY <3>1, ShowsWellEmpty DEF Pictures, Place
    <3>3. EndsLast(NoRecord, <<>>, sip[c])
      BY DEF EndsLast
    <3> QED BY <2>1, <3>2, <3>3 DEF Viewed
  <2> QED BY <1>3, <2>1, <2>2
<1> QED BY <1>4, <1>5, <1>6 DEF Page

LEMMA PageInvariance == Spec => []PageInv
<1>1. Init => PageInv
  <2> SUFFICES ASSUME Init PROVE Retried /\ Views
    BY Initial DEF PageInv
  <2> QED BY DEF Init, Retried, Views, Nothing
<1>2. PageInv /\ [Next]_vars => PageInv'
  <2> SUFFICES ASSUME PageInv, [Next]_vars PROVE Retried' /\ Views'
    BY Inductive DEF PageInv
  <2>1. CASE Next
    BY <2>1, ProxyViews, OthersViews, ConnectionViews, PageViews DEF Next
  <2>2. CASE UNCHANGED vars
    <3>1. UNCHANGED <<sip, dlg, tried, wire, rows, conn, sent, missed>>
      BY <2>2 DEF vars, proxyVars, connVars
    <3> QED BY <3>1, ViewsStay DEF PageInv, Retried
  <2> QED BY <2>1, <2>2
<1> QED BY <1>1, <1>2, PTL DEF Spec

\* A row shown on the page is not behind the one before.
LEMMA RowsStep ==
    ASSUME PageInv, [Next]_vars, NEW c \in Call \ missed', tried'[c] = 0
    PROVE  NotBehind(rows[c], rows'[c])
<1>0. TypeOK /\ Views /\ rows[c] \in Place /\ wire[c] \in Seq(Message)
  BY DEF PageInv, Inv, TypeOK, Place
<1>1. CASE rows'[c] = rows[c] \/ rows'[c] = NoRecord
  BY <1>1 DEF NotBehind
<1>2. CASE InsertData(c)
  <2>1. /\ wire[c] # <<>> /\ rows'[c] = Shown(rows[c], Head(wire[c]))
        /\ UNCHANGED <<conn, missed, tried>>
    BY <1>0, <1>2 DEF InsertData, TypeOK, proxyVars
  <2>2. CASE rows[c] = NoRecord
    BY <2>2 DEF NotBehind
  <2>3. CASE rows[c] # NoRecord
    <3>1. conn = "forwarding"
      BY <1>0, <2>1, <2>3 DEF Views
    <3>2. Viewed(rows[c], wire[c], dlg[c], sip[c])
      BY <1>0, <2>1, <3>1 DEF Views
    <3> QED BY <1>0, <2>1, <3>2, ViewedTail
  <2> QED BY <2>2, <2>3
<1>3. CASE HideRow(c) \/ TimeRefresh(c)
  <2>1. rows'[c] = NoRecord
    BY <1>0, <1>3 DEF HideRow, TimeRefresh, TypeOK
  <2> QED BY <1>1, <2>1
<1>4. ASSUME NEW t \in Call \ {c}, Page(t) PROVE rows'[c] = rows[c]
  BY <1>0, <1>4 DEF Page, InsertData, HideRow, TimeRefresh, TypeOK
<1>5. ASSUME NEW t \in Call, Proxy(t) \/ Service(t) PROVE rows' = rows
  BY <1>5 DEF Proxy, Invite, ProvisionalReply, Answer, GatewayFails, NextGateway, Hangup,
              MoveParty, RT_UNKNOWN_BYE, REALTIME, Publish, Service,
              UpdateCurrentCallsStatus, Expire
<1>6. ASSUME Connection \/ CrashProxy \/ RestartService
      PROVE  rows'[c] = rows[c] \/ rows'[c] = NoRecord
  BY <1>6 DEF Connection, Open, Register, Refuse, ListKeys, SendCurrentState, Subscribe, Cut,
              CrashProxy, RestartService
<1>7. CASE UNCHANGED vars
  BY <1>1, <1>7 DEF vars
<1> QED BY <1>1, <1>2, <1>3, <1>4, <1>5, <1>6, <1>7 DEF Next, Page

\* A state that went forward in the dialog goes forward in the Redis record,
\* in what a connection is told and on the page, whatever is read, subscribed,
\* cut, restarted or crashes in between (route[REALTIME],
\* updateCurrentCallsStatus, sendCurrentState, forwardStateUpdates, insertData).
THEOREM NeverBack == Spec => NothingGoesBack
<1> DEFINE Step == /\ \A c \in Call \ unsynced' : NotBehind(store[c], store'[c])
                   /\ \A c \in Call \ missed' :
                         /\ FeedGoesForward(c)
                         /\ tried'[c] = 0 => NotBehind(rows[c], rows'[c])
<1>1. PageInv /\ [Next]_vars => [Step]_vars
  <2> SUFFICES ASSUME PageInv, [Next]_vars PROVE [Step]_vars
    OBVIOUS
  <2>1. [FeedStep]_vars
    BY Inductive DEF PageInv
  <2>2. \A c \in Call \ unsynced' : NotBehind(store[c], store'[c])
    BY RecordStep DEF PageInv
  <2>3. \A c \in Call \ missed' : tried'[c] = 0 => NotBehind(rows[c], rows'[c])
    BY RowsStep
  <2> QED BY <2>1, <2>2, <2>3 DEF FeedStep
<1>2. [][Step]_vars => NothingGoesBack
  BY PTL DEF NothingGoesBack
<1> QED BY <1>1, <1>2, PageInvariance, PTL DEF Spec

\* When no message is on its way to it, a page that has followed a call shows
\* it exactly while it is in progress, in the state of its dialog: the records
\* that sendCurrentState sent and the events forwarded since, shown one by one
\* by insertData, whatever other calls, readers and crashes did meanwhile.
THEOREM QuietViewCurrent == Spec => []QuietViewIsCurrent
BY PageInvariance, ViewsImplyQuiet, PTL

=============================================================================
