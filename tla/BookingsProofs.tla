--------------------------- MODULE BookingsProofs ---------------------------
(***************************************************************************)
(* Proofs about Bookings for any number of bookings, users and concurrent  *)
(* handlers: types, and the two invariants on the stages of a booking.     *)
(*                                                                         *)
(* The invariants speak of the stored rows only and are not inductive: a   *)
(* handler may be about to write columns of a copy it read long ago.  The  *)
(* strengthening says the same of the copies.  What makes it work is that  *)
(* "it was once so" (the history was) can only grow, so that a fact that   *)
(* was true of the row when a copy was taken is still backed by the        *)
(* history when the copy, or any mix of its columns with those of a newer  *)
(* row, is written.                                                        *)
(*                                                                         *)
(* When requests come one at a time (OneAtATime) a handler moreover finds  *)
(* the row it loaded and the period it checked as it left them (Sees), and *)
(* prices, notifications and overlaps are right, also when handlers die.   *)
(***************************************************************************)
EXTENDS Bookings, TLAPS

\* What the stages claimed by a row rest on: the facts of its history.
Backed(row, facts) ==
    /\ row.code => "confirmed" \in facts
    /\ row.checkedIn => "confirmed" \in facts
    /\ row.checkedOut => "checkedIn" \in facts

\* A row of the table is backed, and its history knows what it says.
RowBacked(row, facts) ==
    row # Absent => Says(row) \subseteq facts /\ Backed(row, facts)

RowsBacked == \A b \in BookingIds : RowBacked(bookings[b], was[b])

Holding == {"check", "create", "select", "write", "insert"}
HasRow == {"select", "write", "insert", "delete", "notify"}

Fresh(row) == ~row.code /\ ~row.checkedIn /\ ~row.checkedOut

\* The copy a handler holds is backed as well, and a handler on its way to
\* the database knows which row it is after.
CallBacked(c, history) ==
    /\ c.pc \in Holding => c.entity \in Booking
    /\ c.pc \in HasRow => c.id \in BookingIds
    /\ c.pc \in Holding /\ c.id = NoId => Fresh(c.entity)
    /\ c.pc \in Holding /\ c.id # NoId => Backed(c.entity, history[c.id])
    /\ c.pc = "create" => c.id = NoId
    /\ c.pc = "notify" => c.todo # <<>>

CallsBacked == \A h \in Handlers : CallBacked(calls[h], was)

IInv == TypeOK /\ RowsBacked /\ CallsBacked

----------------------------------------------------------------------------
(* Rows and what save makes of them                                        *)

\* The fields of a row have their types.
LEMMA RowFields ==
    ASSUME NEW row \in Booking
    PROVE  /\ DOMAIN row = Columns
           /\ row.user \in Users /\ row.start \in Time /\ row.end \in Time
           /\ row.price \in Nat /\ row.status \in Status
           /\ row.code \in BOOLEAN /\ row.checkedIn \in BOOLEAN /\ row.checkedOut \in BOOLEAN
BY DEF Booking, Columns

\* Mixing columns of two rows gives a row.
LEMMA PatchedRow ==
    ASSUME NEW row \in Booking, NEW entity \in Booking, NEW cols \in SUBSET Columns
    PROVE  LET p == Patched(row, entity, cols)
           IN  /\ p \in Booking
               /\ \A c \in Columns : p[c] = IF c \in cols THEN entity[c] ELSE row[c]
<1> DEFINE p == Patched(row, entity, cols)
<1>1. p = [c \in Columns |-> IF c \in cols THEN entity[c] ELSE row[c]]
  BY RowFields DEF Patched
<1>2. p = [user |-> p["user"], start |-> p["start"], end |-> p["end"],
           price |-> p["price"], status |-> p["status"], code |-> p["code"],
           checkedIn |-> p["checkedIn"], checkedOut |-> p["checkedOut"]]
  BY <1>1 DEF Columns
<1>3. p \in Booking
  BY <1>1, <1>2 DEF Columns, Booking
<1> QED BY <1>1, <1>3

\* If both rows are backed, so is their mix.
LEMMA PatchedBacked ==
    ASSUME NEW row \in Booking, NEW entity \in Booking, NEW cols \in SUBSET Columns,
           NEW facts, Backed(row, facts), Backed(entity, facts)
    PROVE  Backed(Patched(row, entity, cols), facts)
<1> DEFINE p == Patched(row, entity, cols)
<1>1. /\ p.code = IF "code" \in cols THEN entity.code ELSE row.code
      /\ p.checkedIn = IF "checkedIn" \in cols THEN entity.checkedIn ELSE row.checkedIn
      /\ p.checkedOut = IF "checkedOut" \in cols THEN entity.checkedOut ELSE row.checkedOut
  BY PatchedRow DEF Columns
<1> QED BY <1>1 DEF Backed

\* The entities that the handlers build from a row are rows.
LEMMA Entities ==
    ASSUME NEW row \in Booking
    PROVE  /\ \A status \in Status : WithStatus(row, status) \in Booking
           /\ \A s, e \in Time : s < e => WithDates(row, s, e) \in Booking
           /\ \A status \in Status : [row EXCEPT !.status = status] \in Booking
           /\ [row EXCEPT !.checkedIn = TRUE] \in Booking
           /\ [row EXCEPT !.checkedOut = TRUE, !.status = "completed"] \in Booking
           /\ [row EXCEPT !.code = TRUE] \in Booking
<1>1. \A status \in Status : WithStatus(row, status) \in Booking
  BY DEF WithStatus, Booking
<1>2. ASSUME NEW s \in Time, NEW e \in Time, s < e
      PROVE  WithDates(row, s, e) \in Booking
  <2>1. e - s \in Nat
    BY <1>2, BookingConstants DEF Time
  <2> QED BY <2>1 DEF WithDates, calculatePrice, Booking
<1>3. /\ \A status \in Status : [row EXCEPT !.status = status] \in Booking
      /\ [row EXCEPT !.checkedIn = TRUE] \in Booking
      /\ [row EXCEPT !.checkedOut = TRUE, !.status = "completed"] \in Booking
      /\ [row EXCEPT !.code = TRUE] \in Booking
  BY DEF Booking, Status
<1> QED BY <1>1, <1>2, <1>3

----------------------------------------------------------------------------
(* How a step moves the invariant                                          *)

\* One handler moves on, the table and the history stay.
LEMMA HandlerMoves ==
    ASSUME IInv, NEW h \in Handlers, NEW c \in Call, CallBacked(c, was),
           Goto(h, c), Unstored
    PROVE  /\ calls' \in [Handlers -> Call]
           /\ RowsBacked' /\ CallsBacked'
<1>1. /\ calls' = [calls EXCEPT ![h] = c] /\ bookings' = bookings /\ was' = was
      /\ calls \in [Handlers -> Call] /\ RowsBacked /\ CallsBacked
  BY DEF IInv, TypeOK, Goto, Unstored
<1>2. RowsBacked'
  BY <1>1 DEF RowsBacked
<1>3. \A g \in Handlers : CallBacked(calls'[g], was)
  BY <1>1 DEF CallsBacked
<1> QED BY <1>1, <1>2, <1>3 DEF CallsBacked

\* One handler stores a row that is backed, or makes no claim, and moves on
\* without a copy.
LEMMA HandlerStores ==
    ASSUME IInv, NEW h \in Handlers, NEW c \in Call, c.pc \notin Holding, CallBacked(c, was),
           NEW b \in BookingIds, NEW row \in Booking \cup {Absent},
           row # Absent => Backed(row, was[b]) \/ Fresh(row),
           Goto(h, c), Store(b, row)
    PROVE  /\ calls' \in [Handlers -> Call]
           /\ bookings' \in [BookingIds -> Booking \cup {Absent}]
           /\ was' \in [BookingIds -> SUBSET Fact]
           /\ RowsBacked' /\ CallsBacked'
<1> DEFINE facts == IF row = Absent THEN {"deleted"} ELSE Says(row)
<1>1. /\ calls' = [calls EXCEPT ![h] = c]
      /\ bookings' = [bookings EXCEPT ![b] = row]
      /\ was' = [was EXCEPT ![b] = was[b] \cup facts]
  BY DEF Goto, Store
<1>2. /\ calls \in [Handlers -> Call]
      /\ bookings \in [BookingIds -> Booking \cup {Absent}]
      /\ was \in [BookingIds -> SUBSET Fact]
      /\ RowsBacked /\ CallsBacked
  BY DEF IInv, TypeOK
<1>3. facts \subseteq Fact
  BY RowFields DEF Says, Fact
<1> HIDE DEF facts
<1>4. \A x \in BookingIds : was[x] \subseteq was'[x]
  BY <1>1, <1>2
<1>5. RowsBacked'
  <2> SUFFICES ASSUME NEW x \in BookingIds PROVE RowBacked(bookings'[x], was'[x])
    BY DEF RowsBacked
  <2>1. CASE x = b
    <3>1. bookings'[x] = row /\ was'[x] = was[b] \cup facts
      BY <1>1, <1>2, <2>1
    <3> QED BY <3>1 DEF facts, RowBacked, Backed, Fresh
  <2>2. CASE x # b
    <3>1. bookings'[x] = bookings[x] /\ was'[x] = was[x]
      BY <1>1, <1>2, <2>2
    <3> QED BY <3>1, <1>2 DEF RowsBacked
  <2> QED BY <2>1, <2>2
<1>6. CallsBacked'
  <2> SUFFICES ASSUME NEW g \in Handlers PROVE CallBacked(calls'[g], was')
    BY DEF CallsBacked
  <2>1. CallBacked(calls'[g], was) /\ calls'[g] \in Call
    BY <1>1, <1>2 DEF CallsBacked
  <2>2. calls'[g].id \in BookingIds \cup {NoId}
    BY <2>1 DEF Call
  <2> QED BY <2>1, <2>2, <1>4 DEF CallBacked, Backed
<1>7. /\ calls' \in [Handlers -> Call]
      /\ bookings' \in [BookingIds -> Booking \cup {Absent}]
  BY <1>1, <1>2
<1>8. was' \in [BookingIds -> SUBSET Fact]
  BY <1>1, <1>2, <1>3
<1> QED BY <1>5, <1>6, <1>7, <1>8

\* A handler that loaded booking b, and whose assignments are backed, sets out
\* to save them, directly or by way of the conflict query.
LEMMA HandlerSaves ==
    ASSUME IInv, NEW h \in Handlers, NEW b \in BookingIds,
           NEW entity \in Booking, Backed(entity, was[b]),
           NEW todo \in Seq(NoteType \X Addressee), NEW pc \in {"check", "select"},
           Goto(h, Saving(pc, b, entity, todo)), Unstored
    PROVE  /\ calls' \in [Handlers -> Call]
           /\ RowsBacked' /\ CallsBacked'
<1> DEFINE c == Saving(pc, b, entity, todo)
<1>1. c = [pc |-> pc, id |-> b, entity |-> entity, cols |-> {}, todo |-> todo]
  BY DEF Saving
<1> HIDE DEF c
<1>2. c \in Call
  BY <1>1 DEF Call, Pc
<1>3. CallBacked(c, was)
  BY <1>1, BookingConstants DEF CallBacked, Holding, HasRow
<1> QED BY <1>2, <1>3, HandlerMoves DEF c

\* What a handler that finds booking b knows of its row.
LEMMA FoundRow ==
    ASSUME IInv, NEW b \in BookingIds, bookings[b] # Absent
    PROVE  /\ bookings[b] \in Booking
           /\ Says(bookings[b]) \subseteq was[b]
           /\ Backed(bookings[b], was[b])
BY DEF IInv, TypeOK, RowsBacked, RowBacked

\* A handler that has nothing left to do is backed, and so is one that only
\* has a row to delete.
LEMMA Idling ==
    /\ Idle \in Call /\ Idle.pc = "idle"
    /\ \A history : CallBacked(Idle, history)
BY DEF Idle, Call, Pc, CallBacked, Holding, HasRow

\* The lists of notifications have the type the handlers expect.
LEMMA Todos ==
    /\ CreateNotes \in Seq(NoteType \X Addressee)
    /\ \A row, status, by : StatusNotes(row, status, by) \in Seq(NoteType \X Addressee)
    /\ <<>> \in Seq(NoteType \X Addressee)
<1>1. /\ <<"created", "renter">> \in NoteType \X Addressee
      /\ <<"created", "owner">> \in NoteType \X Addressee
      /\ <<"confirmed", "renter">> \in NoteType \X Addressee
      /\ <<"canceled", "renter">> \in NoteType \X Addressee
      /\ <<"canceled", "owner">> \in NoteType \X Addressee
      /\ <<"completed", "renter">> \in NoteType \X Addressee
  BY DEF NoteType, Addressee
<1>2. \A row, status, by : StatusNotes(row, status, by) \in Seq(NoteType \X Addressee)
  <2> SUFFICES ASSUME NEW row, NEW status, NEW by
               PROVE  StatusNotes(row, status, by) \in Seq(NoteType \X Addressee)
    OBVIOUS
  <2>1. CASE status = "confirmed"
    BY <2>1, <1>1 DEF StatusNotes
  <2>2. CASE status = "canceled" /\ row.user = by
    BY <2>2, <1>1 DEF StatusNotes
  <2>3. CASE status = "canceled" /\ row.user # by
    BY <2>3, <1>1 DEF StatusNotes
  <2>4. CASE status = "completed"
    BY <2>4, <1>1 DEF StatusNotes
  <2>5. CASE status \notin {"confirmed", "canceled", "completed"}
    BY <2>5 DEF StatusNotes
  <2> QED BY <2>1, <2>2, <2>3, <2>4, <2>5
<1> QED BY <1>1, <1>2 DEF CreateNotes

\* After a save a handler is about to notify, or done.
LEMMA AfterSaving ==
    ASSUME NEW c \in Call, c.id \in BookingIds, NEW history
    PROVE  /\ AfterSave(c) \in Call
           /\ AfterSave(c).pc \notin Holding
           /\ CallBacked(AfterSave(c), history)
<1>1. CASE c.todo = <<>>
  BY <1>1, Idling DEF AfterSave, Holding
<1>2. CASE c.todo # <<>>
  <2> DEFINE d == [c EXCEPT !.pc = "notify", !.entity = Absent, !.cols = {}]
  <2>1. AfterSave(c) = d
    BY <1>2 DEF AfterSave
  <2>2. d \in Call /\ d.pc = "notify" /\ d.todo = c.todo /\ d.id = c.id
    BY DEF Call, Pc
  <2> QED BY <2>1, <2>2, <1>2 DEF CallBacked, Holding, HasRow
<1> QED BY <1>1, <1>2

----------------------------------------------------------------------------
(* The invariant holds initially, and every action preserves it            *)

LEMMA InvInit == Init => IInv
<1> SUFFICES ASSUME Init PROVE IInv
  OBVIOUS
<1>1. TypeOK
  BY Idling, BookingConstants DEF Init, TypeOK, Time
<1>2. RowsBacked /\ CallsBacked
  BY Idling DEF Init, RowsBacked, RowBacked, CallsBacked
<1> QED BY <1>1, <1>2 DEF IInv

\* Types of the variables that no lemma above is about.
Counters == inbox \subseteq Note /\ now \in Time
            /\ requests \in 0..MaxRequests /\ failures \in 0..MaxFailures

LEMMA Assembled ==
    ASSUME IInv, Counters', calls' \in [Handlers -> Call], RowsBacked', CallsBacked',
           \/ Unstored
           \/ /\ bookings' \in [BookingIds -> Booking \cup {Absent}]
              /\ was' \in [BookingIds -> SUBSET Fact]
    PROVE  IInv'
BY DEF IInv, TypeOK, Counters, Unstored

\* Every accepted request counts, within its bound.
LEMMA Accepted ==
    ASSUME IInv, NEW h, NEW op, Accept(h, op), UNCHANGED <<inbox, now, failures>>
    PROVE  Counters'
BY BookingConstants DEF IInv, TypeOK, Counters, Accept

\* updateStatus up to its save keeps the invariant, whoever calls it.
LEMMA UpdateStatusBegins ==
    ASSUME IInv, NEW h \in Handlers, NEW b \in BookingIds, NEW status \in Status, NEW by,
           BeginUpdateStatus(h, b, status, by), Counters'
    PROVE  IInv'
<1> DEFINE entity == WithStatus(bookings[b], status)
           todo == StatusNotes(bookings[b], status, by)
<1>1. /\ bookings[b] # Absent /\ Unstored
      /\ Goto(h, Saving("select", b, entity, todo))
  BY DEF BeginUpdateStatus, Saving
<1>2. entity \in Booking /\ todo \in Seq(NoteType \X Addressee)
  BY <1>1, FoundRow, Entities, Todos
<1>3. Backed(entity, was[b])
  BY <1>1, FoundRow DEF Booking, Backed, WithStatus
<1> HIDE DEF entity, todo
<1> QED BY <1>1, <1>2, <1>3, HandlerSaves, Assembled

LEMMA RequestInv ==
    ASSUME IInv, NEW h \in Handlers, NEW u \in Users, Request(h, u)
    PROVE  IInv'
<1>1. ASSUME NEW s \in Time, NEW e \in Time, Create(h, u, s, e) PROVE IInv'
  <2> DEFINE entity == [user |-> u, start |-> s, end |-> e,
                        price |-> calculatePrice(s, e), status |-> "pending",
                        code |-> FALSE, checkedIn |-> FALSE, checkedOut |-> FALSE]
             c == [pc |-> "check", id |-> NoId, entity |-> entity,
                   cols |-> {}, todo |-> CreateNotes]
  <2>1. Goto(h, c) /\ Unstored /\ Counters'
    BY <1>1, Accepted DEF Create
  <2>2. e - s \in Nat
    BY <1>1, BookingConstants DEF Create, NewPeriod, Time
  <2>3. entity \in Booking
    BY <2>2 DEF Booking, Status, calculatePrice
  <2>4. c \in Call
    BY <2>3, Todos DEF Call, Pc
  <2>5. CallBacked(c, was)
    BY <2>3, BookingConstants DEF CallBacked, Holding, HasRow, Fresh
  <2> HIDE DEF c
  <2> QED BY <2>1, <2>4, <2>5, HandlerMoves, Assembled
<1>2. ASSUME NEW b \in BookingIds, NEW status \in Status, UpdateStatus(h, u, b, status)
      PROVE  IInv'
  <2>1. BeginUpdateStatus(h, b, status, u) /\ Counters'
    BY <1>2, Accepted DEF UpdateStatus, BeginUpdateStatus
  <2> QED BY <2>1, UpdateStatusBegins
<1>3. ASSUME NEW b \in BookingIds, NEW s \in Time, NEW e \in Time, NEW status \in Status,
             UpdateDates(h, u, b, s, e, status)
      PROVE  IInv'
  <2> DEFINE dated == WithDates(bookings[b], s, e)
             entity == [dated EXCEPT !.status = status]
  <2>1. /\ bookings[b] # Absent /\ s < e /\ Unstored /\ Counters'
        /\ Goto(h, Saving("check", b, entity, <<>>))
    BY <1>3, Accepted DEF UpdateDates
  <2>2. dated \in Booking
    BY <2>1, FoundRow, Entities
  <2>3. entity \in Booking
    BY <2>2, Entities
  <2>4. Backed(dated, was[b])
    BY <2>1, FoundRow DEF Booking, Backed, WithDates
  <2>5. Backed(entity, was[b])
    BY <2>2, <2>4 DEF Booking, Backed
  <2> HIDE DEF dated, entity
  <2> QED BY <2>1, <2>3, <2>5, Todos, HandlerSaves, Assembled
<1>4. ASSUME NEW b \in BookingIds, NEW status \in Status, UpdateOther(h, u, b, status)
      PROVE  IInv'
  <2> DEFINE entity == [bookings[b] EXCEPT !.status = status]
  <2>1. /\ bookings[b] # Absent /\ Unstored /\ Counters'
        /\ Goto(h, Saving("select", b, entity, <<>>))
    BY <1>4, Accepted DEF UpdateOther
  <2>2. entity \in Booking /\ Backed(entity, was[b])
    BY <2>1, FoundRow, Entities DEF Booking, Backed
  <2> HIDE DEF entity
  <2> QED BY <2>1, <2>2, Todos, HandlerSaves, Assembled
<1>5. ASSUME NEW b \in BookingIds, Remove(h, u, b) PROVE IInv'
  <2> DEFINE c == [Idle EXCEPT !.pc = "delete", !.id = b]
  <2>1. Goto(h, c) /\ Unstored /\ Counters'
    BY <1>5, Accepted DEF Remove
  <2>2. c \in Call /\ c.pc = "delete" /\ c.id = b
    BY Idling DEF Call, Pc
  <2> HIDE DEF c
  <2>3. CallBacked(c, was)
    BY <2>2 DEF CallBacked, Holding, HasRow
  <2> QED BY <2>1, <2>2, <2>3, HandlerMoves, Assembled
<1>6. ASSUME NEW b \in BookingIds, CheckIn(h, u, b) PROVE IInv'
  <2> DEFINE entity == [bookings[b] EXCEPT !.checkedIn = TRUE]
  <2>1. /\ bookings[b] # Absent /\ Unstored /\ Counters'
        /\ bookings[b].status = "confirmed"
        /\ Goto(h, Saving("select", b, entity, <<>>))
    BY <1>6, Accepted DEF CheckIn
  <2>2. "confirmed" \in was[b]
    BY <2>1, FoundRow DEF Says
  <2>3. entity \in Booking /\ Backed(entity, was[b])
    BY <2>1, <2>2, FoundRow, Entities DEF Booking, Backed
  <2> HIDE DEF entity
  <2> QED BY <2>1, <2>3, Todos, HandlerSaves, Assembled
<1>7. ASSUME NEW b \in BookingIds, CheckOut(h, u, b) PROVE IInv'
  <2> DEFINE entity == [bookings[b] EXCEPT !.checkedOut = TRUE, !.status = "completed"]
  <2>1. /\ bookings[b] # Absent /\ Unstored /\ Counters'
        /\ bookings[b].checkedIn
        /\ Goto(h, Saving("select", b, entity, <<>>))
    BY <1>7, Accepted DEF CheckOut, CanCheckOut
  <2>2. "checkedIn" \in was[b]
    BY <2>1, FoundRow DEF Says
  <2>3. entity \in Booking /\ Backed(entity, was[b])
    BY <2>1, <2>2, FoundRow, Entities DEF Booking, Backed
  <2> HIDE DEF entity
  <2> QED BY <2>1, <2>3, Todos, HandlerSaves, Assembled
<1>8. ASSUME NEW b \in BookingIds, GenerateAccessCode(h, u, b) PROVE IInv'
  <2> DEFINE entity == [bookings[b] EXCEPT !.code = TRUE]
  <2>1. /\ bookings[b] # Absent /\ Unstored /\ Counters'
        /\ bookings[b].status = "confirmed"
        /\ Goto(h, Saving("select", b, entity, <<>>))
    BY <1>8, Accepted DEF GenerateAccessCode, CanHaveCode
  <2>2. "confirmed" \in was[b]
    BY <2>1, FoundRow DEF Says
  <2>3. entity \in Booking /\ Backed(entity, was[b])
    BY <2>1, <2>2, FoundRow, Entities DEF Booking, Backed
  <2> HIDE DEF entity
  <2> QED BY <2>1, <2>3, Todos, HandlerSaves, Assembled
<1> QED BY <1>1, <1>2, <1>3, <1>4, <1>5, <1>6, <1>7, <1>8 DEF Request

----------------------------------------------------------------------------
(* Steps of the handlers                                                   *)

\* A list that has an element, and not just one, has a tail.
LEMMA TailLeft ==
    ASSUME NEW T, NEW list \in Seq(T), list # <<>>, Len(list) # 1
    PROVE  Tail(list) # <<>>
<1>1. Len(list) \in Nat /\ Len(list) # 0
  OBVIOUS
<1>2. Len(Tail(list)) = Len(list) - 1
  BY <1>1
<1>3. Len(Tail(list)) # 0
  BY <1>1, <1>2
<1> QED BY <1>3, Len(<<>>) = 0

\* What the invariant says of one handler.
LEMMA TheCall ==
    ASSUME IInv, NEW h \in Handlers
    PROVE  /\ calls[h] \in Call /\ CallBacked(calls[h], was)
           /\ calls[h].id \in BookingIds \cup {NoId}
           /\ calls[h].cols \in SUBSET Columns
           /\ calls[h].todo \in Seq(NoteType \X Addressee)
BY DEF IInv, TypeOK, CallsBacked, Call

\* Steps keep the counters.
LEMMA Kept ==
    ASSUME IInv, UNCHANGED <<inbox, now, requests, failures>>
    PROVE  Counters'
BY DEF IInv, TypeOK, Counters

LEMMA StepInv ==
    ASSUME IInv, NEW h \in Handlers, Step(h)
    PROVE  IInv'
<1> DEFINE c == calls[h]
<1>0. /\ c \in Call /\ CallBacked(c, was) /\ c.id \in BookingIds \cup {NoId}
      /\ c.cols \in SUBSET Columns /\ c.todo \in Seq(NoteType \X Addressee)
  BY TheCall
<1> HIDE DEF c
<1>1. CASE CheckConflict(h)
  <2>1. Unstored /\ Counters' /\ c.pc = "check"
    BY <1>1, Kept DEF CheckConflict, c
  <2>2. CASE Goto(h, Idle)
    BY <2>1, <2>2, Idling, HandlerMoves, Assembled
  <2>3. CASE c.id = NoId /\ Goto(h, [c EXCEPT !.pc = "create"])
    <3> DEFINE d == [c EXCEPT !.pc = "create"]
    <3>1. d \in Call /\ CallBacked(d, was)
      BY <1>0, <2>1, <2>3 DEF Call, Pc, CallBacked, Holding, HasRow
    <3> HIDE DEF d
    <3> QED BY <3>1, <2>1, <2>3, HandlerMoves, Assembled DEF d
  <2>4. CASE c.id # NoId /\ Goto(h, [c EXCEPT !.pc = "select"])
    <3> DEFINE d == [c EXCEPT !.pc = "select"]
    <3>1. d \in Call /\ CallBacked(d, was)
      BY <1>0, <2>1, <2>4 DEF Call, Pc, CallBacked, Holding, HasRow
    <3> HIDE DEF d
    <3> QED BY <3>1, <2>1, <2>4, HandlerMoves, Assembled DEF d
  <2> QED BY <1>1, <2>2, <2>3, <2>4 DEF CheckConflict, c
<1>2. ASSUME NEW b \in BookingIds, InsertNew(h, b) PROVE IInv'
  <2> DEFINE d == [c EXCEPT !.id = b]
  <2>1. /\ c.pc = "create" /\ Store(b, c.entity) /\ Goto(h, AfterSave(d)) /\ Counters'
    BY <1>2, Kept DEF InsertNew, c
  <2>2. d \in Call /\ d.id \in BookingIds
    BY <1>0 DEF Call
  <2>3. c.entity \in Booking /\ Fresh(c.entity)
    BY <1>0, <2>1 DEF CallBacked, Holding
  <2> HIDE DEF d
  <2>4. /\ AfterSave(d) \in Call /\ AfterSave(d).pc \notin Holding
        /\ CallBacked(AfterSave(d), was)
    BY <2>2, AfterSaving
  <2> QED BY <2>1, <2>3, <2>4, HandlerStores, Assembled
<1>3. CASE SaveSelect(h)
  <2>1. Unstored /\ Counters' /\ c.pc = "select"
    BY <1>3, Kept DEF SaveSelect, c
  <2>2. CASE Goto(h, [c EXCEPT !.pc = "insert"])
    <3> DEFINE d == [c EXCEPT !.pc = "insert"]
    <3>1. d \in Call /\ CallBacked(d, was)
      BY <1>0, <2>1 DEF Call, Pc, CallBacked, Holding, HasRow
    <3> HIDE DEF d
    <3> QED BY <3>1, <2>1, <2>2, HandlerMoves, Assembled DEF d
  <2>3. CASE Goto(h, [c EXCEPT !.pc = "write", !.cols = Dirty(c.entity, bookings[c.id])])
    <3> DEFINE cols == Dirty(c.entity, bookings[c.id])
               d == [c EXCEPT !.pc = "write", !.cols = cols]
    <3>1. cols \subseteq Columns
      BY <1>0, <2>1, RowFields DEF Dirty, CallBacked, Holding
    <3> HIDE DEF cols
    <3>2. d \in Call /\ CallBacked(d, was)
      BY <1>0, <2>1, <3>1 DEF Call, Pc, CallBacked, Holding, HasRow
    <3> HIDE DEF d
    <3> QED BY <3>2, <2>1, <2>3, HandlerMoves, Assembled DEF d, cols
  <2> QED BY <1>3, <2>2, <2>3 DEF SaveSelect, c
<1>4. CASE SaveWrite(h)
  <2> DEFINE row == Updated(bookings[c.id], c.entity, c.cols)
  <2>1. c.pc = "write" /\ Store(c.id, row) /\ Goto(h, AfterSave(c)) /\ Counters'
    BY <1>4, Kept DEF SaveWrite, c
  <2>2. c.id \in BookingIds /\ c.entity \in Booking /\ Backed(c.entity, was[c.id])
    BY <1>0, <2>1, BookingConstants DEF CallBacked, Holding, HasRow
  <2>3. row \in Booking \cup {Absent} /\ (row # Absent => Backed(row, was[c.id]))
    BY <1>0, <2>2, FoundRow, PatchedRow, PatchedBacked DEF Updated
  <2> HIDE DEF row
  <2> QED BY <2>1, <2>2, <2>3, <1>0, AfterSaving, HandlerStores, Assembled
<1>5. CASE SaveInsert(h)
  <2>1. c.pc = "insert" /\ Store(c.id, c.entity) /\ Goto(h, AfterSave(c)) /\ Counters'
    BY <1>5, Kept DEF SaveInsert, c
  <2>2. c.id \in BookingIds /\ c.entity \in Booking /\ Backed(c.entity, was[c.id])
    BY <1>0, <2>1, BookingConstants DEF CallBacked, Holding, HasRow
  <2> QED BY <2>1, <2>2, <1>0, AfterSaving, HandlerStores, Assembled
<1>6. CASE Delete(h)
  <2>1. c.pc = "delete" /\ Store(c.id, Absent) /\ Goto(h, Idle) /\ Counters'
    BY <1>6, Kept DEF Delete, c
  <2>2. c.id \in BookingIds
    BY <1>0, <2>1 DEF CallBacked, HasRow
  <2> QED BY <2>1, <2>2, Idling, HandlerStores, Assembled DEF Holding
<1>7. CASE Notify(h)
  <2> DEFINE note == Head(c.todo)
  <2>1. c.pc = "notify" /\ Unstored
    BY <1>7 DEF Notify, c
  <2>2. c.id \in BookingIds /\ c.todo # <<>>
    BY <1>0, <2>1 DEF CallBacked, HasRow
  <2>3. note \in NoteType \X Addressee /\ Tail(c.todo) \in Seq(NoteType \X Addressee)
    BY <1>0, <2>2
  <2>4. [type |-> note[1], booking |-> c.id, to |-> note[2]] \in Note
    BY <2>2, <2>3 DEF Note
  <2>5. Counters'
    BY <1>7, <2>4 DEF Notify, c, IInv, TypeOK, Counters
  <2>6. CASE Goto(h, Idle)
    BY <2>1, <2>5, <2>6, Idling, HandlerMoves, Assembled
  <2>7. CASE Len(c.todo) # 1 /\ Goto(h, [c EXCEPT !.todo = Tail(@)])
    <3> DEFINE d == [c EXCEPT !.todo = Tail(@)]
    <3>1. Tail(c.todo) # <<>>
      BY <1>0, <2>2, <2>7, TailLeft
    <3>2. d \in Call /\ CallBacked(d, was)
      BY <1>0, <2>1, <2>3, <3>1 DEF Call, CallBacked, Holding, HasRow
    <3> HIDE DEF d
    <3> QED BY <3>2, <2>1, <2>5, <2>7, HandlerMoves, Assembled DEF d
  <2> QED BY <1>7, <2>6, <2>7 DEF Notify, c
<1>8. CASE SaveInsertFails(h)
  <2>1. Unstored /\ Counters' /\ Goto(h, Idle)
    BY <1>8, Kept DEF SaveInsertFails
  <2> QED BY <2>1, Idling, HandlerMoves, Assembled
<1> QED BY <1>1, <1>2, <1>3, <1>4, <1>5, <1>6, <1>7, <1>8 DEF Step

\* A handler that dies leaves what it has written, and nothing else.
LEMMA Abandoned ==
    ASSUME IInv, NEW h \in Handlers, Goto(h, Idle), Unstored,
           UNCHANGED <<inbox, now, requests>>,
           failures < MaxFailures, failures' = failures + 1
    PROVE  IInv'
<1>1. Counters'
  BY BookingConstants DEF IInv, TypeOK, Counters
<1> QED BY <1>1, Idling, HandlerMoves, Assembled

LEMMA InvStep == IInv /\ [Next]_bookingVars => IInv'
<1> SUFFICES ASSUME IInv, [Next]_bookingVars PROVE IInv'
  OBVIOUS
<1>1. ASSUME NEW h \in Handlers, NEW u \in Users, Request(h, u) PROVE IInv'
  BY <1>1, RequestInv
<1>2. ASSUME NEW h \in Handlers, Step(h) PROVE IInv'
  BY <1>2, StepInv
<1>3. ASSUME NEW h \in Handlers, Fail(h) PROVE IInv'
  BY <1>3, Abandoned DEF Fail
<1>4. CASE Tick
  BY <1>4, BookingConstants
     DEF Tick, Unstored, Time, IInv, TypeOK, RowsBacked, CallsBacked
<1>5. CASE UNCHANGED bookingVars
  BY <1>5 DEF bookingVars, IInv, TypeOK, RowsBacked, CallsBacked
<1> QED BY <1>1, <1>2, <1>3, <1>4, <1>5 DEF Next

----------------------------------------------------------------------------
(* The theorems                                                            *)

\* The strengthened invariant holds in every reachable state.
THEOREM Invariance == Spec => []IInv
BY InvInit, InvStep, PTL DEF Spec

\* Rows, handlers, notifications and counters always have their types.
THEOREM TypeCorrect == Spec => []TypeOK
<1>1. IInv => TypeOK
  BY DEF IInv
<1> QED BY <1>1, Invariance, PTL

\* However many requests race, access codes and check-in come after
\* confirmation and check-out after check-in.
THEOREM StagesAreInOrder == Spec => []StagesInOrder
<1>1. IInv => StagesInOrder
  BY FoundRow DEF StagesInOrder, Stored, Backed
<1> QED BY <1>1, Invariance, PTL

----------------------------------------------------------------------------
(* Requests one at a time                                                  *)

OneAtATime == \A g, h \in Handlers : g = h

Priced(row) == row.start < row.end /\ row.price = calculatePrice(row.start, row.end)

Types(todo) == {todo[i][1] : i \in 1..Len(todo)}
Tells(type, facts) == IF type = "created" THEN facts # {} ELSE type \in facts

\* If row is booking b, it meets another live booking only by a revival.
Apart(row, b, table, history) ==
    \A x \in BookingIds \ {b} :
        (table[x] # Absent /\ Overlap(row, table[x]))
            => (history[b] \cup history[x]) \cap Dead # {}

\* What a handler knows when nobody else is at work: the row it loaded is still
\* there and as it was, the period it checked is still free, and what it will
\* tell is what it is about to save.
Sees(c, table, history) ==
    /\ c.pc \in Holding =>
            /\ Priced(c.entity)
            /\ Types(c.todo) \subseteq IF c.id = NoId THEN {"created"} ELSE {c.entity.status}
    /\ (c.pc = "check" /\ c.id # NoId) => table[c.id] # Absent
    /\ c.pc \in {"select", "write"} =>
            table[c.id] # Absent /\ Apart(c.entity, c.id, table, history)
    /\ c.pc = "create" =>
            \A x \in BookingIds : table[x] # Absent => ~ Overlap(c.entity, table[x])
    /\ c.pc = "write" => c.cols = Dirty(c.entity, table[c.id])
    /\ c.pc # "insert"
    /\ c.pc = "notify" => \A type \in Types(c.todo) : Tells(type, history[c.id])

CallsSeen == \A h \in Handlers : Sees(calls[h], bookings, was)

SerialInv == NotesAreTrue /\ OverlapOnlyByRevival /\ PricedForItsPeriod /\ CallsSeen

LEMMA TypesOfNotes ==
    /\ Types(CreateNotes) \subseteq {"created"}
    /\ \A row, status, by : Types(StatusNotes(row, status, by)) \subseteq {status}
    /\ Types(<<>>) = {}
<1>1. Types(CreateNotes) \subseteq {"created"}
  BY DEF Types, CreateNotes
<1>2. ASSUME NEW row, NEW status, NEW by
      PROVE  Types(StatusNotes(row, status, by)) \subseteq {status}
  <2>1. CASE status = "confirmed"
    BY <2>1 DEF StatusNotes, Types
  <2>2. CASE status = "canceled" /\ row.user = by
    BY <2>2 DEF StatusNotes, Types
  <2>3. CASE status = "canceled" /\ row.user # by
    BY <2>3 DEF StatusNotes, Types
  <2>4. CASE status = "completed"
    BY <2>4 DEF StatusNotes, Types
  <2>5. CASE status \notin {"confirmed", "canceled", "completed"}
    BY <2>5 DEF StatusNotes, Types
  <2> QED BY <2>1, <2>2, <2>3, <2>4, <2>5
<1>3. Types(<<>>) = {}
  BY DEF Types
<1> QED BY <1>1, <1>2, <1>3

LEMMA TypesOfTail ==
    ASSUME NEW todo \in Seq(NoteType \X Addressee), todo # <<>>
    PROVE  Head(todo)[1] \in Types(todo) /\ Types(Tail(todo)) \subseteq Types(todo)
<1>1. Len(todo) \in Nat /\ 1 \in 1..Len(todo) /\ Head(todo) = todo[1]
  OBVIOUS
<1>2. /\ Len(Tail(todo)) = Len(todo) - 1
      /\ \A i \in 1..Len(todo) - 1 : Tail(todo)[i] = todo[i + 1] /\ i + 1 \in 1..Len(todo)
  BY <1>1
<1>3. Head(todo)[1] \in Types(todo)
  BY <1>1 DEF Types
<1>4. Types(Tail(todo)) \subseteq Types(todo)
  BY <1>2 DEF Types
<1> QED BY <1>3, <1>4

\* What is written is what the handler holds.
LEMMA Written ==
    ASSUME NEW row \in Booking, NEW entity \in Booking
    PROVE  Updated(row, entity, Dirty(entity, row)) = entity
<1> DEFINE p == Patched(row, entity, Dirty(entity, row))
<1>1. /\ p = [c \in Columns |-> IF c \in Dirty(entity, row) THEN entity[c] ELSE row[c]]
      /\ \A c \in Columns : c \in Dirty(entity, row) <=> entity[c] # row[c]
  BY RowFields DEF Patched, Dirty
<1>2. \A c \in Columns : p[c] = entity[c]
  BY <1>1
<1>3. p = [c \in Columns |-> p[c]] /\ entity = [c \in Columns |-> entity[c]]
  BY <1>1 DEF Booking, Columns
<1>4. p = entity
  BY <1>2, <1>3
<1> QED BY <1>4, AbsentIsNoBooking DEF Updated

\* The handler moves on, and the table stays.
LEMMA MovesSerial ==
    ASSUME OneAtATime, IInv, SerialInv, NEW h \in Handlers, NEW c, Goto(h, c), Unstored,
           NotesAreTrue', Sees(c, bookings, was)
    PROVE  SerialInv'
<1>1. bookings' = bookings /\ was' = was
  BY DEF Unstored
<1>2. ASSUME NEW g \in Handlers PROVE calls'[g] = c
  BY DEF OneAtATime, Goto, IInv, TypeOK
<1>3. CallsSeen'
  BY <1>1, <1>2 DEF CallsSeen
<1>4. OverlapOnlyByRevival' /\ PricedForItsPeriod'
  BY <1>1 DEF SerialInv, OverlapOnlyByRevival, PricedForItsPeriod, Stored
<1> QED BY <1>3, <1>4 DEF SerialInv

LEMMA NotesStay ==
    ASSUME NotesAreTrue, IInv, UNCHANGED inbox, \A b \in BookingIds : was[b] \subseteq was'[b]
    PROVE  NotesAreTrue'
BY DEF NotesAreTrue, IInv, TypeOK, Note

\* The handler stores a row that keeps to the rules, or deletes one.
LEMMA StoresSerial ==
    ASSUME OneAtATime, IInv, SerialInv, NEW h \in Handlers, NEW b \in BookingIds,
           NEW row \in Booking \cup {Absent}, Store(b, row),
           row # Absent => Priced(row) /\ Apart(row, b, bookings, was),
           NEW c, Goto(h, c), Sees(c, bookings', was'), UNCHANGED inbox
    PROVE  SerialInv'
<1>1. /\ bookings'[b] = row /\ \A x \in BookingIds \ {b} : bookings'[x] = bookings[x]
      /\ \A x \in BookingIds : was[x] \subseteq was'[x]
  BY DEF Store, IInv, TypeOK
<1>2. ASSUME NEW g \in Handlers PROVE calls'[g] = c
  BY DEF OneAtATime, Goto, IInv, TypeOK
<1>3. CallsSeen'
  BY <1>2 DEF CallsSeen
<1>4. NotesAreTrue'
  BY <1>1, NotesStay DEF SerialInv
<1>5. PricedForItsPeriod'
  BY <1>1 DEF SerialInv, PricedForItsPeriod, Stored, Priced
<1>6. OverlapOnlyByRevival'
  <2> SUFFICES ASSUME NEW b1 \in BookingIds, NEW b2 \in BookingIds, b1 # b2,
                      bookings'[b1] # Absent, bookings'[b2] # Absent,
                      Overlap(bookings'[b1], bookings'[b2])
               PROVE  (was'[b1] \cup was'[b2]) \cap Dead # {}
    BY DEF OverlapOnlyByRevival, Stored
  <2>1. (was[b1] \cup was[b2]) \cap Dead # {} => (was'[b1] \cup was'[b2]) \cap Dead # {}
    BY <1>1
  <2>2. CASE b1 = b
    BY <1>1, <2>1, <2>2 DEF Apart
  <2>3. CASE b2 = b
    BY <1>1, <2>1, <2>3 DEF Apart, Overlap
  <2>4. CASE b1 # b /\ b2 # b
    BY <1>1, <2>1, <2>4 DEF SerialInv, OverlapOnlyByRevival, Stored
  <2> QED BY <2>2, <2>3, <2>4
<1> QED BY <1>3, <1>4, <1>5, <1>6 DEF SerialInv

\* A change that leaves the period alone keeps the price right, and the other
\* live bookings as far away as they were.
LEMMA SamePeriod ==
    ASSUME IInv, SerialInv, NEW b \in BookingIds, bookings[b] # Absent, NEW entity \in Booking,
           entity.start = bookings[b].start, entity.end = bookings[b].end,
           entity.price = bookings[b].price
    PROVE  Priced(entity) /\ Apart(entity, b, bookings, was)
<1>1. Priced(entity)
  BY DEF SerialInv, PricedForItsPeriod, Priced, Stored
<1>2. ASSUME NEW x \in BookingIds \ {b}, bookings[x] # Absent, Overlap(entity, bookings[x])
      PROVE  (was[b] \cup was[x]) \cap Dead # {}
  <2>1. CASE bookings[b].status \in Live
    BY <1>2, <2>1 DEF Overlap, SerialInv, OverlapOnlyByRevival, Stored
  <2>2. CASE bookings[b].status \notin Live
    <3>1. bookings[b].status \in was[b] /\ bookings[b].status \in Dead
      BY <2>2, FoundRow, RowFields DEF Says, Dead
    <3> QED BY <3>1
  <2> QED BY <2>1, <2>2
<1> QED BY <1>1, <1>2 DEF Apart

\* A handler that loaded booking b sets out to save it with the period it has.
LEMMA SavesSerial ==
    ASSUME OneAtATime, IInv, SerialInv, NEW h \in Handlers, NEW b \in BookingIds,
           bookings[b] # Absent, NEW entity \in Booking,
           entity.start = bookings[b].start, entity.end = bookings[b].end,
           entity.price = bookings[b].price,
           NEW todo, Types(todo) \subseteq {entity.status},
           Goto(h, Saving("select", b, entity, todo)), Unstored, UNCHANGED inbox
    PROVE  SerialInv'
<1> DEFINE c == Saving("select", b, entity, todo)
<1>1. c.pc = "select" /\ c.id = b /\ c.entity = entity /\ c.todo = todo
  BY DEF Saving
<1>2. b # NoId
  BY BookingConstants
<1> HIDE DEF c
<1>3. Sees(c, bookings, was)
  BY <1>1, <1>2, SamePeriod DEF Sees
<1>4. NotesAreTrue'
  BY NotesStay DEF SerialInv, Unstored
<1> QED BY <1>3, <1>4, MovesSerial DEF c

LEMMA RequestSerial ==
    ASSUME OneAtATime, IInv, SerialInv, NEW h \in Handlers, NEW u \in Users, Request(h, u)
    PROVE  SerialInv'
<1>1. ASSUME NEW s \in Time, NEW e \in Time, Create(h, u, s, e) PROVE SerialInv'
  <2> DEFINE entity == [user |-> u, start |-> s, end |-> e,
                        price |-> calculatePrice(s, e), status |-> "pending",
                        code |-> FALSE, checkedIn |-> FALSE, checkedOut |-> FALSE]
             c == [pc |-> "check", id |-> NoId, entity |-> entity,
                   cols |-> {}, todo |-> CreateNotes]
  <2>1. Goto(h, c) /\ Unstored /\ UNCHANGED inbox /\ s < e
    BY <1>1 DEF Create, NewPeriod
  <2>2. Priced(entity)
    BY <2>1 DEF Priced
  <2>3. c.pc = "check" /\ c.id = NoId /\ c.entity = entity /\ c.todo = CreateNotes
    OBVIOUS
  <2> HIDE DEF c, entity
  <2>4. Sees(c, bookings, was)
    BY <2>2, <2>3, TypesOfNotes DEF Sees
  <2>5. NotesAreTrue'
    BY <2>1, NotesStay DEF SerialInv, Unstored
  <2> QED BY <2>1, <2>4, <2>5, MovesSerial
<1>2. ASSUME NEW b \in BookingIds, NEW status \in Status, UpdateStatus(h, u, b, status)
      PROVE  SerialInv'
  <2> DEFINE entity == WithStatus(bookings[b], status)
             todo == StatusNotes(bookings[b], status, u)
  <2>1. /\ bookings[b] # Absent /\ Unstored /\ UNCHANGED inbox
        /\ Goto(h, Saving("select", b, entity, todo))
    BY <1>2 DEF UpdateStatus, BeginUpdateStatus
  <2>2. entity \in Booking
    BY <2>1, FoundRow, Entities
  <2>3. /\ entity.start = bookings[b].start /\ entity.end = bookings[b].end
        /\ entity.price = bookings[b].price /\ entity.status = status
    BY <2>1, FoundRow DEF WithStatus, Booking
  <2>4. Types(todo) \subseteq {entity.status}
    BY <2>3, TypesOfNotes
  <2> HIDE DEF entity, todo
  <2> QED BY <2>1, <2>2, <2>3, <2>4, SavesSerial
<1>3. ASSUME NEW b \in BookingIds, NEW s \in Time, NEW e \in Time, NEW status \in Status,
             UpdateDates(h, u, b, s, e, status)
      PROVE  SerialInv'
  <2> DEFINE entity == [WithDates(bookings[b], s, e) EXCEPT !.status = status]
             c == Saving("check", b, entity, <<>>)
  <2>1. /\ bookings[b] # Absent /\ Unstored /\ UNCHANGED inbox /\ s < e /\ Goto(h, c)
    BY <1>3 DEF UpdateDates
  <2>2. Priced(entity)
    BY <2>1, FoundRow DEF Priced, WithDates, Booking
  <2> HIDE DEF entity
  <2>3. c.pc = "check" /\ c.id = b /\ c.entity = entity /\ c.todo = <<>> /\ b # NoId
    BY BookingConstants DEF Saving
  <2> HIDE DEF c
  <2>4. Sees(c, bookings, was)
    BY <2>1, <2>2, <2>3, TypesOfNotes DEF Sees
  <2>5. NotesAreTrue'
    BY <2>1, NotesStay DEF SerialInv, Unstored
  <2> QED BY <2>1, <2>4, <2>5, MovesSerial
<1>4. ASSUME NEW b \in BookingIds, NEW status \in Status, UpdateOther(h, u, b, status)
      PROVE  SerialInv'
  <2> DEFINE entity == [bookings[b] EXCEPT !.status = status]
  <2>1. /\ bookings[b] # Absent /\ Unstored /\ UNCHANGED inbox
        /\ Goto(h, Saving("select", b, entity, <<>>))
    BY <1>4 DEF UpdateOther
  <2>2. /\ entity \in Booking /\ entity.start = bookings[b].start
        /\ entity.end = bookings[b].end /\ entity.price = bookings[b].price
    BY <2>1, FoundRow DEF Booking
  <2> HIDE DEF entity
  <2> QED BY <2>1, <2>2, TypesOfNotes, SavesSerial
<1>5. ASSUME NEW b \in BookingIds, Remove(h, u, b) PROVE SerialInv'
  <2> DEFINE c == [Idle EXCEPT !.pc = "delete", !.id = b]
  <2>1. Goto(h, c) /\ Unstored /\ UNCHANGED inbox
    BY <1>5 DEF Remove
  <2>2. c.pc = "delete"
    BY DEF Idle
  <2> HIDE DEF c
  <2>3. Sees(c, bookings, was)
    BY <2>2 DEF Sees, Holding
  <2>4. NotesAreTrue'
    BY <2>1, NotesStay DEF SerialInv, Unstored
  <2> QED BY <2>1, <2>3, <2>4, MovesSerial
<1>6. ASSUME NEW b \in BookingIds, CheckIn(h, u, b) PROVE SerialInv'
  <2> DEFINE entity == [bookings[b] EXCEPT !.checkedIn = TRUE]
  <2>1. /\ bookings[b] # Absent /\ Unstored /\ UNCHANGED inbox
        /\ Goto(h, Saving("select", b, entity, <<>>))
    BY <1>6 DEF CheckIn
  <2>2. /\ entity \in Booking /\ entity.start = bookings[b].start
        /\ entity.end = bookings[b].end /\ entity.price = bookings[b].price
    BY <2>1, FoundRow DEF Booking
  <2> HIDE DEF entity
  <2> QED BY <2>1, <2>2, TypesOfNotes, SavesSerial
<1>7. ASSUME NEW b \in BookingIds, CheckOut(h, u, b) PROVE SerialInv'
  <2> DEFINE entity == [bookings[b] EXCEPT !.checkedOut = TRUE, !.status = "completed"]
  <2>1. /\ bookings[b] # Absent /\ Unstored /\ UNCHANGED inbox
        /\ Goto(h, Saving("select", b, entity, <<>>))
    BY <1>7 DEF CheckOut
  <2>2. /\ entity \in Booking /\ entity.start = bookings[b].start
        /\ entity.end = bookings[b].end /\ entity.price = bookings[b].price
    BY <2>1, FoundRow DEF Booking, Status
  <2> HIDE DEF entity
  <2> QED BY <2>1, <2>2, TypesOfNotes, SavesSerial
<1>8. ASSUME NEW b \in BookingIds, GenerateAccessCode(h, u, b) PROVE SerialInv'
  <2> DEFINE entity == [bookings[b] EXCEPT !.code = TRUE]
  <2>1. /\ bookings[b] # Absent /\ Unstored /\ UNCHANGED inbox
        /\ Goto(h, Saving("select", b, entity, <<>>))
    BY <1>8 DEF GenerateAccessCode
  <2>2. /\ entity \in Booking /\ entity.start = bookings[b].start
        /\ entity.end = bookings[b].end /\ entity.price = bookings[b].price
    BY <2>1, FoundRow DEF Booking
  <2> HIDE DEF entity
  <2> QED BY <2>1, <2>2, TypesOfNotes, SavesSerial
<1> QED BY <1>1, <1>2, <1>3, <1>4, <1>5, <1>6, <1>7, <1>8 DEF Request

\* A handler that is done sees nothing.
LEMMA IdleSees == \A table, history : Sees(Idle, table, history)
BY DEF Sees, Idle, Holding

\* What a handler tells after a save is what it has saved.
LEMMA SavedSees ==
    ASSUME NEW c \in Call, NEW table, NEW history,
           \A type \in Types(c.todo) : Tells(type, history[c.id])
    PROVE  Sees(AfterSave(c), table, history)
<1>1. CASE c.todo = <<>>
  BY <1>1, IdleSees DEF AfterSave
<1>2. CASE c.todo # <<>>
  <2> DEFINE d == [c EXCEPT !.pc = "notify", !.entity = Absent, !.cols = {}]
  <2>1. AfterSave(c) = d
    BY <1>2 DEF AfterSave
  <2>2. d.pc = "notify" /\ d.todo = c.todo /\ d.id = c.id
    BY DEF Call
  <2> HIDE DEF d
  <2> QED BY <2>1, <2>2 DEF Sees, Holding
<1> QED BY <1>1, <1>2

LEMMA StepSerial ==
    ASSUME OneAtATime, IInv, SerialInv, NEW h \in Handlers, Step(h)
    PROVE  SerialInv'
<1> DEFINE c == calls[h]
<1>0. /\ c \in Call /\ CallBacked(c, was) /\ c.id \in BookingIds \cup {NoId}
      /\ c.todo \in Seq(NoteType \X Addressee)
      /\ Sees(c, bookings, was)
  BY TheCall DEF SerialInv, CallsSeen
<1>kept. (Unstored /\ UNCHANGED inbox) => NotesAreTrue'
  BY NotesStay DEF SerialInv, Unstored
<1> HIDE DEF c
<1>1. CASE CheckConflict(h)
  <2>1. Unstored /\ NotesAreTrue' /\ c.pc = "check"
    BY <1>1, <1>kept DEF CheckConflict, c
  <2>2. CASE Goto(h, Idle)
    BY <2>1, <2>2, IdleSees, MovesSerial
  <2>3. CASE ~ Conflicts(c.id, c.entity.start, c.entity.end)
    <3> DEFINE pc == IF c.id = NoId THEN "create" ELSE "select"
               d == [c EXCEPT !.pc = pc]
    <3>1. c.entity \in Booking
      BY <1>0, <2>1 DEF CallBacked, Holding
    <3>2. \A x \in BookingIds \ {c.id} : bookings[x] # Absent => ~ Overlap(c.entity, bookings[x])
      <4> SUFFICES ASSUME NEW x \in BookingIds \ {c.id}, bookings[x] # Absent,
                          Overlap(c.entity, bookings[x])
                   PROVE  FALSE
        OBVIOUS
      <4>1. bookings[x] \in Booking
        BY FoundRow
      <4>2. /\ c.entity.start \in Nat /\ c.entity.end \in Nat
            /\ bookings[x].start \in Nat /\ bookings[x].end \in Nat
        BY <3>1, <4>1, RowFields DEF Time
      <4> QED BY <2>3, <4>2 DEF Overlap, Conflicts
    <3>3. /\ d.pc = pc /\ d.id = c.id /\ d.entity = c.entity /\ d.todo = c.todo
      BY <1>0 DEF Call
    <3>4. Goto(h, d)
      BY <1>1, <2>3 DEF CheckConflict, c
    <3>5. c.id = NoId => \A x \in BookingIds : x \in BookingIds \ {c.id}
      BY BookingConstants
    <3> HIDE DEF d
    <3>6. Sees(d, bookings, was)
      BY <1>0, <2>1, <3>2, <3>3, <3>5 DEF Sees, Holding, Apart
    <3> QED BY <2>1, <3>4, <3>6, MovesSerial
  <2> QED BY <1>1, <2>2, <2>3 DEF CheckConflict, c
<1>2. ASSUME NEW b \in BookingIds, InsertNew(h, b) PROVE SerialInv'
  <2> DEFINE d == [c EXCEPT !.id = b]
  <2>1. /\ c.pc = "create" /\ Store(b, c.entity) /\ Goto(h, AfterSave(d)) /\ UNCHANGED inbox
    BY <1>2 DEF InsertNew, c
  <2>2. d \in Call /\ d.id = b /\ d.todo = c.todo
    BY <1>0 DEF Call
  <2>3. /\ c.entity \in Booking /\ Priced(c.entity) /\ Types(c.todo) \subseteq {"created"}
    BY <1>0, <2>1 DEF CallBacked, Sees, Holding
  <2>4. Apart(c.entity, b, bookings, was)
    BY <1>0, <2>1 DEF Sees, Apart
  <2>5. was'[b] # {}
    BY <2>1, <2>3, AbsentIsNoBooking DEF Store, Says, IInv, TypeOK
  <2> HIDE DEF d
  <2>6. Sees(AfterSave(d), bookings', was')
    BY <2>2, <2>3, <2>5, SavedSees DEF Tells
  <2> QED BY <2>1, <2>3, <2>4, <2>6, StoresSerial
<1>3. CASE SaveSelect(h)
  <2> DEFINE cols == Dirty(c.entity, bookings[c.id])
             d == [c EXCEPT !.pc = "write", !.cols = cols]
  <2>1. Unstored /\ NotesAreTrue' /\ c.pc = "select"
    BY <1>3, <1>kept DEF SaveSelect, c
  <2>2. bookings[c.id] # Absent
    BY <1>0, <2>1 DEF Sees
  <2>3. Goto(h, d)
    BY <1>3, <2>2 DEF SaveSelect, c
  <2> HIDE DEF cols
  <2>4. /\ d.pc = "write" /\ d.id = c.id /\ d.entity = c.entity /\ d.todo = c.todo
        /\ d.cols = cols
    BY <1>0 DEF Call
  <2> HIDE DEF d
  <2>5. Sees(d, bookings, was)
    BY <1>0, <2>1, <2>4 DEF Sees, Holding, cols
  <2> QED BY <2>1, <2>3, <2>5, MovesSerial
<1>4. CASE SaveWrite(h)
  <2>1. /\ c.pc = "write" /\ Store(c.id, Updated(bookings[c.id], c.entity, c.cols))
        /\ Goto(h, AfterSave(c)) /\ UNCHANGED inbox
    BY <1>4 DEF SaveWrite, c
  <2>2. /\ c.id \in BookingIds /\ c.entity \in Booking /\ bookings[c.id] # Absent
        /\ c.cols = Dirty(c.entity, bookings[c.id]) /\ Priced(c.entity)
        /\ Apart(c.entity, c.id, bookings, was) /\ Types(c.todo) \subseteq {c.entity.status}
    BY <1>0, <2>1, BookingConstants DEF CallBacked, Holding, HasRow, Sees
  <2>3. Store(c.id, c.entity)
    BY <2>1, <2>2, FoundRow, Written
  <2>4. c.entity.status \in was'[c.id] /\ c.entity.status # "created"
    <3>1. c.entity.status \in was'[c.id]
      BY <2>2, <2>3, AbsentIsNoBooking DEF Store, Says, IInv, TypeOK
    <3>2. c.entity.status # "created"
      BY <2>2, RowFields DEF Status
    <3> QED BY <3>1, <3>2
  <2>5. Sees(AfterSave(c), bookings', was')
    BY <1>0, <2>2, <2>4, SavedSees DEF Tells
  <2> QED BY <2>1, <2>2, <2>3, <2>5, StoresSerial
<1>5. c.pc # "insert"
  BY <1>0 DEF Sees
<1>6. CASE Delete(h)
  <2>1. c.pc = "delete" /\ Store(c.id, Absent) /\ Goto(h, Idle) /\ UNCHANGED inbox
    BY <1>6 DEF Delete, c
  <2>2. c.id \in BookingIds
    BY <1>0, <2>1 DEF CallBacked, HasRow
  <2> QED BY <2>1, <2>2, IdleSees, StoresSerial
<1>7. CASE Notify(h)
  <2> DEFINE note == Head(c.todo)
  <2>1. c.pc = "notify" /\ Unstored
        /\ inbox' = inbox \cup {[type |-> note[1], booking |-> c.id, to |-> note[2]]}
    BY <1>7 DEF Notify, c
  <2>2. c.todo # <<>> /\ \A type \in Types(c.todo) : Tells(type, was[c.id])
    BY <1>0, <2>1 DEF CallBacked, HasRow, Sees
  <2>3. Tells(note[1], was[c.id])
    BY <1>0, <2>2, TypesOfTail
  <2>4. NotesAreTrue'
    <3> DEFINE new == [type |-> note[1], booking |-> c.id, to |-> note[2]]
    <3>1. was' = was /\ new.type = note[1] /\ new.booking = c.id
      BY <2>1 DEF Unstored
    <3>2. inbox' = inbox \cup {new}
      BY <2>1
    <3> HIDE DEF new, note
    <3> QED BY <2>3, <3>1, <3>2 DEF SerialInv, NotesAreTrue, Tells
  <2>5. CASE Goto(h, Idle)
    BY <2>1, <2>4, <2>5, IdleSees, MovesSerial
  <2>6. CASE Goto(h, [c EXCEPT !.todo = Tail(@)])
    <3> DEFINE d == [c EXCEPT !.todo = Tail(@)]
    <3>1. d.pc = "notify" /\ d.id = c.id /\ Types(d.todo) \subseteq Types(c.todo)
      BY <1>0, <2>1, <2>2, TypesOfTail DEF Call
    <3> HIDE DEF d
    <3>2. Sees(d, bookings, was)
      BY <2>2, <3>1 DEF Sees, Holding
    <3> QED BY <2>1, <2>4, <2>6, <3>2, MovesSerial DEF d
  <2> QED BY <1>7, <2>5, <2>6 DEF Notify, c
<1> QED BY <1>1, <1>2, <1>3, <1>4, <1>5, <1>6, <1>7
        DEF Step, SaveInsert, SaveInsertFails, InsertFails, c

LEMMA SerialNext ==
    ASSUME OneAtATime, IInv, SerialInv, [Next]_bookingVars
    PROVE  SerialInv'
<1>1. ASSUME NEW h \in Handlers, NEW u \in Users, Request(h, u) PROVE SerialInv'
  BY <1>1, RequestSerial
<1>2. ASSUME NEW h \in Handlers, Step(h) PROVE SerialInv'
  BY <1>2, StepSerial
<1>3. ASSUME NEW h \in Handlers, Fail(h) PROVE SerialInv'
  <2>1. NotesAreTrue'
    BY <1>3, NotesStay DEF SerialInv, Fail, Unstored
  <2> QED BY <1>3, <2>1, IdleSees, MovesSerial DEF Fail
<1>4. CASE Tick \/ UNCHANGED bookingVars
  <2>1. UNCHANGED <<bookings, was, calls, inbox>>
    BY <1>4 DEF Tick, Unstored, bookingVars
  <2> QED BY <2>1 DEF SerialInv, NotesAreTrue, OverlapOnlyByRevival, PricedForItsPeriod,
                      Stored, CallsSeen
<1> QED BY <1>1, <1>2, <1>3, <1>4 DEF Next

LEMMA SerialInit == Init => SerialInv
<1> SUFFICES ASSUME Init PROVE SerialInv
  OBVIOUS
<1>1. NotesAreTrue /\ OverlapOnlyByRevival /\ PricedForItsPeriod
  BY DEF Init, NotesAreTrue, OverlapOnlyByRevival, PricedForItsPeriod, Stored
<1>2. CallsSeen
  BY IdleSees DEF Init, CallsSeen
<1> QED BY <1>1, <1>2 DEF SerialInv

\* With one request at a time, rows, notifications and handlers are as SerialInv
\* says, also when handlers die half way.
THEOREM SerialInvariance == ASSUME OneAtATime PROVE Spec => []SerialInv
<1>1. Init => SerialInv
  BY SerialInit
<1>2. IInv /\ SerialInv /\ [Next]_bookingVars => SerialInv'
  BY SerialNext
<1> QED BY <1>1, <1>2, Invariance, PTL DEF Spec

\* Then two live bookings claim the same time only if updateStatus or an
\* administrator's update brought one of them back: the conflict queries of
\* create and update are not overtaken.
THEOREM OverlapsAreRevivals == ASSUME OneAtATime PROVE Spec => []OverlapOnlyByRevival
<1>1. SerialInv => OverlapOnlyByRevival
  BY DEF SerialInv
<1> QED BY <1>1, SerialInvariance, PTL

\* Then a booking's price is that of its period, also after its dates changed.
THEOREM PricesFollowPeriods == ASSUME OneAtATime PROVE Spec => []PricedForItsPeriod
<1>1. SerialInv => PricedForItsPeriod
  BY DEF SerialInv
<1> QED BY <1>1, SerialInvariance, PTL

\* Then nobody is told of a booking, or of a status, that was never stored.
THEOREM NotesTellTheTruth == ASSUME OneAtATime PROVE Spec => []NotesAreTrue
<1>1. SerialInv => NotesAreTrue
  BY DEF SerialInv
<1> QED BY <1>1, SerialInvariance, PTL
=============================================================================
