------------------------------ MODULE Bookings ------------------------------
(***************************************************************************)
(* BookingsService (src/modules/bookings/bookings.service.ts): the         *)
(* bookings of one parking, and the requests that create, change, check    *)
(* in, check out and delete them.                                          *)
(*                                                                         *)
(* Every HTTP request runs as an asynchronous handler, several of them     *)
(* interleave at each await, and several replicas share one database.      *)
(* There is no transaction and no lock around a handler.  A handler is a   *)
(* record in calls: what it will do next (pc), the booking it works on     *)
(* (id), its copy of the row with its assignments already made (entity),   *)
(* the columns repository.save found dirty (cols), and the notifications   *)
(* it still has to create (todo).  One action models what a handler does   *)
(* between two awaits.  With one element, Handlers makes the requests      *)
(* sequential; with more, they race.                                       *)
(***************************************************************************)
EXTENDS Naturals, Sequences, FiniteSets, TypeOrm

CONSTANTS
    BookingIds,     \* primary keys the database may hand out
    Users,          \* authenticated users
    Admins,         \* those whose role is 'admin'
    ParkingOwner,   \* the ownerId of the parking
    Handlers,       \* requests that can be in progress at the same time
    NoId,           \* the id of an entity that has not been inserted
    ClientOps,      \* the operations the clients of this instance call
    MaxTime,        \* bound on the clock, in hours
    MaxRequests,    \* bound on the requests that clients send
    MaxFailures     \* bound on the handlers that die half way

VARIABLES
    bookings,   \* the table: id -> row
    calls,      \* the handlers
    inbox,      \* the notifications created so far
    now,        \* the clock the handlers read with new Date()
    was,        \* history: id -> what the stored row has ever said of itself
    requests,   \* requests accepted so far
    failures    \* handlers that died so far

bookingVars == <<bookings, calls, inbox, now, was, requests, failures>>

ASSUME BookingConstants ==
    /\ Admins \subseteq Users
    /\ ParkingOwner \in Users
    /\ NoId \notin BookingIds
    /\ MaxTime \in Nat /\ MaxRequests \in Nat /\ MaxFailures \in Nat

Time == 0..MaxTime
Status == {"pending", "confirmed", "canceled", "completed", "rejected"}
Live == {"pending", "confirmed"}        \* what the conflict queries look for
Dead == Status \ Live

Booking == [user: Users, start: Time, end: Time, price: Nat, status: Status,
            code: BOOLEAN, checkedIn: BOOLEAN, checkedOut: BOOLEAN]
Columns == {"user", "start", "end", "price", "status",
            "code", "checkedIn", "checkedOut"}

ASSUME AbsentIsNoBooking == Absent \notin Booking

\* Notifications differ by type, booking and addressee.
NoteType == {"created", "confirmed", "canceled", "completed"}
Addressee == {"renter", "owner"}
Note == [type: NoteType, booking: BookingIds, to: Addressee]

Pc == {"idle", "check", "create", "select", "write", "insert", "delete", "notify"}
Call == [pc: Pc, id: BookingIds \cup {NoId}, entity: Booking \cup {Absent},
         cols: SUBSET Columns, todo: Seq(NoteType \X Addressee)]
Idle == [pc |-> "idle", id |-> NoId, entity |-> Absent, cols |-> {}, todo |-> <<>>]

\* The base price is one per hour; rules only multiply it.
calculatePrice(s, e) == e - s

----------------------------------------------------------------------------
(* Storage.  was records every status a row has had, its check-in and      *)
(* check-out, and that it was deleted.                                     *)

Fact == Status \cup {"checkedIn", "checkedOut", "deleted"}

Says(row) == {row.status} \cup (IF row.checkedIn THEN {"checkedIn"} ELSE {})
             \cup (IF row.checkedOut THEN {"checkedOut"} ELSE {})

Store(b, row) ==
    /\ bookings' = [bookings EXCEPT ![b] = row]
    /\ was' = [was EXCEPT ![b] = @ \cup (IF row = Absent THEN {"deleted"} ELSE Says(row))]

Unstored == UNCHANGED <<bookings, was>>

Goto(h, call) == calls' = [calls EXCEPT ![h] = call]

\* A client's request reaches an idle handler.
Accept(h, op) ==
    /\ op \in ClientOps
    /\ calls[h].pc = "idle"
    /\ requests < MaxRequests
    /\ requests' = requests + 1

\* The handler loaded booking b and assigned to it; repository.save follows,
\* or (next = "check") the conflict query comes before it.
Saving(next, b, entity, todo) ==
    [pc |-> next, id |-> b, entity |-> entity, cols |-> {}, todo |-> todo]

\* After the save: create the notifications, if there are any.
AfterSave(c) ==
    IF c.todo = <<>> THEN Idle
    ELSE [c EXCEPT !.pc = "notify", !.entity = Absent, !.cols = {}]

----------------------------------------------------------------------------
(* Faulty variants of definitions below, each a slip that a change of the  *)
(* code could bring; the properties at the end must notice them.           *)

NewPeriod_Unordered(s, e) == s >= now
CreateNotes_RenterOnly == <<<<"created", "renter">>>>
StatusNotes_FallThrough(row, status, by) ==
    CASE status = "confirmed" -> <<<<"confirmed", "renter">>>>
      [] status \in {"canceled", "rejected"} -> <<<<"canceled", "renter">>>>
      [] status = "completed" -> <<<<"completed", "renter">>>>
      [] OTHER -> <<>>
WithDates_OldPrice(row, s, e) == [row EXCEPT !.start = s, !.end = e]
CanCheckOut_Confirmed(row) == row.status = "confirmed"
Conflicts_ConfirmedOnly(id, s, e) ==
    \E b \in BookingIds \ {id} :
        /\ bookings[b] # Absent
        /\ bookings[b].status = "confirmed"
        /\ bookings[b].start <= e
        /\ bookings[b].end >= s

----------------------------------------------------------------------------
(* Requests: from the arrival to the first await after the guards.         *)

\* Bound: every create in progress can still be given a key.
KeysLeft ==
    Cardinality({g \in Handlers : calls[g].pc # "idle" /\ calls[g].id = NoId})
        < Cardinality({b \in BookingIds : was[b] = {}})

NewPeriod(s, e) == s < e /\ s >= now

CreateNotes == <<<<"created", "renter">>, <<"created", "owner">>>>

\* create: the dates are validated against the clock, and the conflict
\* query comes later.  The opening hours of checkAvailability are left out:
\* they depend on the parking and the period alone.
Create(h, u, s, e) ==
    /\ Accept(h, "create")
    /\ KeysLeft
    /\ NewPeriod(s, e)
    /\ Goto(h, [pc |-> "check", id |-> NoId,
                entity |-> [user |-> u, start |-> s, end |-> e,
                            price |-> calculatePrice(s, e), status |-> "pending",
                            code |-> FALSE, checkedIn |-> FALSE, checkedOut |-> FALSE],
                cols |-> {},
                todo |-> CreateNotes])
    /\ Unstored /\ UNCHANGED <<inbox, now, failures>>

\* What updateStatus tells whom; by is the caller, "system" for a payment.
StatusNotes(row, status, by) ==
    CASE status = "confirmed" -> <<<<"confirmed", "renter">>>>
      [] status = "canceled" ->
            IF row.user = by THEN <<<<"canceled", "renter">>, <<"canceled", "owner">>>>
                             ELSE <<<<"canceled", "renter">>>>
      [] status = "completed" -> <<<<"completed", "renter">>>>
      [] OTHER -> <<>>

\* The entity updateStatus saves: any status replaces any other, and a
\* cancelation clears the access code.
WithStatus(row, status) ==
    [row EXCEPT !.status = status,
                !.code = IF status = "canceled" THEN FALSE ELSE row.code]

\* updateStatus up to its save; the service checks neither the caller nor the
\* current status.  PaymentsService calls it too.
BeginUpdateStatus(h, b, status, by) ==
    /\ calls[h].pc = "idle"
    /\ bookings[b] # Absent
    /\ Goto(h, Saving("select", b, WithStatus(bookings[b], status),
                      StatusNotes(bookings[b], status, by)))
    /\ Unstored /\ UNCHANGED <<inbox, now, failures>>

UpdateStatus(h, u, b, status) ==
    /\ Accept(h, "status")
    /\ BeginUpdateStatus(h, b, status, u)

May(u, row) == row.user = u \/ u \in Admins
MayOrOwns(u, row) == May(u, row) \/ u = ParkingOwner

\* update: the renter or an administrator, unless the booking is over.  Only
\* an administrator's status counts.
MayUpdate(u, row, status) ==
    /\ May(u, row)
    /\ row.status \notin {"completed", "canceled"}
    /\ status = row.status \/ u \in Admins

WithDates(row, s, e) ==
    [row EXCEPT !.start = s, !.end = e, !.price = calculatePrice(s, e)]

\* update with a new start, end or both: a start the caller gives must not be
\* past (one that is kept may be), and the price follows the dates.
UpdateDates(h, u, b, s, e, status) ==
    /\ Accept(h, "update")
    /\ bookings[b] # Absent
    /\ MayUpdate(u, bookings[b], status)
    /\ s < e
    /\ s = bookings[b].start \/ s >= now
    /\ Goto(h, Saving("check", b,
                      [WithDates(bookings[b], s, e) EXCEPT !.status = status], <<>>))
    /\ Unstored /\ UNCHANGED <<inbox, now, failures>>

\* update of the notes (not modelled) or of the status.
UpdateOther(h, u, b, status) ==
    /\ Accept(h, "update")
    /\ bookings[b] # Absent
    /\ MayUpdate(u, bookings[b], status)
    /\ Goto(h, Saving("select", b, [bookings[b] EXCEPT !.status = status], <<>>))
    /\ Unstored /\ UNCHANGED <<inbox, now, failures>>

Remove(h, u, b) ==
    /\ Accept(h, "remove")
    /\ bookings[b] # Absent
    /\ May(u, bookings[b])
    /\ bookings[b].status \notin {"confirmed", "completed"}
    /\ Goto(h, [Idle EXCEPT !.pc = "delete", !.id = b])
    /\ Unstored /\ UNCHANGED <<inbox, now, failures>>

\* checkIn: from one hour before the start on, with no upper limit.
CheckIn(h, u, b) ==
    /\ Accept(h, "checkIn")
    /\ bookings[b] # Absent
    /\ MayOrOwns(u, bookings[b])
    /\ bookings[b].status = "confirmed"
    /\ now + 1 >= bookings[b].start
    /\ Goto(h, Saving("select", b, [bookings[b] EXCEPT !.checkedIn = TRUE], <<>>))
    /\ Unstored /\ UNCHANGED <<inbox, now, failures>>

CanCheckOut(row) == row.checkedIn

\* checkOut looks at checkedIn and not at the status.
CheckOut(h, u, b) ==
    /\ Accept(h, "checkOut")
    /\ bookings[b] # Absent
    /\ MayOrOwns(u, bookings[b])
    /\ CanCheckOut(bookings[b])
    /\ Goto(h, Saving("select", b, [bookings[b] EXCEPT !.checkedOut = TRUE,
                                                       !.status = "completed"], <<>>))
    /\ Unstored /\ UNCHANGED <<inbox, now, failures>>

CanHaveCode(row) == row.status = "confirmed"

GenerateAccessCode(h, u, b) ==
    /\ Accept(h, "code")
    /\ bookings[b] # Absent
    /\ May(u, bookings[b])
    /\ CanHaveCode(bookings[b])
    /\ Goto(h, Saving("select", b, [bookings[b] EXCEPT !.code = TRUE], <<>>))
    /\ Unstored /\ UNCHANGED <<inbox, now, failures>>

----------------------------------------------------------------------------
(* Steps of a handler after an await.                                      *)

\* Both conflict queries: a live booking other than the one being changed
\* whose closed period meets the wanted one.
Conflicts(id, s, e) ==
    \E b \in BookingIds \ {id} :
        /\ bookings[b] # Absent
        /\ bookings[b].status \in Live
        /\ bookings[b].start <= e
        /\ bookings[b].end >= s

CheckConflict(h) ==
    /\ calls[h].pc = "check"
    /\ LET c == calls[h]
       IN  Goto(h, IF Conflicts(c.id, c.entity.start, c.entity.end) THEN Idle
                   ELSE [c EXCEPT !.pc = IF c.id = NoId THEN "create" ELSE "select"])
    /\ Unstored /\ UNCHANGED <<inbox, now, requests, failures>>

\* save of a new entity: an INSERT with a fresh key.
InsertNew(h, b) ==
    /\ calls[h].pc = "create"
    /\ was[b] = {}
    /\ Store(b, calls[h].entity)
    /\ Goto(h, AfterSave([calls[h] EXCEPT !.id = b]))
    /\ UNCHANGED <<inbox, now, requests, failures>>

\* First query of save.
SaveSelect(h) ==
    /\ calls[h].pc = "select"
    /\ LET c == calls[h]
           row == bookings[c.id]
       IN  Goto(h, IF row = Absent THEN [c EXCEPT !.pc = "insert"]
                   ELSE [c EXCEPT !.pc = "write", !.cols = Dirty(c.entity, row)])
    /\ Unstored /\ UNCHANGED <<inbox, now, requests, failures>>

\* Second query of save, when the first one found the row.
SaveWrite(h) ==
    /\ calls[h].pc = "write"
    /\ LET c == calls[h]
       IN  /\ Store(c.id, Updated(bookings[c.id], c.entity, c.cols))
           /\ Goto(h, AfterSave(c))
    /\ UNCHANGED <<inbox, now, requests, failures>>

\* Second query of save, when the row was gone: it is inserted again, or the
\* INSERT fails on the key because somebody else did that meanwhile.
SaveInsert(h) ==
    /\ calls[h].pc = "insert"
    /\ bookings[calls[h].id] = Absent
    /\ Store(calls[h].id, calls[h].entity)
    /\ Goto(h, AfterSave(calls[h]))
    /\ UNCHANGED <<inbox, now, requests, failures>>

InsertFails(h) == calls[h].pc = "insert" /\ bookings[calls[h].id] # Absent

SaveInsertFails(h) ==
    /\ InsertFails(h)
    /\ Goto(h, Idle)
    /\ Unstored /\ UNCHANGED <<inbox, now, requests, failures>>

Delete(h) ==
    /\ calls[h].pc = "delete"
    /\ Store(calls[h].id, Absent)
    /\ Goto(h, Idle)
    /\ UNCHANGED <<inbox, now, requests, failures>>

\* One notification is created per await; the request ends after the last.
Notify(h) ==
    /\ calls[h].pc = "notify"
    /\ LET c == calls[h]
           note == Head(c.todo)
       IN  /\ inbox' = inbox \cup {[type |-> note[1], booking |-> c.id, to |-> note[2]]}
           /\ Goto(h, IF Len(c.todo) = 1 THEN Idle ELSE [c EXCEPT !.todo = Tail(@)])
    /\ Unstored /\ UNCHANGED <<now, requests, failures>>

\* A query fails or the replica is killed: what was written stays.
Fail(h) ==
    /\ calls[h].pc # "idle"
    /\ failures < MaxFailures
    /\ failures' = failures + 1
    /\ Goto(h, Idle)
    /\ Unstored /\ UNCHANGED <<inbox, now, requests>>

Tick ==
    /\ now < MaxTime
    /\ now' = now + 1
    /\ Unstored /\ UNCHANGED <<calls, inbox, requests, failures>>

----------------------------------------------------------------------------
Init ==
    /\ bookings = [b \in BookingIds |-> Absent]
    /\ calls = [h \in Handlers |-> Idle]
    /\ inbox = {}
    /\ now = 0
    /\ was = [b \in BookingIds |-> {}]
    /\ requests = 0
    /\ failures = 0

Request(h, u) ==
    \/ \E s, e \in Time : Create(h, u, s, e)
    \/ \E b \in BookingIds :
        \/ \E status \in Status : UpdateStatus(h, u, b, status)
        \/ \E s, e \in Time, status \in Status : UpdateDates(h, u, b, s, e, status)
        \/ \E status \in Status : UpdateOther(h, u, b, status)
        \/ Remove(h, u, b)
        \/ CheckIn(h, u, b)
        \/ CheckOut(h, u, b)
        \/ GenerateAccessCode(h, u, b)

Step(h) ==
    \/ CheckConflict(h)
    \/ \E b \in BookingIds : InsertNew(h, b)
    \/ SaveSelect(h)
    \/ SaveWrite(h)
    \/ SaveInsert(h)
    \/ SaveInsertFails(h)
    \/ Delete(h)
    \/ Notify(h)

Next ==
    \/ \E h \in Handlers : \/ \E u \in Users : Request(h, u)
                           \/ Step(h)
                           \/ Fail(h)
    \/ Tick

Spec == Init /\ [][Next]_bookingVars

\* A handler that has been started keeps running; a client need not send
\* anything, and nobody need fail.
FairSpec ==
    Spec /\ \A h \in Handlers : WF_bookingVars(Step(h))

----------------------------------------------------------------------------
(* What bookings promise, however the requests interleave and fail.       *)

Stored == {b \in BookingIds : bookings[b] # Absent}

\* Every variable has its type: rows, handlers and history are what
\* booking.entity.ts and the handlers of bookings.service.ts can build.
TypeOK ==
    /\ bookings \in [BookingIds -> Booking \cup {Absent}]
    /\ calls \in [Handlers -> Call]
    /\ inbox \subseteq Note
    /\ now \in Time
    /\ was \in [BookingIds -> SUBSET Fact]
    /\ requests \in 0..MaxRequests
    /\ failures \in 0..MaxFailures

\* The stages of a booking are earned, whatever stale copies are saved: it has
\* an access code or was checked in only if it was confirmed at some time, and
\* checked out only if it was checked in.  generateAccessCode, checkIn and
\* checkOut look at a copy of the row that may be stale when it is saved, but
\* the copy was once the row.
StagesInOrder ==
    \A b \in Stored :
        /\ bookings[b].code => "confirmed" \in was[b]
        /\ bookings[b].checkedIn => "confirmed" \in was[b]
        /\ bookings[b].checkedOut => "checkedIn" \in was[b]

----------------------------------------------------------------------------
(* What they promise while requests come one at a time.                    *)

\* Nobody is told of a status the booking never had: each notification that
\* create and updateStatus send is backed by a row that was really saved.  A
\* request that deletes the row between the two queries of save would make the
\* notification false.
NotesAreTrue ==
    \A n \in inbox :
        IF n.type = "created" THEN was[n.booking] # {}
        ELSE n.type \in was[n.booking]

Overlap(r1, r2) ==
    /\ r1.status \in Live /\ r2.status \in Live
    /\ r1.start <= r2.end /\ r2.start <= r1.end

\* Two live bookings never claim the same time, unless updateStatus (which
\* looks for no conflict) or an administrator's update brought back one that
\* had been canceled, rejected or completed.
OverlapOnlyByRevival ==
    \A b1, b2 \in Stored :
        b1 # b2 /\ Overlap(bookings[b1], bookings[b2])
            => (was[b1] \cup was[b2]) \cap Dead # {}

\* A booking's period is not empty, and its price is that of its period, also
\* after its dates were changed.
PricedForItsPeriod ==
    \A b \in Stored :
        /\ bookings[b].start < bookings[b].end
        /\ bookings[b].price = calculatePrice(bookings[b].start, bookings[b].end)

----------------------------------------------------------------------------
(* What the code says of itself and does not keep.                         *)

\* The conflict queries of create and update are there so that no two live
\* bookings claim the same time.
NoDoubleBooking ==
    \A b1, b2 \in Stored : b1 # b2 => ~Overlap(bookings[b1], bookings[b2])

----------------------------------------------------------------------------
(* Progress                                                                *)

\* The owner hears of every booking that gets stored, unless a request died:
\* create sends its two notifications after the save, with no retry.
OwnerHearsOfBooking ==
    \A b \in BookingIds :
        was[b] # {} ~> \/ [type |-> "created", booking |-> b, to |-> "owner"] \in inbox
                       \/ failures > 0
=============================================================================
