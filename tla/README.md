# A verification project for the ParkShare backend

ParkShare is a NestJS service through which people rent out parking spots. Its
rules live in a dozen services over one PostgreSQL database, reached with
TypeORM. This directory holds TLA+ models of these services, TLC configurations
that check them, and proofs of the properties that matter most.

One fact about the code shapes everything here. **No service uses a
transaction, a lock, a version column or a uniqueness constraint for its
rules**, apart from the unique e-mail of a user. A request handler loads an entity, tests it, assigns to it and calls
`repository.save`, with an `await` between any two of these; it interleaves at
each `await` with the other handlers of its process, and the deployment
(`src/ops/kubernetes`) runs several processes. Every rule that relates two rows,
or a row to an earlier state of itself, is therefore a question of
interleaving, and it is these that unit tests do not reach.

## 1. The system

### 1.1 Components

| Component | State | Operations that write | Talks to | Hard part | What makes it correct |
|---|---|---|---|---|---|
| Bookings (`modules/bookings`) | `bookings` rows: period, price, status, access code, check-in and check-out | create, updateStatus, update, remove, checkIn, checkOut, generateAccessCode | parkings (hours, price), notifications | conflict query and insert are two queries; saved copies are stale; notifications after the save | live bookings apart; price of the period; no code, check-in or check-out before its stage; notifications true |
| Payments (`modules/payments`) | `payments` rows; `users.stripeCustomerId` | createPaymentIntent, webhook, updatePaymentStatus, refundPayment | Stripe, bookings (updateStatus), notifications | two systems of record; events reordered, repeated, late; refund before save | the table never claims money that did not move; a paid booking gets confirmed |
| SpotSwap (`modules/spotswap`) | listings, offers, transactions | createListing, updateListing, cancelListing, createOffer, updateOffer, cancelOffer, respondToOffer, completeSwap | parkings, bookings and subscriptions (who may list), Stripe, notifications | one answer writes three tables in up to nine steps, and the offer last | one winner per listing, all others turned down; nothing completed before its end or without a winner |
| Subscriptions (`modules/subscriptions`) | subscriptions, pauses, sharings | create, update, cancel, pause, resume, share, respondToSharing, revokeSharing | plans, parkings, notifications | pause and subscription in two saves, the second with a stale list of pauses | one active subscription per user and parking; pauses within their number; no access after revocation |
| Subscription plans | plans | create, update, remove | | | |
| Users, Authentication, Verification, GDPR | the `users` row; consents, export and deletion requests | register, login, refresh, logout, verify e-mail, phone, identity and address, consent, withdraw, request, approve, reject and execute deletion | one another through the row and through events | four services write the same row, some of them whole copies of it; a deletion takes three queries | levels are earned and only grow; a withdrawn consent stays withdrawn; what is COMPLETED was erased |
| Parkings, price rules (`modules/parkings`) | parkings with features, photos, schedules and exceptions (each with time slots), price rules | create, update, remove, updateBasePrice; rules: create, update, remove | bookings (`checkAvailability`), pricing | update removes and re-creates children row by row, without a transaction; a save of a loaded parking compares all its children; the limit is counted before the insert | the limit of a level gives way by no more than what overlaps; the hours are those asked for last; children belong to a parking |
| Pricing suggestions (`modules/pricing`) | suggestions | suggestPrice, applyPriceSuggestion | parkings (updateBasePrice) | two services write two tables in turn | a suggestion says it was applied only if its price was set |
| Reviews | reviews | create, update, remove | notifications | | (no review can be stored, see section 5) |
| Notifications (`modules/notifications`) | notifications | create, markAsRead, markAllAsRead, remove | called by most services; gateway | stored first, sent afterwards, by one of several replicas | what is sent was stored, for that user; every open socket of the user at that replica gets it |
| Events gateway (`src/websockets`) | per replica, in memory: the map from users to sockets, the rooms | connect, disconnect, send_message, sendNotificationToUser | JWT, users | entry after an await; second sockets; sockets that left meanwhile; several replicas that know nothing of one another | the map is the socket entered last, unless it left; a message names its sender |
| Analytics, health, metrics | events | append | | | |
| Shell (`main.ts`, `core`, `config`, `providers`), scripts, operations | | | | | |

### 1.2 How a handler meets the database

`findOne` answers a copy. `save` is not one step: it selects the row again,
computes which columns of the copy differ from it, and updates those, or inserts
the copy when it finds no row. It does not notice a row that disappears between
its two queries. So the result of two racing handlers is neither of their rows
in general, but a mix of columns, and a deleted row can return. When the entity
was loaded with a one-to-many relation, `save` compares the children as well and
detaches those that the copy does not have, which a column that may not be null
refuses. `TypeOrm` and the save steps of each module model this.

## 2. The modules

| Module | Models | Corresponds to |
|---|---|---|
| `TypeOrm` | the part of `Repository.save` the services rely on | external, from its use in `src/` |
| `Bookings` | `bookings.service.ts` | `bookings` is the table; `calls[h]` is a handler with its next await (`pc`), its copy (`entity`), the columns to write (`cols`) and the notifications still to come (`todo`); each operation is an action up to its first await, each later await an action of `Step` |
| `BookingsProofs`, `PaymentsProofs`, `SpotSwapProofs`, `SubscriptionsProofs`, `AccountsProofs`, `ParkingsProofs`, `NotificationsProofs` | | proofs about the module each is named after (section 4) |
| `ParkingLimitProofs` | | the proof about the limit of parkings, on top of `ParkingsProofs` |
| `Payments` | `payments.service.ts` on top of `Bookings`, and Stripe | `payments` is the table, `pays[h]` the payment handler; a call of `BookingsService.updateStatus` runs the booking frame `calls[h]` of the same handler; `intents`, `events`, `customers` are Stripe's |
| `PaymentLedger` | what the table promises about money | abstract specification that `Payments` implements |
| `SpotSwap` | `spotswap.service.ts` | `listings`, `offers`, `deals` are the tables; `calls[h].todo` lists the awaits ahead in program order |
| `SwapMarket` | what the service promises its users | abstract specification that `SpotSwap` implements while requests come one at a time |
| `Subscriptions` | `subscriptions.service.ts` | `subs`, `pauses`, `sharings` are the tables; `calls[h]` as in `SpotSwap`, with the children loaded along (`seen`) and the pause or sharing at hand (`key`, `item`); `RemoveUser` and `RemoveParking` are the requests to other services that cascade to them |
| `Accounts` | `users.service.ts`, `auth.service.ts`, `verification.service.ts`, the deletion requests of `gdpr.service.ts` | `users`, `deletions` are the tables; `calls[h]` as in `SpotSwap`; handlers that save a loaded row go through `SelectUser` and `WriteUser`, handlers that update single columns do not |
| `Parkings` | `parkings.service.ts`, `price-rules.service.ts`, `pricing.service.ts` | `parkings` is one table, `kids` are the rows of all tables that hang from it, with their time slots; `calls[h].todo` is the program of queries a handler has ahead, computed from what it loaded and what the client asked; `SelectParking` and `WriteParking` are a save with all children, `CheckAvailability` is the function of that name |
| `Gateway` | `events.gateway.ts` | `sockets[s]` is a connection, `clients[r]` the map `connectedClients` of replica `r`; a room is the set of sockets that joined it; `Connect` and `Enter` are `handleConnection` before and after its await |
| `Notifications` | `notifications.service.ts` on top of `Gateway` | `notes` is the table, `calls[h]` a handler at replica `calls[h].at`; `Emit` is the call of `sendNotificationToUser` |
| `MCBookings`, `MCPayments`, `MCSpotSwap`, `MCSubscriptions`, `MCAccounts`, `MCParkings`, `MCNotifications` | | symmetry and constants for TLC |

`was` in `Bookings`, `SpotSwap` and `Subscriptions` is history: the statuses a
stored row has had. `moved` in `SpotSwap` is history too: the listings that an
update gave another time or another parking. So are `priced`, `offered` and `alone` in
`Parkings` and `entered`, `early` and `written` in the gateway. No guard reads
them except to hand out fresh keys. `priced` holds the prices a parking has had,
and `Absent` among them once it was removed; `was` of `Bookings` and of
`Subscriptions` says "deleted" then.
Definitions whose name has the form `Operator_Slip` are faulty variants of an
operator; each shows that a property would notice such a slip.

What the models leave out of these components:

* texts, amounts in cents, Stripe's secrets, search and statistics queries, and
  `checkAccess` and the usage report of subscriptions, which only read;
* opening hours and price rules in `Bookings` (any period is open, and
  `calculatePrice` is its first line only, the base price times the duration):
  `checkAvailability` is in `Parkings`; what a rule says of a price is not modelled,
  and a conflict between applied price rules and `update` of a booking is listed as a
  hazard;
* removals that cascade into a component from outside: `Bookings` to `Payments` and
  users and parkings to `Subscriptions` are modelled, and so are the children of a
  parking. Removing a user also removes their payments, listings, offers and
  notifications, and removing a user or a parking their bookings; the models of
  these have no such step. A row that refers to one of them without a cascade, as a
  listing does to its parking, makes PostgreSQL refuse the removal, which then changes
  nothing. The foreign keys themselves are PostgreSQL's and no property is about them;
* the size of a parking, which hangs from it by an eager one-to-one relation and is
  otherwise written like its features. Neither side of it has a join column, and the
  same holds for `notificationData` of a notification: TypeORM 0.3 may refuse a
  query that is to join them, and then every `findOne` of a parking and every
  `markAsRead` fails. `Loaded` of `Parkings` and `MarkAsRead` of `Notifications`
  assume that the rows can be loaded; the texts, the
  coordinates and the searches; the heuristics behind a suggested price, which
  may come to any price;
* the contents of notifications; `sendBookingUpdate` and `sendParkingUpdate`,
  which nothing calls;
* the period of a listing that refuses partial days, and required exchanges:
  they are flags of the listing that restrict who may offer what;
* `handlePaymentCompleted` of SpotSwap, which nothing calls;
* passwords and the contents of tokens in `Accounts`: bcrypt compares 72 bytes,
  in which two refresh tokens of one user do not differ, so that the stored one
  says only whether there is a session; the phone a code was sent to stands for
  the code; expired codes are refused and change nothing;
* consents (rows that are only inserted, and read by `hasConsent` alone) and
  export requests (which write nothing but their own status);
* validation of requests by DTOs: requests are drawn from values that pass it.

## 3. What is checked

| Run | Module | Actors and bounds | Question |
|---|---|---|---|
| `bookings_serial` | `MCBookings` | 1 handler, 2 bookings, 2 users, 4 requests, 1 death, time 0..2 | Do all operations in every order keep types, live bookings apart (`OverlapOnlyByRevival`), prices (`PricedForItsPeriod`) and notifications (`NotesAreTrue`) right, also across a death? |
| `bookings_race` | `MCBookings` | 3 handlers, 1 booking, 5 requests | Do stale copies ever bring a code, check-in or check-out before its stage (`StagesInOrder`)? They do not: the copy was once the row. |
| `double_booking` | `MCBookings` | 2 handlers, 2 creates | Finding: two creates book the same time (`NoDoubleBooking`). |
| `payments_race` | `MCPayments` | 2 handlers, 1 intent, 4 requests, 1 repeated event | Does the payments table keep to the money (`MoneyBacksStatus`, `ImplementsLedger`) and do refunds do to money and bookings what they tell (`RefundsAreAsTold`)? |
| `payments_progress` | `MCPayments` | 2 handlers, 3 requests, 1 death | Is every paid booking confirmed in the end, unless somebody deletes it (`PaidGetsConfirmed`), does Stripe keep the event until then (`PaidIsRemembered`), is every owner told (`OwnerHearsOfBooking`)? |
| `webhook_without_body` | `MCPayments` | `RawBody = FALSE` | Finding: as `main.ts` starts the application, no paid booking is ever confirmed. |
| `spotswap_serial` | `MCSpotSwap` | 1 handler, 2 parkings, 2 listings, 2 offers, 3 users, 5 requests, time 0..2 | Does the service implement `SwapMarket`, keep active listings apart (`ActiveListingsApart`), give each to one offer (`OneWinner`), and complete nothing early (`CompletedAfterEnd`)? |
| `spotswap_race` | `MCSpotSwap` | 2 handlers, 1 listing, 2 offers, 4 requests, 1 death | What survives races and deaths: `WinnersBookedTheListing`, `CompletedWasWon`, `AcceptanceComesTrue`. |
| `subscriptions_race` | `MCSubscriptions` | 2 handlers, 2 subscriptions, 2 pauses, 1 sharing, 4 requests (removals of users and of the parking among them), 1 death, time 0..2 with two ticks a day, an allowance of 1 pause of at most 2 days | Are pauses charged against records under races, removals and deaths (`PausesAreCharged`)? While nothing overlaps or dies: is a second active subscription only possible by pausing (`TwoActiveOnlyByPausing`), does the end make up for the pauses (`EndMakesUpForPauses`), is a revocation final (`RevokedStaysRevoked`)? |
| `accounts_race` | `MCAccounts` | 2 handlers, 2 accounts, 1 deletion request, 2 phones, 4 requests, 1 failure; a user at level 0, 2 or 3 at the start | Is every level earned step by step whatever stale copies are saved (`LevelsAreEarned`), is nobody anonymised without approval (`ErasedWasApproved`)? While requests do not overlap: do flags agree with levels (`FlagsMatchLevel`), do levels only grow (`LevelNeverFalls`), was a completed deletion carried out (`CompletedMeansErased`), is a logout final (`LoggedOutStaysOut`)? |
| `parkings_race` | `MCParkings` | 2 handlers, 3 parkings, a limit of 1, 2 users (of level 3 and 2), 2 weekdays, 2 dates, 4 requests, 1 death | Does the limit give way by no more than the overlap, also when removed parkings come back (`LimitExceededByOverlapsOnly`)? Was every applied price set, unless its parking was removed and brought back (`AppliedWasSet`)? Does a change of hours that nothing overlaps leave exactly these hours, whatever overlaps and deaths before it left behind (`OpenAsAsked`)? |
| `gateway_race` | `MCNotifications` | 2 sockets, 2 users, 2 replicas, 1 handler, 1 notification, 2 requests, 1 chat message, 1 crash | Is the map what the sockets have done (`MapIsUpToDate`), is all that is received true (`InboxIsTrue`), and does a notification reach every open socket of its user at the replica that sends it (`HeardByEverySocket`)? |

Why these bounds are enough. A rule about two rows needs two rows; a rule about
one row and stale copies needs one row. A lost update needs two handlers, and a
third lets one copy be overtaken twice. Reaching a completed booking takes
create, confirm, check-in and check-out, and the fifth request of
`bookings_race` races with any of these. Times 0..2 hold two periods that touch,
two that overlap and one inside another; the closed comparisons of the queries
make touching ones conflict. An intent of 40 with refunds of 20 and of the rest
has partial, double and total refunds, and one of 60 is refused. In
`spotswap_serial` the host owns the first of two parkings, so that a listing can be
moved to one where its owner may list nothing. The limit of
parkings is 3 in the code and 1 in `parkings_race`: what exceeds it is the
overlap of two requests, and a third parking shows that it is no more than that.
A query has a date and a weekday that need not belong together, because the code
takes the date in UTC (`parkings.service.ts:587`) and the weekday and the hours where
the server stands (`:573`, `:599`). Two weekdays, and dates with an exception that
closes, with one that opens and with one of each, give `checkAvailability` each of
its outcomes. Two
sockets are enough for one to replace the other in the map, at the same replica,
and to be apart at two. A run with one handler asks what the
sequential logic guarantees; the same module with more handlers asks what is
left of it under concurrency. The bounds are the constants `MaxTime`,
`MaxRequests`, `MaxFailures` and `MaxDuplicates`; `KeysLeft` keeps an insert from
running out of keys. Runs stop when these are used up, so deadlock is not
checked.

Properties that need `Handlers = {h1}` are stated under "while requests come one
at a time" in their modules. They fail with more handlers, as
`double_booking` shows for the rule that the code states most plainly. `Subscriptions` keeps both kinds
in one run instead: its history variable `clean` says that no requests have
overlapped and none has ended half way. In `Accounts` it says only the former, so
that its properties hold across failures. `Accounts` starts with a user who has
come to some level already, with the documents that the level takes
(`StartLevels`, `StartDocuments`): the way from 0 to 4 takes ten requests, and
each stretch of four of them is in the run. `OpenAsAsked` of `Parkings` needs less:
`offered` remembers the hours of the last change that nothing overlapped,
whatever happened before it, until something interferes with the parking again.

`DetachModes` of `Subscriptions` says what `save` does with children that the
entity was loaded without. As the relations are declared it detaches them, and
then pausing never succeeds and resuming is never possible; with
`orphanedRowAction: 'disable'` in the entity it would leave them alone. The run
lets the initial state choose, so that everything is checked for the code as it
stands, and resuming for the code with that declaration.

Fairness. `FairSpec` and `FairPaySpec` assume weak fairness of the steps of a
handler that was started, because Node resumes a handler when its query answers
and each query answers or fails; and of the delivery of an event that has not
been acknowledged, because Stripe repeats it. `FairSpec` of `Notifications` assumes
only that a handler goes on while its replica lives: `emit` follows the insert in
the same continuation. Nothing makes a client connect, or a connection last, and
`HeardByEverySocket` allows for sockets that close. Nothing is assumed of clients and
customers, deaths are never forced, and no step needs strong fairness. The
liveness properties that cannot survive a death say so: `OwnerHearsOfBooking`
and `AcceptanceComesTrue` hold unless a handler died, because nothing in the
code repeats what it was doing. `PaidGetsConfirmed` survives it, through Stripe.

## 4. What is proved

Every invariant and every action property that a passing run checks is a theorem
of the specification, for any sets of rows, users and handlers and any bounds;
so are the two refinements.

| Module | Theorem | States | Holds |
|---|---|---|---|
| `BookingsProofs` | `TypeCorrect`, `StagesAreInOrder` | `TypeOK`, `StagesInOrder` | always |
| | `OverlapsAreRevivals`, `PricesFollowPeriods`, `NotesTellTheTruth` | `OverlapOnlyByRevival`, `PricedForItsPeriod`, `NotesAreTrue` | under `OneAtATime`, deaths included |
| `PaymentsProofs` | `PayTypeCorrect`, `RecordsAreBacked`, `RefundsDoAsTold`, `StagesSurvivePayments` | `PayTypeOK`, `MoneyBacksStatus`, `RefundsAreAsTold`, `StagesInOrder` | always |
| | `NoPaymentIsForgotten` | `PaidIsRemembered` | always |
| | `PaymentsImplementLedger` | `ImplementsLedger` | always |
| `SpotSwapProofs` | `SwapTypes`, `WinnersBooked`, `CompletedListingsWereWon` | `SwapTypeOK`, `WinnersBookedTheListing`, `CompletedWasWon` | always |
| | `ListingsStayApart`, `CompletionsAreTimely`, `OneOfferWins` | `ActiveListingsApart`, `CompletedAfterEnd`, `OneWinner` | under `OneAtATime`, deaths included |
| | `SwapImplementsMarket` | `ImplementsMarket` | under `OneAtATime` and `MaxFailures = 0` |
| `SubscriptionsProofs` | `SubTypes`, `ChargesAreBacked` | `SubTypeOK`, `PausesAreCharged` | always |
| | `SecondsComeFromPauses`, `EndsMakeUp`, `RevocationsAreFinal` | `TwoActiveOnlyByPausing`, `EndMakesUpForPauses`, `RevokedStaysRevoked` | always; the properties speak of the time while `clean` |
| `AccountsProofs` | `AccTypes`, `LevelsWereEarned`, `ErasuresWereApproved` | `AccTypeOK`, `LevelsAreEarned`, `ErasedWasApproved` | always |
| | `FlagsFollowLevels`, `CompletionsWereCarriedOut`, `LevelsOnlyGrow`, `LogoutsAreFinal` | `FlagsMatchLevel`, `CompletedMeansErased`, `LevelNeverFalls`, `LoggedOutStaysOut` | always; the properties speak of the time while `clean` |
| `ParkingsProofs` | `ParkTypes`, `AppliedSuggestionsWereSet`, `HoursAreAsAsked` | `ParkTypeOK`, `AppliedWasSet`, `OpenAsAsked` | always; the last speaks of hours that nothing interfered with since |
| `ParkingLimitProofs` | `OverlapsBoundTheExcess` | `LimitExceededByOverlapsOnly` | always |
| `NotificationsProofs` | `GatewayTypes`, `MapsAreUpToDate`, `InboxesAreTrue` | `GatewayTypeOK`, `MapIsUpToDate`, `InboxIsTrue` | always |

`OneAtATime` says that there is no second handler. It is a hypothesis of the
theorem and no assumption of the module: the same modules have other theorems
and runs without it. The properties that need it fail with two handlers.

### Assumptions

The assumptions on the constants are named in the module that declares them
and TLC evaluates each of them: `BookingConstants`, `PaymentConstants`,
`SwapConstants`, `SubConstants`, `AccountConstants`, `ParkConstants`,
`GateConstants` and `NoteConstants` give the constants their types, say that
`NoId` and the like are no keys, and that administrators are users; the
assumptions with a name `AbsentIsNo...` say that the value for "no row" is no
row, and `NoEventIsNoEvent` that the value for "no event" is no event. Finiteness is assumed only where something is counted or enumerated: of
the parkings, the handlers and the names of an ask in `ParkConstants`. It also
asks for one handler at least, and for weekdays in some order.

### The arguments

The properties speak of rows. A row gets its columns from copies that handlers
took earlier, so hardly any of them is inductive. In every module the inductive
invariant says of the copies, and of the awaits a handler has ahead, what the
property says of the rows, in such a form that age does no harm.

*Bookings.* `IInv` adds that every row is *backed* by its history (`RowsBacked`),
and every copy too (`CallsBacked`). Two facts carry the induction: `was` only
grows, so that a copy that was backed stays so however old it gets, and each of
the implications concerns a single column, so that a mix of two backed rows is
backed (`PatchedBacked`). With one handler, `SerialInv` says that the handler
finds what it has read as it read it (`CallsSeen`): the row it loaded, the
absence of a conflict, the status it is about to notify. A handler may die at
any await; then nothing is left of what it knew.

*Payments.* `PIInv` is `IInv` and `PayInv`: what a payment claims is said of rows,
copies and events under way at once (`RowTrue`, `EventTrue`), down to the amount,
because a refund cancels the booking when what it sends back equals the amount of
its copy. It survives because the money at Stripe only
moves forward (`Forward`): what was captured stays captured, the refunded sum only
grows and never exceeds the amount (`Within`), and the booking of an intent never
changes. A handler of a refund (`OfRefund`) has sent back the sum it will tell
(`SentBack`), and what was told stays sent back (`ReceiptsTrue`). That an intent is
recorded by nobody but the handler that created it (`RecordsFirst`) makes the
insert harmless. The refinement (`PaymentsImplementLedger`) goes action by
action: a step of a handler is a step of the ledger when it writes a payment or
moves money, and none otherwise. `NoPaymentIsForgotten` is the safety half of
`PaidGetsConfirmed`, and takes a second invariant, `PaidInv`: it follows each
handler that serves a success from the delivery to the answer 200 (`Attends`),
and the booking frame it waits for (`Carrying`). That frame carries a confirmed
copy; its `save` stores the status, or the row said so already when `save`
compared it, or the row is gone. In each case the history of the booking says
"confirmed" or "deleted" before the frame ends, and history only grows. A frame
that fails ends the handler with it, and the event stays. The same argument follows
a refund of the whole amount (`OfAll`) to the cancelation of its booking (`Aim`), and
gives the second half of `RefundsAreAsTold` (`CalledOff`): who is told of a total
refund has had the booking canceled, or it was deleted.

*SpotSwap.* The awaits a handler has ahead come in an order (`Rank`), and `SwapInv`
says of each what has been done when it is reached. An offer never goes over to
another listing, so that a copy that says "accepted" is still before the await
that books the listing, or that listing has been booked. With one handler,
`SerialInv` says what every await finds. The refinement of `SwapMarket`
(`SwapImplementsMarket`) needs that nobody dies as well, because the answer to
an offer writes three tables in turn and the market shows it at once: the mapping
adds to the rows what the handler at work has still ahead (`View`), and the proof
shows for each await which step of the market it is, or that nothing changes.
That each listing has one winner is proved of the market (`MarketWon`) and carried
over to the stored offers. A death takes back what the market showed too early, and
never adds a winner, so that `OneOfferWins` needs no bound on deaths.

*Subscriptions.* A save writes the columns in which a copy differed. `SubInv` says
that the two counters differ together or not at all, and that a copy is charged
for no more pauses than are recorded, or its subscription was removed once: a pause
goes only with its subscription, and the history never forgets that (`Grown`).
`CleanInv` holds while nothing overlaps or
dies: besides what a handler sees it says that the end is balanced, of the row or,
between the two saves of a pause, of the copy about to be saved
(`RowsBalanced`). The sum over the pauses is a `MapThenSumSet`, a recursive
function that takes elements out in an order that `CHOOSE` determines; the lemmas
`OneByOne` to `TookSame` show that the order is of no account, by induction over
finite sets as the well-foundedness of inclusion, and that a new pause adds its
length.

*Accounts.* `AccInv` says column by column what the user has done for it, of every
row and every copy (`RowEarned`): a mix of two rows of one user is as true as both.
`CleanInv` adds, while no requests overlap, that the handler's copy is the row but
for what it means to save; flags, levels, erasures and sessions follow, and
two of the four properties are action properties. Failures half way are allowed.

*Parkings.* What a handler has ahead is a program put together from what a client
asked for and from what was loaded. `ParkInv` says that programs consist of
well-formed queries (`Handled`) and that the tables refer to rows that are there
(`Tables`). That a flattened sequence of programs is a program is
an induction on its length (`Upwards`), which also rests on well-foundedness. A mark
on a suggestion is ahead only after the price was set (or the parking gone).
For the limit, `LimitInv` counts: the parkings that are or can again become a user's
(`Held`: its row, or a copy some handler may bring back), and the handlers that are
about to insert one for the user, are no more than the limit and all handlers but
one. No handler stands for two (`OneOwner`, and one copy per handler).

That a parking is open at the hours asked for (`HoursAreAsAsked`) is not inductive
at all: halfway through an update the tables hold neither the old hours nor the new
ones. `HoursInv` is about the rows themselves. Each is numbered with the request
that made it (`AllNumbered`), and the hours of a parking are a `Timetable`: exactly
the schedules and exceptions, with their slots, that one earlier request made
(`Settled`). Of the handler that nothing overlaps it says that its program is a
`Plan`: what it adds was asked for and is filled by a later query, what it removes
is older and belongs to no timetable that stands. `Rebuilding` relates program and
tables: what is there and what is to come are the hours asked for, and every other
timed row of the parking is still to go, so that with the last query the
rows are a timetable again (`Rebuilt`). The save that opens an update would change
rows if it found others than it had loaded; alone it finds the same (`UpToDate`),
and writes none (`SavedAsLoaded`). A failure or an overlap promises nothing, and only what
the numbers say is kept. `TimetableAnswers` reads `checkAvailability` off a timetable.
The proof covers asks with several exceptions for one date as well; there
`checkAvailability` takes the first that it finds among rows without an order, and
the property says that one of them decides.

*Notifications.* A socket is entered once, for its user and at its replica, by the
handler that ends its check (`GateInv`). Neither the user of an opened socket nor
the recipient of a stored notification ever changes, so that what was sent stays
true (`InboxTrue`).

Each theorem of an invariant has one step per action of `Next` under it, and the
temporal steps use PTL.

### Only model-checked

* The liveness properties `PaidGetsConfirmed`, `OwnerHearsOfBooking`,
  `AcceptanceComesTrue` and `HeardByEverySocket`: they rest on fairness, and the
  prover has neither rules for it nor for `ENABLED`. Of the first, what must not
  happen on the way is proved (`NoPaymentIsForgotten`). Its run has one intent;
  with several, weak fairness of the deliveries would not do for a bounded number
  of handlers, which events of unknown intents could keep busy.

## 5. What the code and its comments disagree about

The two findings in `PROJECT.json` have a run each. Others met while
modelling, not shown by a run of their own:

* pausing a subscription records the pause and then fails, and the subscription
  stays active: `save` gets an entity that was loaded with the earlier pauses,
  detaches the new one, and `subscriptionId` may not be null
  (`subscriptions.service.ts:326`; the state space of `subscriptions_race`
  contains it, with `DetachModes` on);
* accepting an offer rejects "toutes les autres offres"
  (`spotswap.service.ts:716`), but the status tested is the one loaded at the
  start (`:695`): two answers at once accept two offers for one listing;
* an entry of `connectedClients` is to go when its socket does
  (`events.gateway.ts:74`), but a socket that leaves while its user is looked up is
  entered afterwards and for ever; it may displace one that is open, which is
  then refused as "Unauthorized" (`MapIsUpToDate` says exactly when);
* a notification is sent "en temps réel" (`notifications.service.ts:30`) only to
  sockets at the replica that stores it: `deployment.yaml:10` asks for three
  replicas, and there is no adapter between their gateways;
* an exception that is available and has no slots yet opens the whole day
  (`parkings.service.ts:609`), so that a date is open at any hour between the
  insert of its exception and that of its slots, and stays so after a failure;
* `checkAvailability` looks for an exception at the date in UTC
  (`parkings.service.ts:587`) and for the schedule at the local weekday (`:573`):
  where the server does not stand in UTC, a request near midnight meets the exception
  of one day and the hours of another;
* `checkAvailability` compares the hours of the start and the end only
  (`parkings.service.ts:630`): a booking from Monday 9:00 to Wednesday 11:00 is
  within Monday's hours 8:00 to 12:00;
* `updateListing` takes a new `parkingId` from the client and checks neither that
  its owner may list there nor that the listing overlaps another
  (`spotswap.service.ts:200`); `ActiveListingsApart` exempts what was moved;
* two partial refunds that together make up the whole amount leave the booking
  confirmed: each compares its own amount with that of the payment
  (`payments.service.ts:339`), so `RefundsAreAsTold` speaks of single refunds;
* a subscription that was removed with its user can return: a stale `save` finds no
  row and inserts its copy (`subscriptions.service.ts:326`), once a stale `save` of the
  profile has brought back the user (`users.service.ts:72`). It has its charges then, but
  neither its pauses nor its sharings; `PausesAreCharged` makes the exception that
  this needs;
* an update or an applied price fails when a rule, a feature or a schedule was
  created for the parking since it was loaded, because `save` would detach
  the new row (`parkings.service.ts:301`, `:647`);
* a suggestion can be marked as applied although its price was never set: when
  the parking is removed after `updateBasePrice` compared it, the UPDATE of the
  price meets no row, `save` does not notice, and the parking may come back with
  the save of an update (`pricing.service.ts:116`). It takes
  three requests at once; `AppliedWasSet` makes the exception that this needs;
* a notification of a status can be sent that was never stored, when the booking
  is deleted between the two queries of `save`, which then updates no row
  (`bookings.service.ts`, `updateStatus`). That is why `NotesAreTrue` is stated
  while requests come one at a time;
* a booking can stay unconfirmed although it was paid and Stripe was answered 200,
  when it is deleted while the webhook confirms it: the confirmation updates no
  row, and a stale update of the booking and a stale refund of the payment insert
  both rows again. It takes four requests at once, more than a run has handlers;
  the attempt to prove `PaidIsRemembered` without its exception for deleted bookings
  showed it. That is why the history records a deletion, and why
  `PaidGetsConfirmed` and `PaidIsRemembered` are content with one;
* `updateBasePrice` of `PriceRulesService` is never called;
* no review can be stored: `parkingId` or `targetUserId` is set to the empty
  string, which is no uuid (`reviews.service.ts:96`);
* a customer may open and pay two intents for one booking, because only a
  succeeded payment is looked for (`payments.service.ts:92`);
* pausing a cancelled subscription is allowed, and resuming it then makes it
  active (`subscriptions.service.ts:276`);
* `hasConsent` still answers yes after a consent was withdrawn
  (`gdpr.service.ts:71`);
* every export of data ends as FAILED, because the entity `User` has none of the
  relations that are asked for (`gdpr.service.ts:162`);
* who verifies the phone first is never sent a link for the e-mail
  (`verification.service.ts:33`);
* changing the phone or the e-mail of the profile leaves them verified
  (`users.service.ts:71`);
* removing a user who ever asked for deletion fails: the request would lose its
  `userId`, which may not be null (`data-deletion-request.entity.ts:22`);
* a completed swap transaction is impossible: `handlePaymentCompleted` is never
  called (`spotswap.service.ts:845`);
* the amount of a payment intent is what the customer asks for, and not compared
  with the price of the booking (`payments.service.ts:118`);
* an administrator's cancelation through `update` keeps the access code that
  `updateStatus` would clear (`bookings.service.ts:386`).

## 6. Plan

Done: 1. `TypeOrm`, `Bookings`, `BookingsProofs`; 2. `Payments`, `PaymentLedger`;
3. `SpotSwap`, `SwapMarket`; 4. `Subscriptions`; 5. `Accounts`; 6. `Parkings`;
7. `Gateway`, `Notifications`; 8. proofs about the gateway, notifications and
parkings; 9. proofs about bookings, payments, swaps, subscriptions and accounts,
with both refinements; 10. the proof of `OpenAsAsked` of `Parkings`, for asks with any
number of exceptions for one date; 11. the safety half of `PaidGetsConfirmed`.

Next:

12. The safety half of `OwnerHearsOfBooking`: that a handler which stored a new
    booking and has not died is still on its way to tell the owner.

Not planned, and why: consents and exports (section 2); reviews (no row can be
stored); subscription plans (one table without rules across rows); analytics,
health and metrics (no rules across states); the pricing heuristics
(floating-point tables); the shell and the scripts.
