# Enterprise helpdesk: specification, model checking and proofs

The back end in `src/` is a NestJS application over MongoDB. Request handlers run
concurrently in one or more server processes and meet only in the database. This
directory holds TLA+ specifications of its state-changing logic, TLC
configurations that check them on small instances, and theorems, checked by TLAPS,
that hold for every instance.

Contents: [the system](#the-system) - [modules](#modules) -
[reading the code as actions](#reading-the-code-as-actions) - [runs](#runs) -
[what does not hold](#what-does-not-hold) - [proofs](#proofs) -
[bounds](#bounds) - [fairness](#fairness) - [not modelled](#not-modelled) - [plan](#plan)

## The system

Paths are below `src/src/`. *Hard* names the behaviour that a test hardly reaches;
*correct* the properties that make the part right. `PROJECT.json` has the status of
every part and the hazards line by line.

| Part | State | Operations | Hard / correct |
|---|---|---|---|
| `supply-requests` | `SupplyRequest`: status, approver, lines (catalog item, line status, linked purchase request, units arrived), pieces received | create, manager approve / reject / request changes, resubmit, review lines, approve, reject, receive (collect), fulfil, goods arrival | handlers read a copy and save it later; a review has side effects on other collections before its own save. Lines live one linear life; a closed request stays closed; a line is issued once |
| `purchase-requests` | `PurchaseRequest`: status, approver, quantity received, link to one line of one supply request | create, approve (with the linked supply request), reject, cancel, receipt | approval spans two documents with a hand-written undo. Never received beyond its quantity |
| `goods-receipt` | receipts | against a purchase request, restock, new item | one transaction over purchase request, stock or asset register, and supply request. Arrivals are backed by receipts |
| `supply-catalog` | `stockQty` and type per catalog item | create, import, change of type, adjust (conditional), recalculate | concurrent deductions; counts written over changes. Never negative; for tagged items the pieces in store |
| `assets`, `maintenance-history` | `Asset`: number, status, holder, history, reservation; repair records | create, import, assign, return, repair, retire, remove, reserve, release, claim | find-then-reserve; stock and repair records kept beside the register. A reserved piece is given to its request only; history names the holder; a number never comes back |
| `common` | cached segregation-of-duties switch; derived status; transactions | `sodEnforced`, `deriveSupplyStatus`, `runInTransaction` | a load in flight survives an invalidation. Checks go by the setting in the end |
| `room-bookings`, `rooms` | bookings, room locks with an expiry, maintenance windows | create, import, approve, reject, reschedule, request change, cancel, check in / out, release no-shows, maintenance | approval without the lock, a lock that expires under its holder. No two approved bookings of a room overlap |
| `room-invites` | guest list, door code, check-ins of a booking | open / close invitations, add, remove, join by code | capacity and list checked on a copy. A guest enters once; a removed guest stays out |
| `tickets`, `sla-monitor`, `sla-policies` | `Ticket`: status, pauses, SLA flags | create, import, assign, change status, remove; a breach check every minute | the check saves copies read before it notified. Nothing keeps two runs of the check apart. Deadlines move by the time waited; no more runs report a breach than overlap; it is marked in the end |
| `auth`, `mfa-attempts`, `sessions`, `users` | failure counts, lock, second factors, one-time challenges, mailed codes, sessions | log in, verify code, set up and remove methods, reset password, deactivate, revoke | check-then-act on counts and challenges. A lock holds; sessions end with what they rest on |
| `users`, `roles`, `departments` | role and department of a user; list of managers of a department | create, import, update, remove | one save of a user writes up to three documents. The lists follow the roles |
| `settings` | organization settings | update | - (the switch: see `common`) |
| `branches`, `ticket-types`, `canned-responses`, `ticket-messages` | reference data, content | single-document writes | - |
| `notifications`, `mail`, `realtime`, `audit-logs` | messages after the fact | append, send | nothing depends on their delivery |
| `announcements`, `kb-articles`, `uploads`, `dashboard`, `reports` | content, files, read-only aggregation | - | - |

How they interact in the parts modelled:

```
 requester ---create/resubmit/collect---> SupplyRequest <---review/approve/reject/fulfil--- warehouse
                                           |  ^  ^      \
                         link (line -> PR) |  |  | arrival, one transaction   \ claim (entitles a person to a piece)
                                           v  |  |                            v
 buyer -----approve/reject/cancel------> PurchaseRequest <---goods receipt---> Asset, stock of the catalog
                                                                               ^        |
                                            assign/return/repair/recount ------+        +--> repair records

 employee --create/reschedule/cancel/check in, out--> RoomBooking <--approve/reject/ask-- approver
              |  under the room's lock                  ^   ^  |
              v                                         |   |  +-- guest list, door code, check-ins <-- scans
          RoomBookingLock --expires--> (database)       |   +-- no-shows: by whoever looks at the room
                                                        +-- maintenance: cancel, ask for a change

 agent --create/assign/change status--> Ticket <--every minute-- breach check --> notices
 client --password, code--> account, challenge --> session <--revokes-- office (deactivate, remove), owner (reset)
 office --save of a user--> user, then the manager lists of two departments
 setting of segregation of duties --> cached copy of each server process --> checks of assign, approve, ...
```

## Modules

| Module | What it is |
|---|---|
| `SupplyLines` | Line and request statuses and the status derived from the lines (`common/utils/supply-line-status.util.ts`). The derived status depends only on which line statuses occur, so it takes that set. |
| `LineLifecycle` | The abstract specification of the lines: an undecided line is decided (by a review or by arriving goods), a READY line is collected, nothing else ever happens to a line. |
| `Procurement` | The detailed specification: supply requests, purchase requests, goods receipts, the stock of consumables, the asset register as reservations meet it, and the handlers over them. Implements `LineLifecycle`. |
| `AssetLedger` | The asset register in full, the catalog with its stock beside it, repair records, receipts without a purchase request, claims of requests that are ready. |
| `RoomBooking` | Bookings, their approval and rescheduling, the lock of a room and its expiry, check-in and no-shows, maintenance. |
| `RoomInvites` | The guest list of one booking, its door code, and admission at the door; the life of the booking itself is reduced to its time (early, open for guests, ended) and status. |
| `Tickets` | Tickets with their pauses, SLA policies, departments, and the breach check, whose runs work over copies and may overlap. |
| `Login` | One account: password, lock, second factors, codes, challenges, sessions, the changes of the account that end them, and the role that requires a second factor or not. |
| `Staff` | Users, roles, departments and the lists of managers. |
| `SodCache` | The switch of segregation of duties, its updates, and the cached copy of one server process. |
| `MC*` | Small instances and symmetries for TLC; one `.cfg` per run. |
| `Procurement_proofs` | Types; stock and reservations; arrivals. |
| `Lifecycle_proofs` | The refinement; requests worked on by one handler at a time. |
| `RoomBooking_proofs` | Types, decisions, exclusion by the lock, no double booking, numbers. |
| `RoomInvites_proofs` | Types, one admission per guest, removed guests, capacity, the list. |
| `AssetLedger_proofs` | Types, history, segregation of duties, numbers, repair records, stock. |
| `Tickets_proofs` | Types, pauses, breaches, notices. |
| `Login_proofs` | Types, locks, challenges, wrong codes, sessions, methods. |
| `Staff_proofs` | Types, lists of managers. |

`AssetLedger` and `Procurement` meet in the asset register: `Procurement` takes reservation
and collection in every interleaving and the rest of the register (assign, return, change of
status, removal) as one action each,
`AssetLedger` takes the register in every interleaving and a request as a row with a
quota. `SodCache` gives the switch that both take as a constant, `RoomBooking` the times
and the status that `RoomInvites` moves through.

## Reading the code as actions

### Supplies

*Variables.* `sr`, `pr`, `stock`, `asset` are collections: a row per identifier.
`op[q]` is the handler that process `q` runs: the step it is at, the copy of the
request it has read (`doc`), what it still has to write (`todo`, `pick`), and whether
the copy is outdated (`stale`). `issued` is a history variable: how often the stock
of a line has been deducted.

*Steps.* A handler without a transaction is one action up to its first write and one
action per later write. The reads that follow its first read are folded into that
action; the reads between two writes are in the action of the later one. Goods
receipt and collection run inside `runInTransaction` and are one action each.

| Code | Actions |
|---|---|
| `create` (claims purchase requests one by one, then inserts; releases on failure) | `CreateBegin`, `CreateClaim`, `CreateSave`, `CreateFail` |
| `managerApprove`, `managerReject`, `managerRequestChanges` | `ManagerBegin`, `ManagerSave`, then `RejectRelease`, `RejectUnlink` |
| `resubmit` | `ResubmitBegin`, `ResubmitSave` |
| `reviewLines`, line by line, then one save | `ReviewBegin`; `ReviewLink`, `ReviewConsumable`, `ReviewPick` + `ReviewReserve`, `ReviewOrder`, `ReviewOrderLinked`, `ReviewReject`; `ReviewSave`, `SaveConflict`, `ReviewFail` |
| `approve` | `ApproveBegin`, `ApproveSave`, `ApproveConflict` |
| `reject` | `RejectBegin`, `RejectSave`, `RejectRelease`, `RejectUnlink` |
| `receive` (transaction) | `Receive` |
| `fulfill` | `FulfillBegin`, `FulfillDeduct`, `FulfillSave`, `FulfillFail` |
| `PurchaseRequestsService.approve` with its linked request | `PrApproveBegin`, `PrApproveSave`, `PrApproveLinked`, `ApproveSave`, `ApproveConflict`, `PrRevert` |
| `PurchaseRequestsService.reject`, `cancel` | `PrDecideBegin`, `PrDecideSave` |
| `GoodsReceiptService.receive` with `applyReceiptInTx`, `applyArrivalInTx` (transaction) | `GoodsReceipt` |
| `AssetsService.assign`, `returnAsset`, `setStatus`, `remove` (the last two do not look at reservations) | `AssignDirectly`, `ReturnAsset`, `SetStatus`, `RemoveAsset` |
| a server that stops | `Crash` |

*What a save does.* The services rely on Mongoose: `save()` writes the paths that
changed since the document was read. When the lines are written as a whole
(`markModified('items')`, or a new array) the update is conditional on the version of
the document and increments it; when only a field of a line changed, it is
conditional but does not increment; when only scalar fields changed, it is
unconditional. So: a write of the lines outdates every copy read before (`Outdate`),
a save that carries lines asks `VersionHolds`, and a save of `status` and
`approvedBy` alone does neither - it writes over whatever happened since the read.
`ReviewedDoc` writes `status` only when it differs from the copy, as Mongoose does.

*What is abstracted.*
- Segregation of duties is on, the default of `sodEnforced()`.
- Permissions are sets of users: `Approvers` (`supplies.approve`), `Stockkeepers`
  (`supplies.manage`), `Overriders` (`supplies.fulfill` with `assets.assign`),
  `Managers` (department manager or super admin). Collectors are the requester and
  overriders; delegates, custodians and department managers would collect under the
  same conditions.
- `ManagerStage` is the set of requests that have a manager's stage (`resolveManagerStage`).
  It is the same at creation and at resubmission: a request that is sent back and whose
  department loses its managers meanwhile goes straight to the warehouse, by design
  (`supply-requests.service.ts:805`), and is outside the set. `manager` of a request is who
  let it pass (`managerApprovedBy`).
- A line has a fixed quantity (`Qty`) and a name that matches at most one catalog item
  (`NamedCat`); every purchase request restocks a fixed item (`PrCat`), from the
  start PENDING.
- A review names each line at most once, in any order; fulfilment deducts in any order.
- The pieces scanned at collection are counted per catalog item instead of matched one
  by one to lines of that item.
- The stock of a tagged item is the number of its AVAILABLE pieces.
- Transactions are those of a replica set: atomic and isolated.
- `Handlers` selects the handlers that run in an instance; the theorems hold for every
  choice.

### Rooms

*Variables.* `booking` holds a row per booking number (status `NONE`: no such booking),
`lock[r]` says that the lock document of room `r` exists, `open[r]` that the room exists
and may be booked, `window` the maintenance periods, `now` the clock. `op[q]` is the
handler of process `q`: its step, the copy of the booking it has read, the times and
numbers still to insert, and the attempts made to get the lock.

*Steps.* A handler is one action per query or write that others may fall between: read
the booking, check that the room is free, write. The check counts as one step although
it queries bookings, maintenance and, to create, the numbers in use: what falls between
these queries changes what one of them alone sees.

| Code | Actions |
|---|---|
| `withRoomLock` | `Acquire`, `Retry` (the document exists, wait), `GiveUp` (no attempt left), `Unlock` (the `finally` clause) |
| the TTL index on `lockedAt` | `ExpireLock` |
| `create`, single, recurring, or a row of `bulkImport` | `CreateBegin`, `ImportRow`, under the lock `CreateCheck` or `CreateRefuse`, `CreateInsert` per occurrence |
| `approve` of a booking | `ApproveBegin`, `ApproveCheck`, `ApproveSave` (conditional on PENDING) |
| `approve` of a rescheduling | `ApproveBegin`, `MoveCheck`, `MoveSave` (conditional on one waiting) |
| `reject` | `RejectBegin`, `RejectSave` |
| `reschedule` | `RescheduleBegin`, under the lock `RescheduleCheck`, `RescheduleSave` |
| `requestChange`, `requestChangeForMaintenance` | `AskBegin`, `AskForMaintenance`, `AskSave` |
| `cancel`, `cancelSeries`, `cancelForMaintenance` | `CancelBegin`, `CancelSave`; `CancelSeries`; `CancelForMaintenance` |
| `checkIn`, `checkOut` | `CheckInBegin`, `CheckInSave`; `CheckOutBegin`, `CheckOutSave` |
| `releaseNoShowBookings` (called from queries) | `ReleaseNoShows` |
| `RoomsService` | `SetRoom`, `RemoveRoom`, `CreateMaintenance`, `UpdateMaintenance`, `RemoveMaintenance` |
| a server that stops; the clock | `Crash`; `Tick` |

*What is abstracted.* Who owns a booking and who approves are not told apart. A lock
document is present or absent: its age matters only in `TooOld`, which without the event
`"slow"` says that no handler works under its lock for 30 seconds, so that only a lock
left by a crash is dropped. The suggestion that goes with a request for change is the
flag `asked`. The time of day is a small number and the numbers RB001 to RB999 are
`1..IdLimit`; numbers above `IdLimit` stand for those the search does not match.
`Runs` and `Events` select what happens in an instance, as `Handlers` does above.

### Assets

*Variables.* `asset` is the register: a row per number, `"GONE"` once deleted; `open` is the
assignment history without the entries that have a return date. `seq` is the counter of
numbers; `kind`, `stock` the catalog; `repair` the repair records; `got`, `closed` what of
a request claims touch. History variables: `units` (what was counted into an item), `by`
and `via` of a row (who gave the piece, and for which request), `unsure` (the item had a
mismatch logged, a piece relabelled, or a recount overtaken).

| Code | Actions |
|---|---|
| `AssetsService.create` (number, insertion, count: three writes), a row of `bulkImport` | `CreateBegin`, `ImportRow`, `CreateInsert`, `CreateCount` |
| `createAssignedAssetInTx` of a goods receipt; `receive` of `goods-receipt` without a purchase request | `Restock`, `ReceiveNewItem` (with `Register`, `CountIn`) |
| catalog `create`, a row of `bulkImport`, `adjustStock`, change of `itemType` in `update` | `CreateItem`, `ImportItem`; `AdjustBegin`, `AdjustWrite`; `RetypeBegin`, `RetypeWrite` |
| `recalculateAssetStock` (read, count, write) | `RecalculateBegin`, `RecalculateCount`, `RecalculateWrite` |
| `assign`, `claim`, `returnAsset`, `reserveForRequestInTx`, `update` of the item, `remove` | `AssignPerson`, `AssignDepartment`, `Claim`, `Return`, `Reserve`, `Relabel`, `Remove` |
| `setStatus`, then the repair record it opens or completes | `SetStatus`; `OpenRecord`; `FindRecord`, `CloseRecord` |

What the code does in a transaction is one action. Names, tags, prices and invoices are
abstracted, and persons' permissions are sets. A claim takes a piece that is of the item of
the line or, for an item no line names, of a type whose name resembles the line's
(`matchAssetToItem`); which do is the constant `Alike`. A piece's type is not edited here.

### Door of a meeting

`guests` is the list, `checkIns` the admissions, `op[q]` what a handler decided on its copy
of the booking. A scan (`join`) is `Scan`, then `AdmitListed` (an update on condition that
the guest has not joined) or `AdmitOpen` (a push with no condition on the number). The
host's requests: `setMode` is `CloseInvites`, or `OpenRead` and `OpenWrite`; `addInvitee`
and `addInviteesBulk` are `AddRead` or `BulkRead`, then `AddWrite`; removal is one
conditional update, `Remove`. A guest is an account or a typed name, with the contacts that
came with it, because the code compares guests in three ways: `addInvitee` by account,
e-mail, phone, and by name when there is no contact (`AlreadyKnown`); `addInviteesBulk` by
account and e-mail (`BulkKnown`); `join` by account, or by name and contact (`Matches`).
`BookingMoves` stands for what `RoomBooking` does to the booking: an approved rescheduling
(to any time, an earlier one too), check-out, cancellation. What an account has on file and
the capacity of the room stay the same: a rescheduling to another room is left out. A refused scan changes nothing that another step reads and is no action.

### Tickets

`row[t]` is a ticket, `policies` the SLA policies, `departments` those that exist, `op[q]` a
handler with the copy it read, `scan[j]` a run of `checkBreaches` under way with its copies,
`now` a clock in minutes;
`waited` and `told` are history. `create`, `assign` and `changeStatus` are two actions each
(`CreateBegin`, `CreateInsert`; `AssignRead`, `AssignSave`; `StatusRead`, `StatusSave`).
The breach check is `BreachScan`, then per ticket `BreachTell`, `BreachEscalate`,
`BreachSave`. A run may begin while others are under way: `@Cron` starts one every minute in
every server process and does not ask whether the last one has ended. A step that throws
(ticket, policy or department deleted) ends the run, as in the code. A server that stops is
`Crash` for each handler it had and `CutOff` for its run of the check. `CreateDepartment`
may bring back the number of a deleted department, as the code does.

### Logging in

The model has one account: accounts meet nowhere else. The writes of `login` and
`verifyMfaLogin` are actions of their own (`Fail`, `Lock`, `Challenge`, `VerifyBegin`,
`VerifyCheck`, `WrongCode`, `CodeUsed`, `Consume`, `ClearFails`, `Open`, `Success`), so that
other logins, the settings page and the office (`Deactivate`, `Reactivate`, `Remove`,
`Unlock`, `RoleChanges`) come in between. `resetPassword` reads the count of wrong codes
(`ResetBegin`), compares the codes (`ResetVerify`), then counts a wrong one (`WrongCode`) or
goes on: the hash is saved (`ResetWrite`), the code and the count are deleted, in one action
(`ResetForget`), the sessions end (`RevokeAll`).

All four counts of wrong codes - of a login, a step-up, the confirmation of a method, a reset
of the password - are read by one step and written by a later one: `VerifyCheck`,
`ResetBegin` or `Guess` first, `WrongCode` last, with any other requests in between. A
*successful* request of the settings page (`Setup`, `Enable`, `EnableForced`, `Disable`) and
the sending of a code are one action each, so two of them, or one of them and a change of the
role, do not overlap.

`version` counts what must end sessions, `locks` the locks placed and `roles` the changes of
whether the role requires a second factor (an update of the role, or of the user who gets
another one); all three are history, and a login keeps the values it saw in `copy`. Whether a
password or code is right is left open, but a mailed code passes only while one is stored.
Locks, counts and codes expire at any time.

### Staff

`role`, `manages`, `user` are the collections; `save[e]` a create or update of a user
under way: the user is written (`CreateInsert`, `UpdateWrite`), then the list of the
department to leave and of the one to join is read (`MembershipRead`) and changed
(`MembershipWrite`), each a write of its own; `MembershipGone` is the department deleted
meanwhile. Roles and departments are their numbers, which are given again after removal.
History: `byHand` (listings last changed by an edit of the department) and `astray` (users
with overlapping or interrupted saves).

### The cached switch

`setting` is the database, `cached` and `fresh` the copy of the process, `load` the load
in flight that all checks share, `update` the updates handled here; `ChangeElsewhere` is an
update by another process, which cannot clear this copy. `Written` says what Mongoose
sends: nothing when the value equals the one read, and nothing when it is unset
(`unmarkModified`).

## Runs

Catalog item `t1` is tagged, `c1` counted; alice asks; `q1`, `q2` run handlers at the same
time. Every run is exhaustive for its instance; `assets`, `staff`,
`invites` and `login` have a state constraint (see Bounds).
`CHECK_DEADLOCK FALSE` is set where the system may stop: all requests closed, nothing left
to receive; the clock or a counter at its bound.

| Run | Instance | Checks | Shows |
|---|---|---|---|
| `race` | 1 request, 1 line of quantity 2, 1 purchase request, 2 pieces, 2 processes; direct assignments, repairs and removals of pieces, crashes, failed reviews | `TypeOK`, `ArrivalsBacked`, `LinesFollowLifecycle`, `ReservedPieceGoesToItsRequest` | optimistic concurrency keeps the life of a line linear and its arrivals backed by receipts, and a reserved piece is given to nobody else, because the write that reserves is conditional, under every interleaving of review, approval, rejection, receipt and collection; it may leave the warehouse otherwise, see below (for competing requests: theorem `ReservedSafe`) |
| `stores` | 2 requests for 1 counted unit, 2 processes, manager stage with resubmission, conflicting approvals; crashes | `StockNeverNegative` | check-then-deduct is safe because the deduction is conditional |
| `serial` | 1 request, a tagged and a counted line, 2 purchase requests, one handler at a time, everything but fulfil; alice, who asks, has the right to approve | `IssuedOnce`, `ApproverIsNotRequester`, `ClosedIsFinal`, `ManagerStageIsNotBypassed` | without overlapping handlers, closed and rejected are final, a request that was sent back and resubmitted reaches the warehouse only by another approval of the manager, nobody approves a request of their own, a line is issued once |
| `fulfill_again` | smallest instance that shows it | `IssuedOnce` | violated: see below |
| `room_calendar` | 1 room, 2 bookings, overlapping times; one process approves, rejects and reschedules, one creates, imports, cancels, checks in and out; no-shows | `NoDoubleBooking`, `ApprovedTimeStands`, `DecisionsStand` | creation, rescheduling, approval, early check-out and no-shows keep the calendar of a room free of overlaps, as long as approvals and reschedulings do not overlap each other; no late decision undoes an earlier one |
| `room_lock` | 1 room, 2 numbers, single and recurring creations, 2 attempts at the lock; crashes, series cancelled, maintenance | `SectionExclusive`, `NumbersStayFree`, `HandlersEnd`, `LocksAreFreed` | the ownerless lock excludes, numbers found free stay free, every handler ends, a lock left by a crash is freed |
| `assets` | 2 pieces, 1 item, 2 persons of one department, 1 request of one of them; one process creates, recounts, corrects, changes types and statuses, the other changes statuses; duties segregated | `TypeOK`, `StockMatchesPieces`, `HistoryNamesHolder`, `RepairIsRecorded`, `NobodyServesThemselves`, `NumbersStayRetired` | the stock counts what is in store across creations in two writes, changes of type and recounts; no path leaves an assignment open or a repair unrecorded |
| `tickets` | 2 tickets, 1 policy that escalates to the managers at once, 1 department, 2 runs of the check at the same time for one ticket or one for two; requests one at a time beside them | `TypeOK`, `PausesMatchWaits`, `BreachedAfterItsTime`, `NoticesBoundedByRuns`, `OverdueIsMarked` | copies that are minutes old do no harm: nothing is marked early, a notice is recorded by no more runs than overlap (by one, if they never do), and what stays overdue is marked while no ticket has lost its policy or department |
| `invites` | ann, who has an account and is also typed with or without a contact, and bob; 2 scanners, 1 host, room for one off the list | `TypeOK`, `AdmittedOnce`, `GuestListSound`, `RoomHoldsVisitors`, `RemovedGuestStaysOut` | the conditional updates hold what the copies do not; what is checked on a copy only is exceeded by the scans under way and no more; no account, e-mail or typed guest is listed twice |
| `login` | 2 clients, 1 desk, e-mail and PIN, 2 wrong passwords to a lock, 1 wrong code to a stop; one token and session; one lock, change of the account or change of the role | `TypeOK`, `LockHolds`, `ChallengeOpensOnce`, `WrongCodesStop`, `SessionsFollowAccount`, `MethodsUsable` | the steps of a login are interleaved with the changes of the account it rests on; a count of wrong codes is exceeded by the requests under way and no more |
| `staff` | 2 users, 2 administrators, 2 numbers of roles and of departments | `ManagersFollowUsers` | `$addToSet` and `$pull` keep the lists right whatever the saves of other users do meanwhile, crashes included |
| `sod` | 2 updates at a time here, others elsewhere, 3 in all; failed loads, restarts | `SettingReachesChecks` | a stale load may put the old value back, for the life of the copy and no longer |

Each property of a passing run has a mutant in its module, an operator marked "Mutant" or
"a slip" that changes one mapped definition the way a plausible bug would (no version
check, a claim without its filter, a limit off by one, a change as read instead of
`$addToSet`, ...), and with which TLC finds the property violated under the same
configuration.

## What does not hold

`fulfill_again` is checked: two lines are READY, one is collected (PARTIALLY_RECEIVED),
and fulfil then deducts both (`supply-requests.service.ts:1597`), although the schema
(`supply-request.schema.ts:44`) calls a COLLECTED line taken and `receive` lets only READY
lines out.

The limits of the passing runs come from histories in which the code does something a
reader would not expect. They are listed with the line where they bite; lifting the limit
lets TLC show them.

Supplies (`supply-requests.service.ts` unless said otherwise):
- Pieces that arrive for a linked line of a request still REQUESTED are reserved; a review
  that then rejects the line leaves them reserved for a rejected request (`:996`).
- Two approvals read REQUESTED; the first saves, the requester collects, the second writes
  APPROVED over CLOSED (`:1370`). A rejection and a review begun on the same copy reopen a
  rejected request likewise, with any approver (`:1531`; `reject` does not compare the
  rejecter with the requester). Therefore `serial` is serial.
- Two managers decide at once: one lets the request pass and the warehouse reviews it, the
  other sends it back, and resubmission resets reviewed lines (`:709`). `race` and
  `LifecycleImplemented` have no manager stage.
- A review that fails keeps the purchase requests it has claimed and does not take back
  those it released (`:977`), so one purchase request may come to serve two lines.
- Fulfilment retried after it stopped half way deducts again what it had deducted.
- Goods received between the claim of a purchase request and the save of the review go to
  free stock (`:1415`); a request approved with one purchase request need not have the
  others approved (`:1288`); resubmission leaves purchase requests of replaced lines
  linked (`:806`). Nothing in the code promises otherwise.

Rooms: two approvals that overlap check the calendar, then both confirm
(`room-bookings.service.ts:614`, no room lock); a rescheduling that read PENDING before an
approval moves the approved booking at once (`:761`). `room_calendar` has one process
approve and reschedule. Guests: two requests of the host add the same person twice
(`room-invites.service.ts:658`); `invites` has one host. Even with one, a guest typed with a
phone number or a name only is listed a second time when `addInviteesBulk` adds the account of
the same person, because it compares account and e-mail and not, as `addInvitee` does
(`:648`), the phone (`:713`). `GuestListSound` claims only what both compare.

Tickets: an assignment that read OPEN writes ASSIGNED over RESOLVED, and two changes of
status leave a pause open (`tickets.service.ts:516`); the module assumes
`OneStatusWriter`. Two runs of the breach check that overlap read the same unmarked ticket and
both send its notices (`sla-monitor.service.ts:75`): nothing but the length of a run keeps the
next minute's, or another server's, apart. `NoticesBoundedByRuns` allows one notice for each
run that can be under way. A run that ends between a notice and the save, because its server
stops or the ticket is deleted, leaves the notice to be sent again. A policy that was deleted
(`:138`), or a department (`:38`, called at `:113` and for a rule that notifies its managers at
`:146`; `DepartmentsService.remove` looks at no ticket), ends every run at the first ticket that
names it, every minute, and if it is the policy after the notice of the breach was sent: that
ticket's managers are told every minute and the tickets behind it are not reached.
`OverdueIsMarked` and `NoticesBoundedByRuns` set that aside.
The idle reminder, not modelled, says "No activity for N minute(s)" but counts from its last
reminder (`:195`).

Settings: taking back the override of segregation of duties is not saved, because the field
is unmarked before the save (`organization-settings.service.ts:110`), though the comment
above says the switch falls back to the environment. `SodCache` has it in `Written`.

Assets: `setStatus` and `remove` take a reserved piece out of the warehouse
(`assets.service.ts:1306`, `:1383`). `setStatus` leaves the reservation on a piece under repair
or retired; `remove` deletes it with the piece. The line is READY all the same and its
requester finds nothing to collect. `ReservedPieceGoesToItsRequest` therefore says whom a
reserved piece may be given to, and not that it lies ready.
A change of type that overlaps a creation leaves a piece with a counted item
(`supply-catalog.service.ts:222`); units counted in later stand in for it when it is
removed, so `assets` has one process create and change types. Recounting an item that is
only counted but still has retired pieces sets its units
to the number of its pieces (`supply-catalog.service.ts:387`); a claim that completes a
request leaves its other reserved pieces reserved (`assets.service.ts:905`). Users: saving a
user whose old department was deleted stops before the new list is joined
(`users.service.ts:407`).

Logging in: the four counts of wrong codes are checked first and raised later
(`auth.service.ts:342`, `:467`, `:626`, `:717`), so requests that overlap try more codes than
the limit; a reset needs no login, so anybody may send them. `WrongCodesStop` bounds the
excess by the requests under way. A role that begins to require a second factor
(`roles.service.ts:162`), or a user who is given such a role (`users.service.ts:381`), ends no
session: an owner already logged in goes on without one until the next login. `MethodsUsable`
speaks of those who logged in since.

## Proofs

### Supplies

The theorems hold for `Procurement`'s `Spec`, for arbitrary sets of requests, lines,
purchase requests, pieces, users and processes, under `ConstantsOK` only: the functions among
the constants have the right domain and range, `Line` is finite, quantities are
naturals, `None` is not an identifier. TLC evaluates `ConstantsOK` in every run.

- `TypeCorrect`: `[](TypeOK /\ OpsOK(op))`. `TypeOK` alone is not inductive: that a save
  stores a well-typed row needs what the handler carries to fit the step it is at
  (a handler at `fulfill` carries lines with a counted catalog item, one at `reserve`
  pieces and a line, ...). `OpsOK` says that, per step.
- `StockSafe`: `[]StockNeverNegative`, from the type invariant: every decrement is
  conditional on the stock of the moment, and quantities are naturals.
- `ReservedSafe`: `ReservedPieceGoesToItsRequest`. The invariant is `HeldByNobody`: a
  reserved piece is in the warehouse, or under repair or retired, but with nobody. Changes of
  status and removals, which do not look at reservations, keep it; so a return never meets a
  reserved piece, and only a collection of its request gives it to somebody.
- `ArrivalsSafe`: `[]ArrivalsBacked`. The rows alone are not inductive, since a review
  writes a copy back. The invariant `Backed` says it of the rows and of every copy a
  handler carries; receipts of a purchase request never decrease, so an old copy stays
  backed.
- `LifecycleImplemented`: `ASSUME NoManagerStage PROVE Spec => LinesFollowLifecycle`, the
  refinement. The invariant `LifeInv`: a copy that is not outdated differs from its row
  only by decisions on lines that are open in the row; requests not yet created have
  only WAITING lines. A save that passes the version check is then a `Decide` of the
  abstract specification; collection is a `Collect`; every other step stutters.
- `ApproverSafe`, `ClosedSafe`, `ManagerStageSafe`, `IssuedSafe`: the properties of
  `serial`, `ASSUME OneHandler`: the handlers of `Procurement` do not overlap. Goods
  receipts, assignments, returns, changes of status and removals of pieces, which are transactions, and crashes still fall
  between any two of their steps. Handlers that overlap break what is proved (see above).
  `SerialInv` has two parts. `RowFine`, of a request: until it is approved its lines only
  wait, once it is open or closed somebody other than the requester has approved it, and
  (`PassedManager`) it has the manager's approval exactly while it is past that stage: a
  request sent back has none, so resubmitting it to its manager gives it none.
  `Serves`, of a handler: what it saw of its request still holds when it writes - a rejection
  finds the request as it read it, a review that is not outdated carries the status of the
  row and every collected line. A step then makes of a request only what `Passes` allows;
  two of the properties are read off that. `IssuedSafe` also assumes `"fulfill" \notin
  Handlers`, as `serial` does: fulfilment deducts again what was collected
  (`fulfill_again`). `IssuedIsDone` adds that what was issued is collected, or its request
  closed.

### Rooms

The theorems hold for `RoomBooking`'s `Spec`, for any rooms, processes, times and bounds,
under `RoomConstantsOK`.

- `RoomTypeCorrect`: `[](TypeOK /\ OpsOK(op))`; again `OpsOK` says what a handler carries
  at each step (numbers for all the times left, a booking with a waiting rescheduling at
  `move`, ...).
- `DecisionsSafe`: `DecisionsStand`, an action property that follows from the types and
  the conditions in the updates, for every choice of `Runs` and `Events`.
- `LockExcludes`: `ASSUME "slow" \notin Events PROVE Spec => []SectionExclusive`. The
  invariant `LockInv`: a handler in the section of a room has its lock document, and is
  the only one there. The lock has no owner, so it is this that makes `Unlock` delete the
  handler's own lock.
- `NoDoubleBookingSafe` and `ApprovedTimeSafe`: `ASSUME OneMover, OneCheckOut`, the
  assumptions of `room_calendar`. The invariant `MoveInv` adds to `NoDoubleBooking` what
  the mover knows between check and write (`Good(q)`): the time it is about to write is
  free of others, the booking still has the time it read, and a meeting about to be
  checked out has not been. Nobody else gives a confirmed booking a new time, so what
  was checked remains true.
- `NumbersFree`: `ASSUME OneRoom, MaxId <= IdLimit, "slow" \notin Events PROVE Spec =>
  []NumbersStayFree`. The search and the insertion are covered by the lock of one room, but
  the numbers belong to all rooms: with two rooms, with a lock that runs out under its
  holder, or beyond RB999, which the search does not recognise, a number found free may be
  taken at the insertion. `NumbersInv` says that the numbers a creation has still to use are
  free and rise; only an insertion takes one, and by `LockInv` one handler at most inserts.

### Guests at the door

The theorems hold for `RoomInvites`'s `Spec`, for any persons, limits and number of
scanners, under `InviteConstantsOK`: hosts are not scanners, there is a scanner, scanners
and accounts are finite sets (the theorems count them).

- `InvitesTypeCorrect`: `[]TypeOK`, from `TypeInv`, which adds that what a handler carries
  fits: the invitation it will write exists, and a change of mode finds a door code or
  makes one.
- `AdmittedOnceSafe`: `[]AdmittedOnce`. The invariant `OnceInv` adds that an admission
  names an invitation that was listed when it was made; the list only grows, so a guest
  added later starts with no admission.
- `RemovedStaysOut`: `RemovedGuestStaysOut`, an action property, from the types.
- `RoomHolds`: `[]RoomHoldsVisitors`. The invariant `RoomInv` counts with the visitors let
  in those whom a scan is about to let in: a scan that finds a free place is one of at most
  as many as there are scanners, so both together exceed the limit by one less than that.
- `GuestListStaysSound`: `ASSUME OneHost PROVE Spec => []GuestListSound`. Two requests that
  add at once may list a guest twice or too many. With one at a time, `ListInv` adds that
  what a request is about to add still fits the list it will meet (`Spare`), because all
  that happens to the list meanwhile makes it shorter. `Twice` is what `addInviteesBulk`
  compares, with what `addInvitee` compares of two typed guests: the phone of an account
  against that of a typed guest is in neither direction part of it.

### The asset register

The theorems hold for `AssetLedger`'s `Spec`, for any pieces, items, persons, requests and
processes and every choice of `Runs`, under `LedgerConstantsOK`: domains and ranges,
requests numbered by naturals (a claim takes the oldest), finitely many processes.

- `LedgerTypeCorrect`: `[]TypeOK`. The invariant `TypeInv` adds that a count about to be
  written is a count, and `NumbersGiven`: no piece has a number above the counter, and a
  number about to be inserted is within it, unused, and of one handler only.
- All that steps do to a row is collected in `RowMoves` (arrives, relabelled, reserved,
  given, stored, marked, deleted); `NextMoves` shows that every step of `Next` moves rows
  in one of these ways and keeps `TypeInv`. From there `HistorySafe`
  (`HistoryNamesHolder`), `OwnGoodsSafe` (`NobodyServesThemselves`) and `NumbersRetire`
  (`NumbersStayRetired`) are one case per way.
- `RepairsSafe`: `[]RepairIsRecorded`. A handler completes the newest repair it finds, which
  may be another's, so "each handler has its record" is not an invariant. `RecordInv`
  counts instead: the handlers about to complete a record of a piece, and one more if it is
  under repair, are no more than its repairs in progress and those about to be recorded.
- `StockSafe`: `ASSUME RetypeAlone PROVE Spec => []StockMatchesPieces`. `StockInv` keeps the
  difference between the stock of an item and what there is of it (`Gap`) closed while the
  item is not unsure: each of `RowMoves` that takes a piece into or out of store comes with
  its change of stock. `RetypeAlone`: the process that changes types is the only one that
  creates pieces or corrects stock, so that an item gains no pieces and no negative count
  of units between the check that it has no stock and the write of its type. Without it the
  property fails (see above).

### Login

The theorems hold for `Login`'s `Spec`, for any numbers of overlapping logins and of desks
that change the account, any set of methods and any limits, under `LoginConstantsOK`: both
kinds of handlers are disjoint, clients are finitely many and at least one, limits are positive.

- `LoginTypeCorrect`: `[]TypeOK`. The invariant `TypeInv` adds that the token a handler
  works on exists.
- `LockSafe` (`LockHolds`) and `SessionsSafe` (`SessionsFollowAccount`) are about what a
  login remembers of the account. `CopyInv`: every copy, in a handler or in a token, was
  taken while the account was active and not locked, so once it is not, the copy is older
  than the change (`Good`). A desk that changed the account ends every session there is
  before it is done (`SessionInv`); what is opened afterwards bears the account's version.
- `CodesSafe`: `[]WrongCodesStop`. For each of the four purposes, the count and the requests
  that have passed the check and may still record a wrong code (`Waiting`) stay together
  within the limit and the requests there can be, less one (`CodeInv`): the last to pass the
  check finds the count below the limit. A reset of the password is sent by clients and desks
  alike (`Counting`).
- `ChallengeSafe`: `[]ChallengeOpensOnce`. `OnceInv` adds that a challenge which opened a
  session, or is about to, is consumed: then no handler can begin on it.
- `MethodsSafe`: `[]MethodsUsable`. `SecretsInv` is about the secrets. `FactorInv` says
  of the logins past their second factor what the property says of the sessions, of those
  that saw the role as it is now (`OfPresentRole`): after a change of the role there are none.

### Tickets

The theorems hold for `Tickets`'s `Spec`, for any numbers of tickets, minutes, departments and
overlapping runs of the check and any policies and rules, under `TicketConstantsOK`,
`NoneIsNoRow` (`None` is not a ticket) and `OneStatusWriter` (requests that write the status of
a ticket do not overlap: they save copies, and two of them may leave a pause open, see above).
Creations, policies, departments, the runs and restarts interleave with them freely.

- `TicketsTypeCorrect`: `[]TypeOK`. `TypeInv` adds what a handler and the run of the check
  carry.
- `PausesSafe`: `[]PausesMatchWaits`. `PauseInv` adds that the copy a request will save has
  the status, the paused time and the open pause of the row (`UpToDate`). The check saves
  copies of the same rows, but never those fields.
- `BreachesSafe`: `[]BreachedAfterItsTime`. `BreachInv` says of the tickets a run has still to
  deal with that they are past their time, pauses included. The copy may be saved long after
  it was taken, but the deadline moves only while the ticket waits, and then by as much as
  the clock.
- `NoticesSafe`: `[]NoticesBoundedByRuns`. `NoticeInv` counts the runs that sent a notice and
  recorded it together with those whose copy still has it to send (`Pending`): never more
  than the runs there can be at once, for a notice that was recorded is on the row, and a run
  that begins later does not send it.

### Staff

The theorems hold for `Staff`'s `Spec`, for any users, roles, departments and
administrators, under `StaffAssumption` (system roles are roles, `None` is nothing else).

- `StaffTypeCorrect`: `[]TypeOK`. `TypeInv` adds that what a save carries fits its step.
- `ManagersSafe`: `[]ManagersFollowUsers`. A save writes the user, then one list, then
  another, so `ListInv` says per step what the lists hold: before the user is written they
  agree with the record, and the save knows which list to leave and which to join;
  afterwards the user is on no list but the one to leave, and then on none but the one to
  join. Saves of other users and edits of roles and departments happen meanwhile; users whose
  role is removed, whose saves overlap or stop half way are astray, and lists edited by hand
  are set aside, in the invariant as in the property.

### How far they go

Each proof has a lemma per handler (`CreateType`, `ReviewBacked`, ...) or per
action, one step per action below it, and closes with the temporal step.

Every invariant and action property of the passing runs is stated by a theorem. Where a
theorem restricts which handlers overlap (`OneMover` and `OneCheckOut`, `OneHandler`,
`OneHost`, `RetypeAlone`, `OneStatusWriter`) its run does likewise, and nothing is claimed
beyond.

Only model-checked: what is stated under fairness, `HandlersEnd`, `LocksAreFreed`,
`OverdueIsMarked` and `SettingReachesChecks`. Liveness and `ENABLED` are out of the
prover's reach. No recursive operator is used.

## Bounds

Two processes are enough for the races at hand: each property relates one row and the
copies of it, and a third copy can only do what the second does; the theorems need no
such bound. Two units or pieces and a line of two show partial arrival, partial
reservation and a receipt beyond the need; two requests and two purchase requests show
competition and re-claiming; two lines, a request collected in part.

Rooms: `MaxTime` 2 gives three instants: times that overlap, that touch, and an early
check-out between; `Early` and `Grace` are one instant, so that checking in early, in time
and too late are all possible. `MaxId` bounds the bookings; `IdLimit` stands for 999;
`MaxTries` for 20: two attempts show one that fails, one that succeeds and giving up. One
room is enough because bookings and locks of different rooms share only the numbers, where
the search and the insertion may collide (see `NumbersStayFree` below).

Assets: two pieces show numbering, the choice between pieces and a count of two; `MaxStock`
1 is zero and not zero; two repair records let one be completed while the other is sought.
Segregation of duties is on; without it `NobodyServesThemselves` says nothing. One piece
resembles the line of the request by its name (`Alike`). `RepairsApart` is a state constraint:
TLC goes no further from a state that has both repair records and pieces received for a
request. `StockSafe`, `RepairsSafe` and the other theorems have no such limit.

Tickets: two tickets let the run of the check end at the first and miss the second; `Limit`
0 makes a ticket overdue at the next minute, and two minutes leave room for a pause before
or after. `MaxOff` keeps one policy at a time inactive or deleted, `MaxDept` is one department. `MaxRun`
2 lets two runs of the check overlap, and `MaxWork` 2 keeps tickets times runs to two: two
runs over one ticket, or one over two. A third run does what the second does, and
`NoticesSafe` is for any number.

Invitations: one place off the list and two scanners show the limit exceeded by one, and
not by two; three places ever on the list show removal and a second invitation. ann is
invited by account, by name, by name and phone, or by name and e-mail, and comes to the door
with her phone number or account; bob comes with a name only. `FewRows` (twice the guests ever
listed, and the admissions, six together) cuts off longer histories of the same.

Logging in: `MaxAttempts` 2 separates the count from the lock, `MaxCodes` 1 the check from
the count. `MaxTokens`, `MaxSessions`, `MaxChanges`, `MaxLocks`, `MaxRoles` are one: each
property speaks of one token or session and what happened to the account since. State
constraints: `FewChanges`, one lock, change of the account or change of the role in a
behaviour; `OneKey`, codes mailed, wrong or counted for one of the four purposes at a time
(`MaxKept`, the same bound, is in the guards); `CodesOrRoles`, no wrong codes once the role
has changed. Each property concerns one of these, and the theorems have none of them. With
an authenticator beside the PIN, or two tokens, the run is out of reach; the PIN stands for
the methods with a secret.

Staff: `FewExceptions` is the one state constraint: listings set by hand count one, users
astray two, up to two together. The property sets those aside anyway, and states beyond
have more set aside.

The cached switch: three changes let one overtake a load, one overtake an update, and one
restore the old value.

Retries are in the models as new requests, except where said.

## Fairness

For supplies, assets, invitations, logins and staff no fairness is assumed and no liveness
is claimed. A handler may stop between any two writes and the code has no recovery, queue
or scheduler that would take it up again, so "a request is eventually closed" is not
something these parts promise.

- Rooms: `FairSpec` has weak fairness of `Continue(q)` for each process - the event loop
  resumes a handler whose query has answered or whose timer has run out - and of
  `ExpireLock(r)` - the TTL index of the locks is swept by the database. Requests, the
  clock, crashes and administration are owed nothing. Under it every handler ends, because
  the attempts at the lock are counted, and the lock is freed again and again.
- Tickets: weak fairness of starting a run (`Starts`; the scheduler does every minute,
  `@Cron`) and of each run under way (`GoesOn`; the event loop resumes it). Requests, the
  clock, deletions and restarts are owed nothing. From some time on no run is cut off by a
  stop of its server (`CutOff`): a server that stops in every run marks nothing.
- The switch: a load answers or fails, the copy ages, and an update whose save is sent goes
  on to clear the copy. Nobody has to ask or to change anything.

## Not modelled

In the parts modelled:
- supplies: delegates, department requests (custodians, department managers as collectors
  have the same conditions), bulk fulfilment (fulfil in a loop), purchase requests other than
  RESTOCK and their creation, and the mode without a replica set, in which the writes
  of a transaction run one by one;
- assets: repair records created, edited or removed by hand, whether an item is enabled,
  serial numbers, prices, invoices; pieces from before item types existed;
- rooms: who owns a booking, recorded attendees, suggested times, reports, equipment; the
  log of refused scans; the text and mail of invitations;
- tickets: the assignee, edits of title and description, feedback, idle reminders, changes
  of the times and rules of a policy, the first-response deadline (it marks nothing in the breach check);
- invitations: a rescheduling to a room of another capacity, contacts of an account that
  change, names that two people share;
- logging in: devices, requests of the settings page that overlap each other or a change of
  the role, the trust put in the
  mail server; who is logged in where is one account's matter;
- staff: names, branches, permissions; `settings`: all fields but the switch.

Outside: pure I/O (`mail`, `realtime`, `uploads`), messages after the fact
(`notifications`, `audit-logs`), read-only aggregation (`dashboard`, `reports`), content and
reference data with single-document writes (`ticket-messages`, `ticket-types`,
`canned-responses`, `branches`, `announcements`, `kb-articles`). No handler decides on
what these write.

## Plan

1. *Done*: the modules above, with a run each.
2. *Done*: a theorem for every invariant and action property of the passing runs.
3. `Procurement` without transactions (`runInTransaction` on a standalone server),
   delegates and department collectors.
4. Idle reminders and the edits of policies in `Tickets`; overlapping requests of the
   settings page in `Login`, with the property it then still has.
5. Weaker hypotheses: which overlaps the theorems under `OneHandler` can admit (handlers of
   different requests that share no purchase request), and `NumbersFree` with several rooms
   as long as creations in different rooms do not overlap.

