# odera_safe_api in TLA+

odera_safe_api is the backend of an estate-management product: a NestJS
application over PostgreSQL (Prisma), with Paystack for money, sockets for chat
and cron jobs for what must happen without a request. Residents pay levies and
hold a wallet, guards let visitors in and raise alarms, administrators approve
and withdraw.

This directory holds specifications of the parts whose correctness depends on
the *order* of things: what happens when two requests are about the same row,
when Paystack repeats a webhook or its answer is lost, when the process dies
between two writes. The code is the reference; a comment or doc of the
repository appears only where a property states what it says.

- [What runs concurrently](#what-runs-concurrently)
- [Inventory](#inventory)
- [Modules](#modules)
- [Runs](#runs)
- [What the code does that its words deny](#what-the-code-does-that-its-words-deny)
- [Bounds](#bounds), [Fairness](#fairness)
- [Proofs](#proofs)
- [Not modelled](#not-modelled)
- [Plan](#plan)

To check: `tlc -config <run>.cfg MC<Module>.tla` for the runs below, `tlapm
<Module>Proofs.tla` for the proofs: seven modules, the longest of which,
`ServicesProofs`, takes about ten minutes.

## What runs concurrently

Node handles requests on one JavaScript thread, but every `await` lets another
request run. Prisma sends each statement to PostgreSQL at READ COMMITTED.
Hence the rules by which every handler is cut into steps:

1. A handler is cut at each read whose result it uses after a later `await`.
   The read is one step (it stores what it read in a variable of the request),
   the use is another.
2. The writes of one `prisma.$transaction` are one step, its commit. A read
   inside the transaction is a step of its own: READ COMMITTED takes no lock
   for it, so another transaction may commit between the read and the commit.
   Where the transaction *writes* a row before it reads, the row lock makes a
   second transaction on that row wait; the models say so (`RowLocked` in
   `WalletPayments`, `Locked` in `VisitorGate`), and a handler whose first
   statement is such a write is one step.
3. `increment`/`decrement` act on the value at commit, an assignment of a
   computed value writes what was computed.
4. Writes outside a transaction are one step each.
5. Every `await` may throw and the process may die. `Fail` ends a request at
   any position; what it has committed stays, its local state is gone.
6. The model's requests are `Threads`: a request takes a free one, keeps its
   arguments and what it has read in variables indexed by it (`pc`, `ref`,
   `seen`, ...), and gives it back when it ends. Local variables are reset at
   the end, so that states do not differ by what no handler can see.

A few variables are *history*: no action's guard reads them, properties do.
`credits` counts how often a payment reference was credited; `overlapped` (and
`disturbed` in `VisitorGate`, `mixed` and `contested` in `ShiftRoster`, `crossed`,
`raced`, `stale`) collects what two requests were about at the same time; `cut`,
`abandoned`, `unanswered`, `stopped`, `outside`, `torn`, `edited`, `undone` record which of
the other excuses a property grants has happened. With them one run
states both what holds under any overlap and what holds only without it, about
the very same behaviours.

## Inventory

Sources are under `src/src/apis/`. "Modelled" means that every operation which
changes the component's state is an action.

| Component | State | Operations that change it | Interacts with | Hard behaviour |
|---|---|---|---|---|
| **Wallet funding, levy payments** `finance/finance.service.ts`, `paystack.service.ts` | wallet balance, `WalletTransaction` rows, `LevyAssignment.paidAmount/status`, estate wallet | open a checkout, webhook (funding, levy, virtual-account transfer), pay from the wallet | Paystack calls the webhook at least once | repeated and concurrent deliveries, delivery before the account is known, lost updates of `paidAmount`, overdraft |
| **Resident withdrawals** `finance/finance.service.ts` | wallet, `WithdrawalRequest`, its wallet row | request, approve (by transfer or by hand), reject | Paystack transfers | two decisions of one request, crash after the transfer, request and row written apart |
| **Estate withdrawals** `finance/finance.service.ts` | estate wallet and its rows | withdraw: reserve, transfer, confirm or compensate | Paystack transfers, levy credits | answer lost after the money left, process death, overdraft |
| **Levy clearance** `finance`, `auth`, `resident`, `auth/guards/roles.guard.ts` | `Resident.levyCleared`, `approvedAt`, levies and due dates, grace setting | create/move levies, payments, approval, NIN check, login, cron, guard | every resident request passes `RolesGuard` | four writers of a derived flag, none of them locks |
| **Monthly levies** `finance/finance.service.ts` | one levy a month, one assignment per resident and month | monthly cron, every request that makes sure of the levy of its resident | reviews and NIN checks make residents eligible | the round races the requests for the same unique keys, and ends at the first exception |
| **Visitor gate** `visitor`, `tracking` | visitor status and entries, gate queue and log, tracking sessions | invite, edit, revoke, expire, scan, deny, check in, check out, track | tracking runs on another connection inside the check-in's transaction | judged by an old row, unique queue rows, aborted check-ins that leave a session |
| **SOS** `sos/*` | incident, guard alarm, chat room, timeline | raise (guard, resident, admin), act, report a position | shares `Incident` with the next | overlapping acts, timeline written from a stale read |
| **Incident reports** `incident/incident.service.ts` | incident, chat room, timeline | report, assign, start, complete, set a status, resolve all | writes emergencies too, and judges nothing | separate writes, a room created after the end |
| **Incident scheduler** | — | its class is in no module's providers | — | never runs |
| **Shifts, swaps, attendance** `guard/guard.service.ts`, `shift-swap`, `performance` | shifts, attendance, swap requests, `is_active` | assign, generate a week, clock in and out, ask for a swap, approve, reject, cancel, suspend | the attendance score reads both tables | only the approval of a swap is a transaction |
| **Patrol monitoring** `patrol-monitoring`, `guard` | checkpoints, last scans, alerts | create, scan (and resolve), the cron of every five minutes | guard's scan and monitor write the same alerts | runs of the cron overlap; a scan comes between judgement and alert |
| **Vehicles, heavy vehicles, business hub** `vehicle`, `heavy-vehicle`, `business-hub` | status and payment of each registration, the day's visits | register, pay, approve with a charge, reject, suspend, resubmit, activate, expire at the gate | the resident's wallet | rows judged before the transaction, counts and balances read without a lock, retry of what was paid |
| **Shortlets** `shortlet/*` | properties, bookings, access log | register, suspend, activate, book, scan, hourly scheduler | registration charges the wallet | the scheduler writes what it found earlier; one exception ends its loops |
| **Residents, associates, guards** `resident`, `resident-associate`, `guard`, `users` | the person's row, the `User` row, NIN, gate code, profile | register, onboard, review, verify, complete and update a profile, invite, edit, approve, remove, promote | one `User` table and its unique email; identity service and mail in between; settings and apartment types say what completes a profile | status, login and code are judged before hashes, mails and external calls, and written after them; nothing that changes the demand judges profiles again |
| **Authentication** `auth` | password, PIN, one-time codes | issue, guess, reset, change | clearance at login | guesses and requests for codes overlap |
| **Estate configuration** `estate-config`, `finance`, `auth` | apartment types, their prices in levies, the residents' types, settings | create, rename, switch, delete, choose; create and reprice a levy | the grace setting of clearance; the apartment type that profiles need | what is in use is counted before the deletion |
| **Chat, announcements, polls, committees, tickets** | items and the rows users leave on them | create, write, like, comment, pin, vote, close, decide, join | polls read `levyCleared`; incidents own a room | items are closed or deleted between check and write; counters beside rows |
| **Dashboard, mail, SMS, storage, sockets, Prisma client** | none | — | — | input and output only |

What makes each modelled component correct:

- *Payments*: money Paystack took is credited, once; a bill shows no more than
  the estate received; the statement explains the balance.
- *Resident withdrawals*: a withdrawal is refunded or paid, once; what is shown
  is what happened to the money.
- *Estate withdrawals*: nothing leaves that was not reserved; every reservation
  ends.
- *Clearance*: who owes nothing is cleared, who is flagged owes something, and a
  stale flag does not stay.
- *Registrations*: a fee is charged when it is due, once; nobody is shown as
  paid who was not charged; a limit is passed only by what is in flight.
- *Shortlets*: what is over ends and nothing else; a guest inside is shown so.
- *Gate*: a pass admits as often as it says; whoever is inside is known to be,
  is tracked and can leave; a decision holds.
- *Emergencies*: alarm, incident, timeline and chat agree; what is over stays
  over.
- *Shifts*: a swap exchanges what was asked for, once; the roster is that of one
  generation; duty and attendance agree.
- *Patrol*: what is overdue is scanned or alerted, once, and nothing else is.
- *People*: row and login agree; emails tell people apart, codes the residents and
  the co-residents, each among themselves; a profile shown as complete was so when
  it was judged; an admission is final.
- *Secrets*: replaced by who knew them or has proven to own the account.
- *Community*: what is closed admits nothing new; counts are numbers of rows.
- *Setup and monthly levy*: types in use stay, charges follow prices; nobody falls
  through a round.

## Modules

| Module | Models | EXTENDS / INSTANCE |
|---|---|---|
| `ExactlyOnceCredit` | abstract: a charged reference is credited at most once, with the charged sum, and never changed again | |
| `WalletPayments` | payments | `INSTANCE ExactlyOnceCredit` (refinement `Transfers`) |
| `ResidentWithdrawals` | resident withdrawals | |
| `ResidentWallet` | both on one `Wallet.balance` | `ResidentWithdrawals`, `INSTANCE WalletPayments` |
| `EstateWithdrawals` | estate withdrawals, with the levy credits of `WalletPayments` as its environment | |
| `LevyClearance` | the flag and its writers | |
| `MonthlyLevies` | the levy of the month | |
| `VisitorGate` | gate, queue, tracking | |
| `FacilityCharges` | vehicles, passes, businesses and the registration of shortlets: four kinds of item that one wallet pays for | |
| `Shortlets` | properties, bookings and the scheduler | |
| `IncidentLifecycle` | `SosService` and `IncidentService` on the same incidents, composed in one `Next` because they share rows and nothing else | |
| `ShiftRoster` | shifts, swaps, attendance and its score | |
| `PatrolMonitor` | checkpoints, scans and the monitor | |
| `Membership` | residents, co-residents, staff, guards, administrators: rows, logins, NINs, codes, ranks | |
| `Credentials` | passwords, PINs, one-time codes | |
| `Community` | polls, rooms, announcements, tickets, committees | |
| `EstateSetup` | apartment types and what is priced by them | |
| `Services` | the last four and `MonthlyLevies` side by side | `Membership`, `INSTANCE` of the others |
| `Server` | the constants every component shares: the requests handled at a time and "no value" | |
| `LevyAccess`, `ShortletStays`, `IncidentReports`, `PatrolRounds` | the instances of `LevyClearance`, `Shortlets`, `IncidentLifecycle`, `PatrolMonitor` that are checked; their variables have names of their own, so that one can be spoken of beside another component | `Server`, `INSTANCE` of the module |
| `MC<Module>` | values of constants, symmetry | the module, or its instance |
| `WalletPaymentsProofs` | theorems about payments and the refinement | `WalletPayments`, `SumTheorems` |
| `ResidentWalletProofs` | about withdrawals alone and with payments | `ResidentWallet`, `SumTheorems`, `INSTANCE WalletPaymentsProofs` |
| `EstateWithdrawalsProofs` | about estate withdrawals | `EstateWithdrawals`, `SumTheorems` |
| `VisitorGateProofs` | about the gate, and clearance | `VisitorGate`, `LevyAccess` |
| `FacilityChargesProofs` | about registrations, and shortlets | `FacilityCharges`, `ShortletStays` |
| `ShiftRosterProofs` | about shifts and swaps, incidents, and patrols | `ShiftRoster`, `IncidentReports`, `PatrolRounds` |
| `ServicesProofs` | about the five services | `Services`, `SumTheorems` |
| `SumTheorems` | lemmas about sums over finite sets | `TLAPS` and its library |

### WalletPayments

`txn`/`amount` are `WalletTransaction` by its unique reference, `balance` the
wallets, `paid`/`status` the `LevyAssignment`, `walletRows`/`estateRows` the sums
of the ledger rows each bill has, `charged`/`acked` what Paystack knows.
Fees are not modelled; one webhook's amount is what Paystack confirms, at most
what was asked for.

`InitializeWalletFunding`, `InitializeLevyPayment` write the PENDING row.
`Deliver`, `Lookup`, then `SettleFunding` | `BeginSettleLevy`,
`CommitSettleLevy` | `FindExistingTransfer`, `CreditTransfer`, and `FollowUp` are
`handlePaystackWebhook`: the check for SUCCESS is in `Lookup`, outside the
transaction that settles. `ReadBill`, `ReadWallet`, `CommitPayLevy` are
`payLevyFromWallet`. `Acknowledge` is a 2xx answer; any other end lets Paystack
repeat, and it may also repeat after a 2xx.

The three kinds of reference are protected differently, and the properties say
how: a transfer's row is *created* in the crediting transaction under a unique
key, so a second one aborts (the theorem `TransfersAreCreditedOnce` and the
refinement `TransfersExactlyOnce`); a checkout's row exists and is only *checked* before
(`CreditsBounded`).

### ResidentWithdrawals

`ReadWallet`/`CommitRequest` are `requestWithdrawal`; `BeginApproval`,
`Transfer`, `MarkRequest`, `MarkRow` are `approveWithdrawal`, whose two updates are
separate statements; `BeginRejection`/`CommitRejection` are
`rejectWithdrawal`. `sent` is what Paystack accepted, `unanswered` those whose
acceptance the server never recorded. Every attempt has a fresh reference, so Paystack
cannot recognise a repetition.

### ResidentWallet

Payments and withdrawals as requests of one server about one balance: a request is
of one kind (`OneRequest`), each step is a step of one module that leaves the other's
tables alone. `Scopes` lists which references and withdrawals a behaviour is about.

### EstateWithdrawals

One handler, `withdrawFromEstateWallet`: `ReadWallet`, `ReadLatest`, `Reserve`,
`Transfer`, `Confirm`, `Compensate`. Everything after the reservation is in one
`try`, so `Confirm` too may go to `Compensate`.

### LevyClearance

One resident. `cleared` is the stored flag; the rule it is derived from is
`Restricted`. `ReadResident`, `QueryOverdue`, `WriteFlag` are
`updateResidentLevyCleared`, its twin in `auth.service.ts` (`Login`) and the cron;
`BeginPayment`/`CommitPayment` recompute it within a paying
transaction; `GuardReadsResident`, `GuardReadsSettings`, `QueryOverdue`,
`GuardWritesFlag` are `RolesGuard`, which writes only when its result differs
from what it read first.

### VisitorGate

`status`, `remaining`, `queue` (the set of statuses the visitor has queue rows
in: the pair is unique), `sessions`, and `inside`, which is not a column but what
the append-only gate log says. Each handler is a `Begin...` that judges a row
and a `Commit...`. A check-in has a third step, `StartTracking`, which runs on
another connection while the transaction holds the visitor's row.

### IncidentLifecycle

`OpenSos` (three kinds), `BeginAct`/`CommitAct` (with the transition table
`Allowed` and `NextStatus`) and `BeginUpdateLocation`/`CommitUpdateLocation` are
`SosService`. `ReportIncident`/`CreateIncidentChat`, `StartIncident`,
`UpdateIncidentStatus`, `CompleteIncident`, `FindResidentSos`/
`ResolveAllResidentSos` followed by `WriteEntry` and `CloseIncidentChat` are
`IncidentService`. The timeline is kept as the status its last entry tells (`told`), the
number of GPS entries (`gps`), and whether an entry ever claimed a previous
status that was not the one told before (`forked`).

### FacilityCharges

One resident's items. `kind` says of which service an item is; `status` and
`payment` are its row. The services charge in the same way, hence one
`ReadWallet` and one `CommitCharge` that differ in what they write.
`BeginApproval`, `CountActive`, `ApproveFree` are `approveVehicle`, `BeginPayment`
is `retryPayment` and `payRegistration`, `RegisterAndPay` what `createPass`,
`registerBusiness` and `registerProperty` do when paid at once. The upsert of
the estate's settings inside `approveVehicle` may lock their row; the model does
not count on it. `BeginVisit`/`LogVisit` and `BeginVerify`/`MarkExpired`
are `verifyPass`. `due` says whose fee is to be paid: at first, and again after
a vehicle was rejected or a business expired; `twice` collects what was charged
without.

### Shortlets

`Begin...`/`Commit...` are requests, `FindBookings`, `CompleteBooking`,
`FindProperties`, `ExpireProperty`, `EndRun` one run of the scheduler: two loops
that an exception in either ends. `inside` is what the append-only access log
says. Runs of the scheduler do not overlap here: an hour is longer than a run.

### ShiftRoster

`AssignShift`, `BeginWeek`/`ClearWeek`/`CreateWeek` (`generateWeeklySchedule`),
`BeginClockIn`/`MarkOnDuty`/`RecordClockIn` and their counterparts for clocking out,
`BeginSwapRequest`/`CreateSwapRequest`, `BeginApproval`/`ReadRequesterShift`/
`ReadTargetShift`/`Exchange`, `RejectSwap`, `CancelSwap`, `SuspendGuard`,
`ActivateGuard`. Rest and day shifts are one kind, and one shift per guard stands
for the seven of a generated week. Neither `clockIn` nor the approval looks at
`is_active`, at the date, or at whose the shifts are by now; the model does not
either. `DayPasses` is the calendar. The operations are grouped into *families*; `Init`
picks a *scope*, the families of the behaviour and the rows it starts with, so that a
run explores each combination that shares rows and not the product of all. A scope
of all families is the whole service.

### PatrolMonitor

`CreateCheckpoint`/`StoreQrCode`, `ScanCheckpoint`/`ResolveAlerts` are guard requests;
`StartRound`, `JudgeCheckpoint`, `FindAlert`, `RaiseAlert`, `RoundFails` a run of the cron,
of which several may be under way. `overdue` abstracts last scan and frequency. A
checkpoint whose creation was cut before its QR code exists is alerted for and
cannot be scanned.

### Membership

One table of people: `status`, `mail` (of the person's row), `login` (the email of
the linked `User`), `nin`, `code`, `agreed` (the consents and the declaration), `complete`,
and the rank of guards in both rows. The families are `join` (register, onboard,
administrators), `staff` (guards), `review`, `nin`, `gate` (codes drawn at first sight),
`profile`, `types` (the apartment type), `family` (co-residents and staff), `decide`
(their approval), `promote`. What is compared before a hash, a mail or a
call to the identity service is kept in `job` and used afterwards; the unique keys
(`User.email`, the codes of residents and of associates) are guards of the writing
steps. `FreeAccount`, `EmailTaken`, `NinTaken`, `Open`, `Undecided` are the checks.

`asked` is `EstateSettings.applyApartmentType`, `typed` the residents with an
`apartmentTypeId`. `BeginApproval`, `BeginVerifyNin` and `BeginCompleteProfile` read the row,
`Judge` is `isResidentProfileComplete`, which reads the settings afterwards, and the
verdict is written with the decision (`Activate`, `CompleteProfile`); `ValidateType` is the
check of `completeProfile` before it. `Furnish` writes demand and types: in registration
(which takes a type where `types` is in scope), `CompleteProfile`, `UpdateProfile` (a type
that is sent is written, and null clears it), `UpdateSettings`, and `EraseType`, the
deletion of a type, whose foreign key sets the column to null. The last three leave
`complete` as it is. How a deletion comes to hit a type in use is a matter of
`EstateSetup`; here any holders may lose theirs.

### Credentials

`BeginForgot`/`IssueOtp`/`MailOtp`, `BeginVerify` with `CountAttempt`, `ExpireOtp`,
`VerifyOtp`, `BeginReset`/`CommitReset`, `BeginChangePassword`, `BeginChangePin`/
`CommitChange`, `ResetPin`. A secret is the number of the request that chose it, so that
"knew the old one" can be said. `OtpExpires` is the ten minutes.

### Community

An item (`Items`) has a `state` and `rows`, the users who left a vote, a message, a like or
a membership on it; unique keys make them sets. An announcement may be created
pinned; `flips` counts that as one turn of its pin. `JudgeVote`/`CastVote`,
`BeginMessage`/`CreateMessage`, `BeginToggle` with `AddLike`, `DropLike`, `Adjust`, `BeginPin`/
`Pin`, `ResolveTicket`, `CancelTicket`, `JoinCommittee`, `LeaveCommittee`, `EnsureRoom`/
`CreateRoom`. `broadcastMessage` makes sure of its room, then sends as any request.
`area` says which kind of item a behaviour is about: kinds share no row.

### EstateSetup

Types are created, renamed, switched and deleted; a deletion only retires a type in
use; foreign keys keep what levies name and take a deleted type from residents.
`BeginLevy`/`ReadPrices`/`ReadResidents`/`CreateLevy` are `createLevy` with prices by type,
`BeginUpdateLevy`/`UpdateLevy` the new prices of a levy, `ChooseType` the four places
that give a resident a type.

### MonthlyLevies

`StartRound`/`NextResident`/`EndRound` are the cron, `BeginEnsure` any request for one
resident; both are `Check`, `UpsertLevy`, `FindAssignment`, `WriteAssignment`. `holder` is
the uncommitted insertion of the month's levy, which makes others wait. `MissRound`
is a process that is down on the first of the month.

### Services

The five services above side by side. In the database they meet: setup gives and takes
the apartment types that profiles need, and sets whether they need one; finance and
login write the clearance that polls ask for; reviews make residents eligible for a
levy. Each module therefore has what it needs of another's writes among its own actions, at
any time (`UpdateSettings` and `EraseType` in `Membership`, changes of clearance in
`Community`, of eligibility in `MonthlyLevies`), which allows at least what the other
service does. A behaviour of `Services` follows one of them.

## Runs

Twelve runs: eleven that pass, one that exhibits a disagreement. Every property
of a passing run has a mutant of the code (an operator named `..._Something`
beside the one it replaces) that violates it. A property that says several
related things is the conjunction of named parts, each commented where it stands
(`BalanceIsExplained`, `WalletIsExplained`, `FlagIsTrue`, `InsideIsAccountedFor`,
`RecordsAgree`, `TimelineIsTrue`, `PaymentIsTrue`, `LimitsBounded`, `StatementIsTrue`,
`StatusIsTrue`, `WhatIsOverEnds`, `SwapsExchange`, `RosterIsTrue`, `MembersAreTrue`,
`ProfilesAreTrue`).

| Run | Instance | What it shows |
|---|---|---|
| `payments` | 2 requests, 1 levy checkout of a bill, and a wallet that 1 transfer funds, fair | transfers are credited exactly once under any overlap (refinement of `ExactlyOnceCredit`), checkouts as often as requests are in flight; a bill shows at most what the estate received; the statement explains the balance, which is overdrawn by at most one bill per other request; every charge is settled, a transfer once its account is known |
| `wallet` | 2 requests on one wallet: a checkout and 2 transfers, or a checkout or a bill and a withdrawal, or a transfer and 2 withdrawals | fundings and withdrawals together explain the balance; refunds and answered payouts stay within the requests in flight; no status that did not happen; uncontested decisions are final |
| `estate` | 2 requests, 3 withdrawals, 2 levies, fair | transfers are reserved first; the statement explains the balance; reservations end unless their request was cut off |
| `clearance` | 2 requests, 2 levies, 1 clock tick, 1 change of due date or setting, fair | without overlap who owes nothing is cleared and nobody is flagged without cause; with it, stale flags are corrected |
| `gate` | 2 requests, 1 visitor, 2 entries, 1 edit, 2 sessions | overuse stays within the requests in flight; the log accounts for who is inside; whoever is inside is tracked; decisions hold |
| `incidents` | 2 requests, 1 incident, both services | SOS: chat, timeline, alarm and status agree under any overlap; GPS recorded once; without overlap what is over stays over; chats of ended incidents are closed |
| `facilities` | 2 requests; either 3 vehicles and an empty wallet, or 2 items of any kinds and a wallet for 2 fees | fees are charged when due and once, paid items were charged, decisions hold, unless requests about an item overlap; free vehicles, overdraft and visits exceed their limit by at most the requests in flight |
| `shortlets` | 1 request and the scheduler, 1 property, 2 bookings, fair | a guest inside is shown so and no stay is completed early, whatever overlaps; stays and years that are over end |
| `roster` | 2 requests, 2 guards, up to 4 shifts and 2 swap requests, six scopes | an approved request exchanged its shifts once, and as it was asked unless another swap moved them; nobody's number of shifts changes; duty agrees with attendance; the score stays within 100; a week is one generation's |
| `patrol` | 1 request, 2 runs of the monitor, 2 checkpoints, fair | one alert at most, only for a cause, unless a scan or another run came between; what is overdue is scanned or alerted |
| `services` | 2 requests; 2 residents, 1 co-resident, 1 guard, 3 emails, 3 codes, 1 NIN in the eleven scopes of `MCServices`; 2 codes, 2 secrets, 2 guesses; 1 item of every kind; 2 types, 1 levy; 2 residents, 2 months, 1 request beside the cron | rows, logins, ranks, codes and NINs agree; a profile shown as complete has what completes it, but for overlap and for a type that went, or was first asked for, after the verdict; admissions are final; codes and secrets are earned; closed items admit nothing new; counts are numbers of rows; types, prices and charges agree; nobody falls through a round |
| `payments_double_credit` | violation | two deliveries of one checkout credit it twice |

`CHECK_DEADLOCK FALSE` stands in `wallet`, `estate`, `roster` and `services` only, whose withdrawals, shifts, people, codes or months run out. In the other instances something can
always happen.

## What the code does that its words deny

The violation run, with its lines, is under "findings" in `PROJECT.json`. Other
disagreements met while modelling are not runs of their own; they are the reason
why properties grant the excuses they grant:

- A pass of several entries (`visitor.dto.ts:95` "Total number of entries allowed")
  is scanned and admitted once: the queue has a unique key over visitor and status
  (`schema.prisma:1150`), and the second scan-and-admit breaks it
  (`visitor.service.ts:968`). `LeaveQueue` models the key.
- `sos-transition.service.ts:11` says "Closed SOS incidents cannot be changed", and
  `IncidentService` changes them (`incident.service.ts:640`): `OverStaysOver` excepts
  what is `outside`.

- Two decisions of one withdrawal that both read PENDING both take effect
  (`finance.service.ts:1169`): it is paid and refunded, or paid twice. Hence
  `SettlementsBounded` counts requests in flight and `DecidedStaysDecided`
  excepts `overlapped` withdrawals.
- Two payments from one wallet overdraw it (`:927`), as do two withdrawals
  (`:1046`): `OverdraftBounded`, in `BalanceIsExplained` and `LimitsBounded`
  elsewhere, states by how much at most.
- Two payments that complete the last two levies at the same time each see the
  other as unpaid and leave the flag off (`:1632`) until the cron comes:
  `PaidUpIsCleared`, in `FlagIsTrue`, excepts overlap, `StaleFlagIsCorrected` does not.
- Finance and login grant 24 hours after approval whatever the estate's
  `applyKycLevyGracePeriod` (`:1617`); `RolesGuard` asks the setting. With the
  setting off they keep overwriting each other.
- When the answer of Paystack to an estate withdrawal is lost, or the update
  after it throws, the row becomes FAILED and the wallet is given the money back
  although it has left (`:1886`): `TransfersAreReserved` excepts `unanswered`.
- A vehicle is charged for only when *more* than `freeVehicleLimit` are active
  (`vehicle.service.ts:286`), so the limit plus one are free; one that was charged,
  rejected and resubmitted is charged again.
- A refused retry of a pass payment may overwrite PAID with FAILED
  (`heavy-vehicle.service.ts:250`), and a commit of an approval a rejection (`:314`).
- A business that was suspended while its period ended stays so: activation
  wants the period (`business-hub.service.ts:500`), payment refuses the suspended
  (`:318`), and expiry is found only for the active (`:562`). One whose period is
  over cannot be renewed before a guard's scan has found out (`:322`).
- The vehicle limit of a business counts named vehicles by plate and
  others by row (`business-hub.service.ts:606`): each sort is bounded, their sum is not.
- A shortlet guest is not let out, by the log, once the stay is over or the
  property suspended: `verifyAccess` judges exits as it judges entries
  (`shortlet.service.ts:493`).
- A denial that read PENDING overwrites a check-in committed since
  (`visitor.service.ts:692`); a scan of an expired pass marks as EXPIRED a visitor
  who is inside (`:519`), who then cannot be checked out (`:1189`). Both are
  `disturbed` in `VisitorGate`.
- Two acts on one emergency judge the same status; a closed one may be changed
  by the later commit (`sos.service.ts:480`).
- `docs/frontend-guard-sos-emergency-handoff.md:221` says that a guard with an
  active alarm cannot raise another; `createGuardSos` does not look.
- The approval of a swap does not look whose the shifts are by then
  (`shift-swap.service.ts:261`): two approved requests about one shift move it from
  whoever has it. `SwapsExchange` excepts `outdated` requests.
- A guard may clock in to a shift of any later day, suspended or not, and to one that
  was completed; regenerating a week deletes shifts that are not over.
- `verifyNinOnly` does not look at the status: a REJECTED resident who verifies a NIN
  is ACTIVE. `AdmissionsHold` excepts it.
- NINs have no unique key: two residents who verify one NIN at the same time both
  have it (`resident.service.ts:590`), and guards' NINs are never looked at.
- `completeProfile` is not judged again when what it stands for changes: when the estate
  comes to ask for an apartment type (`estate-config.service.ts:212`), when a type is
  deleted under those who have it (the key of `Resident.apartmentTypeId` sets it to null),
  when a resident clears it (`auth.service.ts:268`), or when `completeProfile` is sent a null
  type, which it writes, and judges by the old one (`resident.service.ts:842`). None of
  these needs an overlap. `ProfilesAreTrue` excepts whom they have left without a type
  (`undone`), and nobody else.
- Associates' codes are drawn without looking at residents' codes and the other way
  round; only codes of the same kind are kept apart.
- `updateGuard` writes role and email of the guard's row and not of the login
  (`guard.service.ts:954`): `LoginsAgree` excepts `edited` guards. A removed co-resident
  leaves the `User` row behind, so the email stays taken.
- `approveSingle` answers that it failed when only the mail failed; `createGuard`
  answers 'Creation Failed' when only its log entry failed, after the commit.
- `forgotPassword` ends codes that were not verified only: a verified code still
  resets the password after a new one was asked for.
- When a request gives a resident the levy of the month between the round's look and
  its insertion, the round breaks the unique key and ends: later residents have no
  levy that month until a request of theirs. `EveryoneIsCharged` excepts `abandoned`.
- The monitor raises an alert for a checkpoint scanned since it judged it, and two
  runs raise two, although `patrol-monitoring.service.ts:50` says "avoid duplicate active
  alerts": `AlertsAreTrue` excepts `crossed`.

## Bounds

`MaxAmount`, `MaxTransfers`, `MaxTime`, `MaxChanges`, `MaxEntries`, `MaxUpdates`,
`MaxSessions`, `MaxVisits`, `MaxShifts`, `MaxSwaps`, `MaxOtps`, `MaxSecrets`, `MaxComments`,
`MaxMonth` and the finite sets are the only bounds; each is a constant and stands in
one guard (`MaxVisits`, `FreeLimit` and `AttemptLimit` are limits of the code, 2 guesses
standing for 5). In `Community` a count may be torn once per announcement.

- *Requests.* Every hazard of the list is a race of two handlers, with
  whatever steps of the environment between; two threads produce it. The `...Bounded` properties are stated by
  `Cardinality(Threads)`, and their bound is reached: the same instances violate
  them with one less.
  One of them needs more than two objects to be exceeded: that no more codes are live than
  requests are under way (`OneLiveCode`) is reached by the two codes of `services`; that
  they are never more is shown by the theorem, a third code being too costly.
- *Fundings.* Liveness of three references is too costly, so checkouts that fund
  the wallet (`InitializeWalletFunding`, `SettleFunding`) are in `wallet` instead.
- *Objects.* Handlers touch one reference, withdrawal, visitor or incident at a
  time and meet others only through a wallet or a bill, so two or three share
  that one. The second resident, visitor or incident adds products of
  states, no new step. `resolveAllResidentSOS`, the only handler of several
  incidents, resolves a set of one here; its loop over rooms is in the module.
- *Amounts.* Bills of 2 and payments of 1..2 give partial payment, exact
  payment, and payment in excess; a wallet of 3 against withdrawals of 2 funds one, not two.
- *Registrations.* Vehicles meet through their number, so three are needed for
  two to be one too many; everything else meets through the wallet, and two
  items with two fees give every order of payment, renewal and overdraft. The
  wallet bounds the charges.
- *Scheduler.* It is the second writer of every shortlet row, so one request
  suffices beside it; two bookings show a loop that ends half way.
- *Scopes.* `roster`, `wallet` and the membership part of `services` list the
  combinations of operations that share a row or a unique key; operations that
  share none commute, so their combination shows nothing new.
- *Months.* Two: the round of the first may be missed or cut, the second starts anew.
- *Time.* The clock matters through two comparisons (due date, end of grace),
  both of which fall within one tick.

## Fairness

- `payments`: a request that has begun goes on (weak): Node runs pending
  continuations. Paystack repeats a webhook until it is answered 2xx (strong, per
  reference, `Redeliver`), and a delivery repeated for ever does not fail at the
  same statement for ever (strong, per step). Nothing is assumed of users.
- `estate`: requests under way go on or end (weak). Nothing else: what is cut off
  is exempt, because no code resumes it.
- `shortlets`: the hour comes round, a run ends (weak), and no statement of the
  scheduler fails for ever (strong, per row it writes). Nothing of requests.
- `clearance`: requests go on; the five-minute cron comes round and its
  reconciliation does not fail for ever at one statement (strong, since it takes a
  free thread and other requests may have them all at times); the clock
  advances (weak). Login, guard and payments are not assumed.

- `patrol`: the cron starts again and its runs go on (weak), and do not throw for ever
  at the same checkpoint (strong, per checkpoint and step). Nothing of guards.
- `roster` and `services` state safety only: nothing in that code comes round
  by itself but the monthly cron, and a month that was missed is not made up for.

## Proofs

TLC explores the instances above; the theorems hold for any number of requests and
objects and for all amounts and scopes. Every invariant and every action property that
a passing run checks is a theorem; those with their properties are under "theorems" in
`PROJECT.json`. What is still only model-checked is [below](#model-checked-only).

All components are proved alike: an inductive invariant `IInv`, which is the type
invariant and the named parts below; for each part a lemma that every step preserves
it, with one step per action that can disturb it; `InitIInv`, `StepIInv`,
`AlwaysIInv`; the theorems. In a module about several components the invariants of
the later ones have a prefix (`LevyIInv`, `ShortletIInv`, `IncidentIInv`, `PatrolIInv`,
`MonthlyIInv`, `SetupIInv`, `LoginIInv`, `CommunityIInv`, `MemberIInv`).

What nearly all need, under various names, are two parts. *Positions*: what the place where a
request stands says about its arguments. *Sole and judged*: what no two requests were about at
a time is in the hand of one at most, and is still as this one has read it. Without the
second nothing that is judged before an `await` could be shown to hold at the write,
and a property that excepts `overlapped` could not be kept by the steps in between.

### Assumptions

Named where the constants are declared, and evaluated in every run:

- requests are finitely many and at least one (`ThreadsAssumption`), `None` is none of
  the values beside which it stands (`NoneAssumption`), bounds are natural numbers;
- rows that are summed or counted are finitely many (`RowsAssumption`,
  `WithdrawalsAssumption`, `AmountsAssumption`, `ItemsAssumption`, `GuardsAssumption`), amounts
  and fees are positive (`@Min` in `finance.dto.ts`);
- references, withdrawals and bills have their owners (`OwnersAssumption`,
  `PaymentsAssumption`), and kinds of reference, of person and of item do not share
  rows (`KindsAssumption`, `PeopleAssumption`, `CommunityAssumption`);
- who is there at first has a login of its own, since `User.email` is unique (`ScopesAssumption`
  of `Membership`); rosters and requests a behaviour starts with are of guards and
  shifts there are (`ScopesAssumption` of `ShiftRoster`);
- `Cron` is no request (`MonthlyAssumption`), and there are names enough to tell the apartment
  types apart (`SetupAssumption`), since a behaviour starts with types of different names.

### Sums

`SumTheorems` says how `SumFunctionOnSet`, a fold of the library, changes when one
summand changes, appears or leaves (`SumUpdate`, `SumAdd`, `SumRemove`, and from them
`SumGains`, `SumLoses`), and when a sum is bounded by its largest summand (`SumBound`).
The library's induction theorems take a predicate as a parameter, which the backends
cannot instantiate. Induction is therefore done on *sets* of counterexamples: a
non-empty set of naturals has a least element (`LeastNatural`, from the
well-foundedness of `<`), hence a non-empty set of finite sets has a member none of
whose elements can be removed (`SmallestSet`); the set of finite sets on which the
claim fails has none. `SumIsChosen`, `SumIsUnique` and `SumExists` show in this way
that the recursive function behind the fold is what its equation says.

### Payments

`WalletPaymentsProofs`:

| Theorem | Statement |
|---|---|
| `TypeCorrect` | `Spec => []TypeOK` |
| `CreditsAreBounded` | `Spec => []CreditsBounded` |
| `TransfersAreCreditedOnce` | `Spec => []TransfersCreditedOnce` |
| `PaidIsAlwaysInEstateLedger` | `Spec => []PaidIsInEstateLedger` |
| `BalanceIsAlwaysExplained` | `Spec => []BalanceIsExplained` |
| `TransfersRefine` | `Spec => TransfersExactlyOnce` |

`IInv` is the type invariant and

- `ArgumentsOK`: what a request's position says about its arguments;
- `RowsOK`: charged checkouts have a row, transfers never a PENDING one, credited
  references are exactly the SUCCESS ones. This is what makes a delivery
  that finds SUCCESS harmless.
- `ChargedOK`: a row that is SUCCESS shows the amount Paystack charged; the statement
  adds up rows, the balance was incremented by charges;
- `ReadsOK`: the `paidAmount` a request has read is covered by the estate's
  rows, and is the current one when there is one thread. Neither half of
  `PaidIsInEstateLedger` is inductive without it: the commit writes
  what was read.
- `CreditsBounded`, strengthened by nothing: `credits + |Holding|` does not grow
  once a credit exists, since a new holder must have read PENDING, which
  `RowsOK` excludes; each credit consumes its holder (`CreditReleases`).
- `LedgerExplainsBalance`: every step changes the balance and the sum of the rows alike, or
  credits a reference a second time (`StepAccounted`);
- `OverdraftBounded`: what requests have judged affordable and not yet taken is
  `Reserved`. A request that comes to reserve has just seen that its bill is covered,
  so the others', at most one largest bill each, are all that may be missing.

The refinement maps every step to a credit or a stutter of `ExactlyOnceCredit`;
only `CreditTransfer` credits, and its guard on the unique reference with
`RowsOK` gives that it had not been credited before.

### Withdrawals and the wallet

`ResidentWalletProofs` is first about `ResidentWithdrawals` alone: `TypeCorrect`,
`SettlementsAreBounded`, `StatementIsAlwaysTrue`, `DecisionsStand`. `IInv` adds

- `PositionsOK`; `RowsOK`, what holds of a request, its row, its refunds and transfers
  whatever overlaps;
- `SoleDecider`, `JudgedOK`: a withdrawal whose decisions never overlapped has at
  most one request, and is as this one has read it;
- `CountsOK`: answered transfers that are not `Marking` are on record, a PENDING
  withdrawal has none. `SettlementsBounded` is not inductive alone: a new decision
  enlarges `Deciding`, which is harmless only because it reads PENDING, and then
  the settlements are exactly those being marked, by requests other than the
  deciding ones (`DecisionBegins`).

Then about both kinds of request on one balance (`WalletSpec`):
`WalletIsAlwaysExplained` (`[]WalletIsExplained`), `WalletSettlementsAreBounded`,
`WalletDecisionsStand`. Its invariant `WInv` is `IInv`, the payments' invariants but
those about their own balance (`PaymentsOK`; the lemmas of `WalletPaymentsProofs` are
used through an instance of it), `OneAtATime` (a request is of one kind, in every state),
`StatementsExplainBalance` and `DebtBounded`. The bound on
the debt is not the sum of the two modules' bounds: as a request is of one kind, a wallet
lacks at most one largest debit, bill or withdrawal, for every other request.

`EstateWithdrawalsProofs`: `TypeCorrect`, `TransfersAreAlwaysReserved`
(`[]TransfersAreReserved`), `BalanceIsAlwaysExplained` (`[]BalanceIsExplained`), from
`PositionsOK` (row and transfer are as far as the request's position) and `OneRequest` (a
reference belongs to one request), with the two halves of the last as in payments.

### Clearance

`VisitorGateProofs`, on the instance `LevyAccess`: `LevyTypesCorrect`, `FlagIsAlwaysTrue`
(`FlagIsTrue`). `LevyIInv` adds `LevyPositionsOK`
(a levy is with a payment, a verdict with a request that has come to one),
`LevyOneRequest` (without overlap one request is under way) and `LevyJudgedOK`: a lone
request's verdict is what the rule says of the time it looked, and the flag the guard
read is the one there is. `PaidUpIsCleared` speaks of quiet states; `ClearedOK` says
the same of all, which is what is inductive. `CauseStep` shows from them that only a
verdict that restricts takes the flag away.

### Gate

`VisitorGateProofs`: `TypeCorrect`, `EntriesAreBounded`
(`[]EntriesBounded`), `InsideIsAlwaysAccountedFor` (`[]InsideIsAccountedFor`),
`DecisionsAlwaysHold` (`DecisionsHold`). `IInv` adds `PositionsOK`, `OneRequest`
and `JudgedOK`, and `TrackedOK`: while a check-in is between its
tracking and its commit the session exists, or was stopped by hand. The lock on
the visitor's row is what it rests on, since an overlapping check-out would
end the session. Entries are counted as settlements are: `remaining` less those
`Entering` falls only when a request begins to enter, which needs
`remaining > 0`.

### Emergencies

`ShiftRosterProofs`, on the instance `IncidentReports`: `IncidentTypesCorrect`,
`RecordsAlwaysAgree` (`[]RecordsAgree`), `TimelineIsAlwaysTrue` (`[]TimelineIsTrue`),
`EndsAreFinal` (`OverStaysOver`), whichever of the two services are in use. Beside
`ExistsOK`, `IncidentPositionsOK`, `OneRequest` and `JudgedOK`, `IncidentIInv` has

- `RoomsOK`: an incident has no room only while `CreateIncidentChat` is still to
  come, or was cut off or overtaken;
- `EndsOK`: while the room of an incident that is over is open, the request
  that ended it is at its entry or closing rooms. `ChatFollowsIncident` says
  nothing while a request is under way, so it cannot be inductive; `EndsOK` says
  what is owed meanwhile.

### Registrations and shortlets

`FacilityChargesProofs`: `TypeCorrect`,
`FeesAreChargedOnce` (`[]FeeChargedOnce`), `PaymentIsAlwaysTrue`
(`[]PaymentIsTrue`), `LimitsAreBounded` (`[]LimitsBounded`), `DecisionsAlwaysHold`
(`DecisionsHold`). `IInv` adds `PositionsOK`, `RowsOK`, `OneRequest`, `JudgedOK`, and
`DueOK`: what is no longer due shows so in its row, unless requests overlapped. The three
limits are one counting argument each.

On the instance `ShortletStays`: `ShortletTypesCorrect`, `ShortletStatusIsAlwaysTrue`
(`[]StatusIsTrue`), `ShortletDecisionsAlwaysHold` (`ShortletDecisionsHold`), from
`BookingOK` (a booking is made by
one request), `AccessOK` (a guest seen checked in is so until the stay ends),
`FoundOK` (what the scheduler found stays due), `ActivationOK` (a property about
to be activated is paid and not about to expire) and `ExpiredIsUnpaid`.

### Shifts, swaps and patrols

`ShiftRosterProofs`: `TypeCorrect`, `SwapsAreAlwaysTrue` (`[]SwapsAreTrue`),
`RosterIsAlwaysTrue` (`[]RosterIsTrue`), `SwapsAlwaysExchange` (`SwapsExchange`). The
actions are first shown to have one of a few effects (`Step`: the roster is written, a
week is generated, a guard clocks, a swap is decided), which the rest of the proof is
about. `IInv` adds

- `PositionsOK`; `RowsOK`, `AskedOK`, `SwapRowsOK`: a shift that is not there has nothing
  about it, swap requests have numbers without gaps and name shifts that are there;
- `SoleOK`: a shift that was never `mixed` is in the hand of one request, a swap request
  never `contested` is decided by one; `DecidingOK`: it is PENDING meanwhile;
- `OwnersOK`, `AgreedOK`: the owner of such a shift is whom the request has read, and
  whom the swap request names unless it is `outdated`. That the approval does not look
  whose the shifts are is harmless exactly as far as these hold;
- `AttendanceOK`, `ClockingOK`: status and attendance agree, between the two writes of
  clocking too;
- `WeekOK`: the last week generated is there but between its deletion and its
  insertion. `RosterIsTrue` is silent about that moment and so not inductive.

On the instance `PatrolRounds`: `PatrolTypesCorrect`, `AlertsAreAlwaysTrue` (`[]AlertsAreTrue`).
`VisitsOK`: a checkpoint that was never `crossed` is in the hand of one monitor, as
overdue as it was judged, and without an alert when it is about to get one.

### Services

`ServicesProofs`. A behaviour of `Services` follows one service and leaves the others'
variables alone, so there is one invariant for each (`SetupPart`: `service = "setup"
=> SetupIInv`, and so on), which a step of that service preserves and any other
step does not touch.

- *Monthly levy*: `EveryoneIsAlwaysCharged`, from `WorkOK` (only the cron goes from one
  resident to the next) and `ListOK` (whom a round set out to visit was eligible).
- *Setup*: `SetupAlwaysHolds`, from `TasksOK` (arguments), `UnusedOK` (a type about to be
  erased is nobody's), `NamesOK` (a name about to be given is nobody's) and `HomesOK` (a levy
  about to be written has a price for every resident's type), each unless it is `stale`.
- *Secrets*: `ResetsAreAlwaysEarned`, `SecretsAreAlwaysReplacedKnowingly`. `RowsOK` says that a
  verified code was guessed by whom it was mailed to, and that one that set a password is
  gone; `LoginCountOK` counts wrong guesses with those judged and not yet counted,
  `LiveOK` the codes that can be used with those about to be issued: neither bound
  is inductive without what is under way.
- *Community*: `EntriesAreAlwaysAllowed`, `RecordsAlwaysAgree`. `EntriesOK` is what a request has
  judged of poll, room and user, `HeldOK` that a like found is there; `CountsOK` that a
  count and what requests still owe it make the number of rows; `RoomsOK`, `TicketsOK`,
  `PinsOK` that what has no unique key has one request, unless it is `doubled`.
- *Membership*: `MembersAreAlwaysTrue`, `AdmissionsAlwaysHold`. `PersonsOK` is what a
  position says about the person; `PersonsApart` and `VerdictsOK` that a person of whom no two
  requests were under way is as the request has read; `KindsOK` what statuses each kind
  of person can have; `LocksOK` that an onboarding which has inserted its login keeps the
  email to itself until it commits; `NinsOK` that a NIN being verified is nobody else's
  unless `contested`; `TrustsOK` that whom a request takes to have a type, and who lacks it,
  is `undone`, which makes the verdict safe to write. `AdmissionsHold` is an action property: a step that would overwrite an
  admission has read a status that `VerdictsOK` shows to be the present one.

`MembersAreTrue` has the types of all five services among its parts, so its theorem
combines the five invariants.

### Model-checked only

Liveness under fairness, and `ENABLED`, are out of the prover's reach: that charges are
settled (`ChargesAreSettled`), reservations end (`ReservationsEnd`), stale flags
are corrected (`StaleFlagIsCorrected`), what is over ends (`WhatIsOverEnds`) and what is
missed is alerted (`MissedIsAlerted`) is shown by TLC in the instances of the runs.

## Not modelled

Listed with reasons under "components" in `PROJECT.json`. In short: I/O
(mail, SMS, storage, sockets, the dashboard's queries) because nothing modelled
reads it; `IncidentScheduler` because no module provides it, so it never runs;
`guard-sos.service.ts` because it is commented out, as are the first half of
`committee.service.ts` and parts of `resident.service.ts`; streets and categories of
heavy vehicles, plain records behind a single write; generated code. Within
modelled components: fees and narration of transactions, notifications, live
streams, ratings and silencing of alarms, locations, positions of guards (append
only), handovers of shifts (text), `autoShiftRunner` (no caller), the scores other than
attendance (sums over logs, not persisted), login tokens and `first_login`, and the
content of profiles but for what completes one.

## Plan

Done: the money (`WalletPayments`, `ResidentWithdrawals`, `ResidentWallet`,
`EstateWithdrawals`, `LevyClearance`, `MonthlyLevies`), who is let in (`VisitorGate`),
emergencies (`IncidentLifecycle`), what is registered for a fee (`FacilityCharges`,
`Shortlets`), the guards' work (`ShiftRoster`, `PatrolMonitor`), the people and what
they share (`Membership`, `Credentials`, `Community`, `EstateSetup`); and, of each of
them, every invariant and every action property proved.

What is left:

1. Larger scopes of `Membership` (two co-residents of one resident) for TLC; the
   theorems cover them already.
2. An abstract specification of a withdrawal (decided once, settled as decided, while
   its decisions do not overlap) that `ResidentWithdrawals` implements, as
   `ExactlyOnceCredit` is for transfers.
