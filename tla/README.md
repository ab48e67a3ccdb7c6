# Verification of Thumua365

Thumua365 keeps the book of a small trading business: receipts of purchases and
sales, payments on them, partners, products, drafts and season contracts. People
write on their devices, also without a network; a NestJS server on PostgreSQL
keeps the book of each organisation and serves it to every device. Organisations
link with each other and send each other orders; plans are paid for by bank
transfer; people are added, moved, removed, and delete their accounts. This
directory holds TLA+ models of that system, TLC runs on small instances and
proofs checked by TLAPS. The code is in `src/`; `API` below stands for
`src/apps/api/src`, `CORE` for `src/packages/core/src`.

## 1. Inventory

| component (code) | state it keeps | operations | interacts with | status |
|---|---|---|---|---|
| Device queue (`src/tools/login-test/sync.js`) | local book, `QueuedOp` list, conflict marks, cursor | enqueue, send, take the answer, dropStuck, pull, merge, reset, clear | push, pull | partly |
| Sync push (`API/sync/sync-push.service.ts`) | `sync_ops`, the tables of the book, `audit_log`, orders | permission, plan, one transaction per operation, refusals, fulfilment | devices, orders, events, members, billing | modelled |
| Sync pull (`API/sync/sync-pull.service.ts`, `sync-cursor.ts`) | none: the cursor lives on the device | rounds, pages, late parents, reset | push through the tables, members | modelled |
| Orders (`API/orders`) | orders with version, side and status, `order_events` | create, move, cancel; fulfilled by push, detached by a deletion | links, notifications, deletion | modelled |
| Partner links (`API/links`) | links, codes, their log | invite, renew, claim, discover, accept, revoke | orders, reports, deletion | modelled |
| Account deletion (`API/account/account-deletion.service.ts`) | none of its own | files, data, login, each of which may fail and be called again | orders, links, members, store | modelled |
| Billing (`API/billing`, `CORE/subscription.ts`) | intents, transfers, subscriptions, referrals | create intent, webhook, activate, extend, add staff, reward | plan check of push, limits | partly |
| Admin (`API/admin`) | none of its own | opens a plan by hand | billing | partly |
| Members and branches (`API/org`) | memberships, branches, logins | add, reactivate, change, remove; create, archive | guard, scope of pull, deletion | partly |
| Bootstrap (`API/me/bootstrap.service.ts`) | organisation and membership | found once | deletion | modelled |
| Recovery mail and profile (`API/account/recovery-mail.service.ts`, `profile.service.ts`) | address, token, cooldown | ask, claim, send, take back, confirm, change, reset | mail | modelled |
| Places (`API/places`) | places of the map | create, change, remove under a limit | audit log | modelled |
| Reports and linked lists (`API/reports`, `API/links`) | none | summary and activity of a period, list by pages, balance | receipts, links | modelled |
| Attachments, storage (`API/attachments`, `API/storage`) | the folder of an organisation | signed upload, sweep page by page | deletion | partly |
| Core calculations (`CORE`) | the book of the app as a value | lines, totals, debts, pricing, payments, drafts, import, tax, stock | - | partly |
| Domain events, notifications (`API/events`, `API/notifications`) | notices | emit after commit, listener, `notify_order`, `notify_link` | orders, links, push | modelled / partly |
| Guards (`API/auth`), audit log, mail, database access, contracts | logs | one reading of the membership per request | all | partly |
| Analytics events, feedback, metrics, health, configuration, scripts | counters, one insert, plumbing | - | - | not modelled |

What is hard here, and what would make each part correct:

- **Ordering by a timestamp.** Pull pages by `updated_at`, the start of the
  writing transaction, whereas a row is visible from its commit. *A device misses
  nothing but what took too long to commit, and ends with the server's book.*
- **A page of many statements**, and a cursor that outlives a branch. *A payment
  arrives with its receipt; a device never mixes two scopes.*
- **Retries.** An answer may be lost after the commit, a device may give up and
  send again while its first request still runs, the process may stop anywhere.
  *Every operation takes effect once, in the order of its device, and none is
  lost.*
- **Refusals for good.** *What the person is told was refused has not been
  applied; what waits behind it can be freed.*
- **A copy that is written and read at once.** *What a person wrote stays in
  sight; what was passed over for its sake comes back.*
- **Several people on one record.** *Deletion wins and is audited once; an order
  is fulfilled once, its history is a chain, its newest notice is current.*
- **Two organisations on one code**, which is renewed or revoked meanwhile. *An
  active link is what both agreed to.*
- **An account that goes in three steps** while others trade with it. *Nothing
  names it in the end; what others booked stays; nobody else loses their firm.*
- **Counting under a limit** (people, branches, places), and checking in one
  statement what is written in another. *The limit holds; nobody is in a branch
  that is gone, in two firms, or a login without a membership.*
- **Mails that fail late.** *The link a person was told of works; mails are rare;
  a password is reset only through an address that was proved.*
- **Money that arrives twice, late, or for something else.** *A transfer counts
  once, no month is lost, days paid for keep their worth, each transfer is
  answered in the end.*
- **One sum told by many screens.** *What is paid is the sum of the payments;
  debts, taxes, stock and the other side's view are the same money.*

`PROJECT.json` lists each of these hazards at its line with the properties that
watch it.

## 2. Modules

| module | models | uses |
|---|---|---|
| `SyncPull` | a device that pulls while write transactions begin, wait and commit | - |
| `Ledger` | abstract promise of push: entered once, in order, or given up | - |
| `SyncPush` | devices with queues, requests, transactions under the lock, the database | `Ledger` (refinement) |
| `Device` | one device that writes, sends, pulls, merges, drops and clears, beside others who write | - |
| `Pricing` | the pure part of a payment: sums, tiers, periods, conversion of days | - |
| `Billing` | intents, transfers, webhook, activation by hand, referral rewards, on two connections | `Pricing` |
| `Chain` | what links, orders and deletions share: organisations, locks, open transactions, events after the commit, notices, a server that stops | - |
| `Links` | invitations, codes, claims, answers, the trigger that freezes a link's ends | `Chain` |
| `Orders` | placing and moving orders, `order_events`, notices | `Links` |
| `Trade` | orders, links and the deletion of accounts together | `Orders` |
| `Organization` | firms, people, branches, logins, bootstrap and deletion | - |
| `RecoveryMail` | recovery addresses, their mails, password resets | - |
| `BookMath` | lines, totals, debts, pricing rules in integers | - |
| `Records` | the records of a book as push takes them over the wire, and the check of a line's total | `BookMath` |
| `SheetImport` | a spreadsheet read into rows: columns, cells, dates, the wrong rows by their number | `Reports` |
| `Reports`, `Insights` | selectors: debts by party, tax periods, ledgers, stock, spending; profit by product, latex, contracts, quota | `BookMath` |
| `Book` | the book of the app and every change of it, files imported into it, reading back what older versions stored | `SheetImport`, `Insights`, `Records` |
| `Views` | the lists, the balance and the reports two linked accounts read, by branch, by person and by period | `BookMath` |
| `Places`, `Files` | places of the map; the sweep of a folder | - |
| `SyncPullProofs`, `SyncPushProofs`, `TradeProofs`, `BillingProofs`, `DeviceProofs`, `RecoveryMailProofs` | theorems about the module they are named after | TLAPS |
| `LedgerProofs` | what push does to the book, and that it implements `Ledger` | `SyncPushProofs` |
| `OrganizationProofs` | theorems about `Organization`, `Places` and `Files` | TLAPS |
| `MCSyncPull`, `MCSyncPush`, `MCBilling`, `MCTrade`, `MCParts` | instances for TLC | |

A module's comments name the code of its actions, and the `map` of
`PROJECT.json` gives the lines of every definition. What follows is what a reader
needs besides.

### Synchronisation

- **SyncPull.** `clock`, `tx`, `rows` are the database: `Begin` fixes `now()`,
  `Commit` makes the row visible with `updated_at` = start, `Tick` cannot pass an
  open transaction's `TxLife`, `Abort` is every way a transaction ends without
  writing. `cursor` is `PullCursor`; `call` the request in service: `StartPage`
  (guard, branch, upper mark), one `findMany` per `ReadTableToItsEnd` or
  `FillPage`, `addLateParents`, `Deliver`. A record is an id with a count of its
  commits; the ghost `slow` marks a row whose last transaction stayed open for the
  overlap or longer. A payment begins after its receipt was committed and a change
  after its insert, because a device sends them only once it was answered or has
  pulled the record. Devices do not interact through pull, so one is enough.
- **SyncPush.** `queue`, `conflict`, `dropped` are the queue of `sync.js`; `req[s]`
  a request: `Guard`, `assertPlan`, `StartOp`, `Look` (advisory lock, `sync_ops`,
  the row), then `Commit`, `Refuse`, `Fail` or `CommitUnheard`, then `Emit`.
  `Refusal` lists the refusals of the code in their order. `ChangeMember`,
  `ChangePlan` and `MoveOrder` do not take the lock, as in the code. What a record
  holds is one flag, `sound`.
- **Ledger** knows no requests: people make operations and give some up, and each
  is entered at most once, after those its device made before it; what was given
  up is never entered, or entered as void. `Promise` in `SyncPush` reads it off the
  state: an operation is void in `sync_ops` if it found its record deleted.
- **Device.** Both halves of sync on one book, with local writes between any two
  awaits. `opQueue` is a set whose order is that of `n`, the number of the
  operation. A row is the set of the writes in it, so that two copies agree exactly
  when nothing is missing in either. The overlap of pull is free (`ReadPage` may
  begin anywhere before the cursor). `astray` is a history variable: the records
  whose copy was left behind, by name of the cause. A reset for another branch
  and late commits are in `SyncPull`, requests that outlive the device's patience
  in `SyncPush`.

### Links, orders, deletion

- `Chain` has the transactions of `Database.scoped` as `req` (a request that has
  read and not yet written), `locked` (rows of organisations that a deletion
  holds), `events` (emitted after the commit, delivered in any order, lost when
  the server stops) and `notices`. `KeysHold` is the foreign keys.
- A link or order that has been deleted leaves `GoneLink` or `GoneOrder`: an id is
  never used twice. `Refs` are the ids that notices name.
- `Trade`: a deletion goes from `files` to `data` (row lock, orders read), `links`
  (links read), `purge` (one step: its writes are locked until the commit),
  `login`. Each may fail and the person calls again; two deletions may block each
  other (`Deadlock`).
- Notices are ordered by `created_at`, the start of the listener's transaction:
  its action stands for that start.

### Organisations and mails

- A person is their phone number, which is their login and the key of their
  profile. A request is split where it waits for a lock or acts on what it read.
  The ghosts `raced` and `overlapped` mark rows written while the branch was being
  archived or the firm deleted, so that the properties can say exactly which
  interleavings the code leaves open (section 4). The login `taken` is that of a
  member whose row was committed although the request heard of a failure
  (`CommitAnswerLost`, `TakeBackLogin`).
- `RecoveryMail`: a request is transactions with one mail between them. A mail that
  fails is taken back within `MailLife`: in the code 10 s of the mailer and 7 s of
  the transaction behind it, against a cooldown of 60 s. `sent` are the mails let
  through, whether they arrived or not, `freed` those of them whose time was taken
  back as that of a mail that failed (their own or, late, that of a reset), `told` the newest link a person was told of, `proved` the
  addresses that a person opened a link at.

### Billing and the app's book

- `Billing`: `Quote` and `CreateIntent` are two steps, as the reads are not locked.
  `bank` is what will be reported, `acked` what was answered; a repeated or late
  call is another `Deliver`, and a transfer in which no code is found is answered and
  passed over (`WebhookSkips`). `work[w]` is the open transaction of a connection:
  the webhook or the administrator, then `activatePlan` in its order. `IntentFree`,
  `KeyFree`, `SubFree` are the locks; `BreakDeadlock` the database cancelling one
  of a circle. Months are one of `Lengths` (28 or 31 days).
- `Book`: the functions of `CORE` that change a book are actions on one value; the
  selectors are operators that the properties compare with each other. `FitsTheWire`
  holds what they make against the shapes of `Records`, since an operation that push
  does not take blocks the queue; the history variable `rough` names the receipts of
  imported rows that were beyond those shapes, which the import takes. Money is
  counted in halves of a dong (`DONG`), so that a sum that is no whole dong exists. A cell of a spreadsheet is what the readers make
  of it: its folded text, the number in it, the days it may be read as. Quantities are
  integers in the smallest unit, roundings those of the code.
  `ReadBack` is what `normalize*` make of a stored book of an older version.
- `Views`: two organisations write, pay, delete and cut the link while a third
  reads their receipts page by page; reports by branch, for a person of one branch,
  and by person, those removed since included, each for any of the `Periods`: a
  receipt is in a period by its own date, a payment of a person by its own.

## 3. Runs

Time in `SyncPull` is counted in units of 5 s. The last column is the number of
distinct states.

| run | question | bounds | states |
|---|---|---|---|
| `pull_base` | is anything missed but rows that took the overlap to commit, does a page cover what it passed, does a copy go back, when can a payment lack its receipt | 2 receipts (one written twice) and a payment in 2 tables, 2 writers, pages of one record, 4 ticks, `TxLife` 3 > `Overlap` 2 | 5.7 M |
| `pull_live` | does moving the person mix scopes; does the device end with the server's book | 3 scopes, one writer, pages of one record, 3 ticks, `TxLife` and `Overlap` 2, fairness | 0.60 M |
| `pull_slowtx` (violation) | are the numbers in the code enough: 20 s timeout, 15 s overlap | `TxLife` 4, `Overlap` 3 | - |
| `pull_orphan` (violation) | is a payment never without its receipt, when no transaction takes the overlap | as `pull_base`, one receipt written three times, `TxLife` 3 < `Overlap` 4, 5 ticks, no two timestamps equal (`SpecWithoutTies`) | - |
| `push_book` | exactly once, nothing lost, refused means not applied, one audit entry, deletion wins; refinement of `Ledger` | 2 devices with 2 operations each on a receipt, its correction and its payment, 2 requests at a time, one fault | 0.62 M |
| `push_live` | order of seq while the person is moved and the plan runs out; fulfilment once, event once and not before; does the queue drain or show what blocks it | 1 device, 2 operations out of a receipt, its correction, its payment, deletions and two receipts for one order that others move, 2 overlapping requests, 2 changes, one fault, nothing dropped, fairness | 0.38 M |
| `push_stuck` (violation) | the same when people drop refused operations | 1 device, 2 operations, one change of branch | - |
| `billing_pay` | does each transfer count once, each intent pay once, is a month or the worth of paid days lost, is an answered transfer recorded | one organisation on Vua with 2 weighers, 2 intents, 2 transfers with the code, a wrong one or none, the administrator going down to Thuong lai with the same transfers, 2 connections, one fault, months of 28 or 31 days | 1.3 M |
| `billing_referral` | is an invitation rewarded once and with the first payment, is every transfer answered | 2 organisations that may invite each other, 3 pending intents (one from before the plans), 2 transfers, 2 days, 2 connections, one fault, fairness | 32 k |
| `billing_downgrade` (violation) | can a plan that is paid for be taken down | one organisation, 2 intents, 2 transfers | - |
| `trade_delete` | either side of a linked pair deletes its account while the other trades: is an order open without a side, is anything left, is a record lost, does the deletion end | 2 organisations that both may delete, one order id, one link, one request open beside the deletions, one fault, fairness | 0.31 M |
| `parts` | nine parts, each on its own (below) | below | 1.3 M |

`parts` is a sum, not a composition: the parts share no state, the variable `part`
chooses one at the start and the others rest, so that the states add up and do
not multiply. What is composed for its interaction is composed in `Trade`,
`SyncPush` and `Device`. Requests, desks, calls, branches, users and addresses
that are interchangeable are exchanged by `MCSymmetry`, a group of eight elements
that moves those of different parts together, because a part that rests looks
the same under all of them.

| part | properties | instance |
|---|---|---|
| `links` | `LinkAgreed` = `CodeOnlyWhilePending` and `ActiveIsAgreed` | a trader, its seller, a third who may claim the code; one link, 2 codes, 2 requests |
| `deal` | `OrderTold` = `HistoryIsChain` and `LastNoticeIsCurrent` | a linked pair, one order, versions up to 4, 2 requests, events in any order |
| `organization` | `OrganizationSound` = `StaffWithinLimit`, `BranchesWithinLimit`, `ArchivedIsEmpty`, `NoStrayLogin`, `OneFirmEach`, `SomebodyBehind`; `DeletedOnlyAlone` | 3 people, 2 firms (trader, enterprise or none yet), 2 branches, limits of one, 2 desks, one failure |
| `mail` | `MailsSound` = `OneOwner`, `MailsAreRare`, `ToldLinkWorks`, `ResetOnlyToProvedUnlessMoved` | 2 users, 2 addresses, 3 requests two at a time, times 0 and 1, `Cooldown` 0, `MailLife` 1 |
| `book` | `BookSound` = `PaidAsRecorded`, `ReadBackUnchanged`, `FilesReadWhole`, `RulesFitTheWire`, `FitsTheWire`, `ImportedWhole`; `FiguresAgree` = `DebtsAddUp`, `TaxAddsUp`, `StockWorthWhatWasPaid`, `ScreensAgree` and five comparisons of the newer selectors; `LinkedKeptApart` | 4 ids, 3 forms of latex and coffee with two pricing rules, the sheets of `MCSheets`, an empty book and one of version 1 |
| `views` | `SidesAgree` = `ReadOnce`, `SameMoneyBothSides`, `BranchesAddUp`, `OwnBranchOnly`, `MembersAddUp`, `PeriodsAddUp` | 2 owners, 3 receipts on 2 `Days`, two of one date, payments of either day, every period of them, pages of one; 2 people (`Hands`), one of them `Dismissed` |
| `places` | `PlacesSound` = `PlacesWithinLimit` and `LogTellsLives` | 2 clerks, 3 places, limit one |
| `files` | `SweptClean` | 3 files, pages of one, 2 sweeps |
| `device` | `DeviceSound` = `LocalWritesShown` and `AgreesAtRest` | 2 records, 2 operations of the device, 2 commits of others, any retry, refusal or loss |

Conjunctions name one idea for one part and each conjunct has a comment of its
own; `OrdersSound` = `HistoryIsChain` and `NoOpenOrderWithoutSide`, `RecordsKept` =
`BookKept` and `FinalIsFinal`, `NothingCountsTwice` = `TransferCountsOnce` and
`IntentPaysOnce`, `FirstPaymentRewardedOnce` = `RewardedOnce` and
`FirstPaymentRewarded`.

Why the bounds are enough. What goes wrong in pull needs a row committed behind a
mark (one writer that waits, one that moves the marks), a page and a table
boundary, and a record that moves; the clock reaches past a round, its overlap
and the next round. In push it needs two requests in flight, a repeated
operation, a dependent one behind a refused one, and a fault that leaves an old
request running. In billing, links, orders, members, places and mails every race
is between two open requests about one record; what a third would add is another
repetition. A deletion races with one open request and with the other deletion.
On the device a record must be passed over once, with an operation that writes
and one that does not (checked up to 3 operations and 3 commits of others as
well, 5.3 million states). The limits on people, branches and places are one, so
that two requests reach them; those of the wire (`RECEIPT_LIMITS`,
`MAX_SAFE_INTEGER`, `QUALITY_STEPS`) lie just above what the forms hold, since the app
keeps its inputs to them (`sync-records.ts:38`); one sheet has a row beyond them.
Two days give every case of a period: before, in and after it.
A mail may outlive the cooldown in `parts`, which the code's timeouts exclude:
what that does to a second verification and to a link told of is the hard case;
later times and mails within the cooldown are covered by the theorems of
`RecoveryMailProofs`. The last conjunct of `MailsAreRare`, about mails that end within
the cooldown, speaks of that second case only: it is the theorem that shows it.

Every property has a mutant: an operator in the module, named in its comment as a
slip, that is what a plausible bug would make of a definition (a count without
the lock, a key that is not checked, a rollback that forgets half), with which
TLC finds the property violated.

Deadlock is not checked: the bounds (`MaxClock`, `MaxVersion`, `MaxOps`,
`MaxChanges`, `MaxFaults`, `MaxCodes`, `MaxRequests`, `MaxTrouble`, `MaxTime`,
`MaxIds`, `MaxLog`, `MaxSweeps`, `MaxCommits`, `MaxMade`, the intents, transfers,
ids and `Moments`) let a model stop once they are used up. No run with a liveness
property declares symmetry.

### Fairness

- `SyncPull!FairSpec`: the app pulls again and again and the server serves (weak
  fairness of `ServePage`); not every answer is lost (strong fairness of `Deliver`
  and `DeliverReset`); a transaction ends, by its timeout at the latest.
- `SyncPush!FairSpec`: a device with something to send sends, the server serves
  each request, the person drops what is shown as refused where dropping is part
  of the run. `QueueDrains` is claimed when the plan is paid for in the end.
- `Billing!FairSpec`: the bank repeats a transfer until it is answered; an open
  transaction that can go on does; one that waits for a row is given it in its
  turn (strong fairness), since PostgreSQL queues those who wait; the database
  finds a deadlock. Owners, the administrator and the calendar owe nothing.
- `Trade!FairSpec`: a deletion that is under way goes on; the wait of its last step
  for orders that others change is not for ever (strong fairness of `Purge`, which
  waits for row locks that PostgreSQL queues); a person who is told of a failure
  calls again, as the app asks them to (`account-deletion.service.ts:319`). The
  other side owes nothing.

Faults are bounded in every run, so that liveness says what happens once they
are over.

## 4. Findings

1. `pull_slowtx`: the overlap of pull (15 s) is shorter than the life of a push
   transaction (20 s), although `sync-cursor.ts:18-22` says it is longer than any
   (5 s assumed). A row committed by a slow transaction may be below every later
   cursor. `MissedOnlySlow` and `Converges` say what holds with the code's numbers:
   nothing is missed but rows that took the overlap or longer to commit.
2. `pull_orphan`: a page can hold a payment without its receipt, although the
   payment was sent after the receipt was committed and every transaction is shorter
   than the overlap. Two corrections of the receipt commit in the other order than
   they began: A before `until`, waiting for the lock, B after it. While only B is
   committed the round passes over the receipt (`updated_at` above `until`); A then
   sets `updated_at` back to its own start, below `until`, where `addLateParents`
   does not look. `OrphanOnlyFromOverlap` says exactly when; the next round brings
   the receipt, unless A took the overlap.
3. `push_stuck`: after a refused receipt is dropped, its payment is answered
   PARENT_MISSING, which counts as retryable: it is never marked and blocks the
   queue for ever.
4. `billing_downgrade`: `quote` refuses Thuong lai while a Vua plan is paid for
   (`billing.service.ts:86`), but only when the intent is made. An older intent
   takes the paid plan down; the paid days are converted (`PaidDaysKept`), not
   lost.

Seen while modelling, without a run of their own. Where a property would be
false because of it, the property names the case and excludes just that.

- **A record passed over stays wrong** (`sync.js:371`; `AgreesAtRest` excludes
  `astray`). Another device deletes r, and B changes r while the page with that
  deletion is on its way to B (or B's change was sent, answered RATE_LIMITED, and
  the pull that follows brings the deletion): the deletion is passed over and the
  cursor moves on. The next sync sends the change: it is accepted with the warning
  RECORD_DELETED and writes nothing (`sync-push.service.ts:220`), so r has no newer
  `updated_at`, and once the overlap of 15 s has passed no pull brings the deletion
  again. B shows r until its book is cleared, against `sync.js:2-3` ("khớp từng
  đồng"). The same after a dropped operation (of which the page warns).
- The page lets a person clear the book, or choose another organisation, while a
  sync waits for a page; the answer then sets the cursor of the new state
  (`sync.js:437`). Clearing is in `Device`; a change of organisation is not.
- Weighers asked for under Vua and transferred once the plan is Thuong lai are
  added to it, though `plan-activation.ts:125` says that plan has none.
- A request that was given up applies with the membership it read: after a change
  of branch an operation may be refused by one request and applied by an older
  one. `RefusedIsNotApplied` is claimed for memberships that stay as they are.
- A transfer in whose description no code is found is answered to the bank as
  skipped and leaves no row (`bank-webhook.service.ts:98-102`, which
  `billing.db.test.ts` asserts). `AnsweredIsRecorded` is about transfers with a code; one
  without has a row only when the administrator opens a plan with it.
- **A mail to the old address confirms the new one**
  (`recovery-mail.service.ts:85-101`): the address is read, a profile update
  changes it, and the conditional update stores the token for whatever the
  address is by then (`ResetOnlyToProvedUnlessMoved`).
- **Two mails may arrive within the cooldown**, against `recovery-mail.service.ts:6-7`
  ("một thư / 60 giây"). A mail whose answer is late is reported as failed, and the
  time of the profile is taken back (`:110`) although the mail is in the mailbox; the
  next request sends another at once. `MailsAreRare` exempts a mail whose time was
  taken back, and no other.
- A mail that fails takes back the time of the profile, not its own
  (`recovery-mail.service.ts:106-113`). Should it outlive the cooldown, it would take
  back the time of a reset sent since, and the next mail would be let through at
  once. 10 s and 7 s against 60 s exclude it (`MailsKeepTheirDistance`); the hypothesis
  is in no comment of the code.
- The login of a member may be deleted: when the COMMIT of the new membership
  succeeded and only its answer was lost, `members.service.ts:185-191` deletes the
  login, and the person is in the firm without a way in. `SomebodyBehind` exempts
  the login `taken`, and no other.
- The text "320 kg" or "3 tạ" in a column of numbers is read as 320 or 3
  (`CORE/sheetImport.ts`), although the comment at `:171` says that a cell with words
  is refused.
- An import applies no limit of a receipt and takes a fraction of a dong as paid
  (`CORE/sheetImport.ts:176-188`, `CORE/importActions.ts:61-72`); push refuses both, and
  the receipt blocks the queue until it is dropped. `FitsTheWire` exempts the receipts of
  such rows (`rough`), which a sheet of the instance has. A weight times a price
  within the limits may still exceed `MAX_SAFE_INTEGER` in the code; the instance has
  no such line.
- Payments by person count those on receipts deleted since, which the summary does
  not, and in a period they are those dated in it, while the summary counts all
  that was paid on the receipts dated in it (`reports.service.ts:91`, `:152`, `:158`):
  the two columns differ by what was paid in another period than that of its
  receipt. `MembersAddUp` states both differences to the dong.
- The audit entry of a place hides its prices once the plan has lapsed.
- A link that is claimed between the deletion's reading of the links and its
  writes is cut without a notice (`account-deletion.service.ts:138`). Two
  deletions at once may leave a finished order that has no side.
- The deletion logs the status it read as `from` of the order's last step, which
  another step may have passed (`HistoryIsChain` allows it for that step only).
- Adding back a person who was removed is an UPDATE and does not wait for the row
  lock of the deletion; the comment at `account-deletion.service.ts:262-264` speaks
  of inserts only. A bootstrap that overlaps the deletion of the same account
  (`:298`) leaves a firm without an owner. Both carry the ghost `overlapped`.
- A person may be put in a branch while it is being archived
  (`members.service.ts:94`, `:163`): the assignment takes no lock of the branches
  (ghost `raced`).
- A login whose creation timed out may exist all the same and is then neither
  undone nor logged; files uploaded after `removeFolder` over addresses signed
  before stay in the store for good.
- **A receipt may be paid beyond its total.** `addTransaction` makes a payment of the
  amount typed, or read from a file, with no look at the total, although
  `CORE/receiptActions.ts:4-6` says that a receipt is never paid beyond it and that
  this is kept there and not in the screens. Only `recordPayment` caps: one form of the
  instance pays 15000 on 12000, and `PaidAsRecorded` says that no payment after the
  first overpays.
- `completeDraft` resolves a name without `keepApart` (`CORE/draftActions.ts:70`), so
  `LinkedKeptApart` excludes drafts.

## 5. Proofs

Thirty-three theorems in eight modules, for every value of the constants that satisfies
the assumptions named; what each says is checked by TLC on the instance of a run as
well, except `MailsKeepTheirDistance`.

| module | theorem (property) | assumes |
|---|---|---|
| `SyncPullProofs` | `TypeCorrect`, `NeverBack` (`CopyNeverGoesBack`), `ScopeKept` (`OnlyOwnScope`), `OnlySlowIsMissed` (`MissedOnlySlow`), `PagesAlwaysCover`, `OrphansOnlyFromOverlap` | `RecordsAssumption`, `TimeAssumption` |
| `SyncPushProofs` | `TypeCorrect`, `NothingIsLost` (`NoLoss`), `OrderIsKept` (`NothingOvertaken`), `DeletionWins` (`DeleteWins`) | `BookAssumption`, `BoundAssumption` |
| `LedgerProofs` | `AuditedOnce` (`DeletedAuditedOnce`), `OrdersAreFulfilled` (`FulfilledByReceipt`) | the same |
| | `RefusalIsFinal` (`RefusedIsNotApplied`), `PushKeepsPromise` (`IsLedger`) | also `MemberStays` |
| `TradeProofs` | `TypeCorrect`, `LinksAreAgreed`, `OrdersAreSound`, `NothingIsLeft`, `RecordsAreKept` | `ChainAssumption`, `LinksAssumption`, `OrdersAssumption`, `TradeAssumption` |
| | `OrdersAreTold` (`OrderTold`) | also that no order is there at the start |
| `BillingProofs` | `BillingTyped`, `NothingIsCountedTwice`, `NoCodeIsForgotten` (`AnsweredIsRecorded`), `NoMonthIsLost`, `PaidDaysAreKept`, `RewardsAreEarnedOnce` (`FirstPaymentRewardedOnce`) | `BillingAssumption`, `AbsenceAssumption`, `CalendarAssumption`, `PlanAssumption` |
| `OrganizationProofs` | `OrganizationHolds` (`OrganizationSound`), `DeletedAlone` (`DeletedOnlyAlone`) | `OrganizationAssumption` |
| | `PlacesAreSound`; `FoldersAreSwept` (`SweptClean`) | `PlacesAssumption`; `FilesAssumption` |
| `DeviceProofs` | `DeviceIsSound` | `DeviceAssumption` |
| `RecoveryMailProofs` | `MailsAreSound` | `RecoveryMailAssumption` |
| | `MailsKeepTheirDistance` | also `MailLife <= Cooldown` |

**`SyncPullProofs`.** Nothing is assumed of the timeout and the overlap: 20 s and 15 s
are covered like any other numbers. The inductive invariant is
`TypeOK`, `Bookkeeping` (transactions within their timeout, no mark from the
future, versions ordered device - page - database, pages in scope, receipts
before payments) and `Cover` (`MissedOnlySlow` with `PagesCover`). `MissedOnlySlow`
alone is not inductive: that the cursor may move up at the end of a round rests
on the page having covered every table, and that a later commit does not land
behind the page position rests on its transaction having taken less than the
overlap, or else the row is `slow`.

**`SyncPushProofs`.** The inductive invariant adds to `TypeOK`, `NoLoss` and
`NothingOvertaken`: `RequestsFine` (the batch of every request in service has no
gap below any of its operations, carries operations that were made and reports
recorded ones) and `QueueIsMade`. They are needed because what a request may
apply was decided when the device sent it, and the device may since have given
it up, dropped operations and sent others. `DeletionWins` rests on
`LookIsCurrent`: what was read under the lock is unchanged until the commit.

**`LedgerProofs`** is about the one step that writes (`Writes`): every other step
leaves `sync_ops`, the book and the audit log alone. By `LookIsCurrent` a step that
writes is one of four: a new row, a change or a deletion of a live row, or a change
of a deleted one, which leaves it alone. From these:

- `DeletionsHeld`: the deletions of a record in the audit log are one or none, as
  it is deleted or not.
- `EventsHeld`: an order has a receipt once it is fulfilled, and its event is with
  one request, has gone out, or is lost.
- `OwnRequests` and `RefusalsHeld`: while memberships stay as they are (`MemberStays`;
  section 4 shows what happens otherwise), a request applies with the membership the
  person has, and what was refused for good is `Hopeless`: its refusal will be the
  same at any later time, or its record is deleted.
- The refinement: `enqueue` is `Make`, `dropStuck` is `GiveUp`, the step that writes is
  `Enter`, and every other step is a stutter.

These proofs showed arms of the CASEs in `Refusal` and in the audit entry that
overlapped, where the meaning of CASE leaves the choice open; their conditions now
exclude each other, as the order of the code's returns does.

**`TradeProofs`** is for any number of organisations, links, orders, requests and
deletions at once. The inductive invariant has one part for each table. Two facts
carry it:

- `RequestFine`: a request that has read an order knows its status as long as the
  version is the one it read. The update that is conditional on the version
  therefore takes an arrow of the graph from the status the order really has, and
  what is over stays over.
- `ReadFine`: a deletion that holds the row of its organisation has read every
  order of it. A new order waits for the row (`KeysHold` and `locked`), and those
  that were read as closed have stayed closed; so the last step leaves no order
  open and no order or link that names the organisation, although it writes from
  what it read two steps before.

`ClosedByGone` (the last step of an open order starts where the one before ended)
is what allows the one exception in `HistoryIsChain`. Each action has a lemma, by
the parts of the invariant it touches; the others stay by the frame lemmas.
TLC checked the invariant as an invariant of `trade_delete` before it was proved.

`OrdersAreTold` takes a second invariant, `Hearing`, on top of it: while both sides of
an order are there, its last step is of one of them (`LastBy`), and either the event of
that step still waits, or an event of the order is in `lost`, or the other side's newest
notice has the status in the row. A late listener of an earlier step of the same side
writes the current status too; one of the other side writes to the other receiver; a
listener of a link writes about a link (`OrderIds` and `LinkIds` are disjoint); and a
deletion tells only about orders it leaves with one side. The hypothesis that a run
starts from an empty table is needed: an order already there would have no notice, and
the events that announced it would be before the run. TLC checked `Hearing` on
`trade_delete` with versions up to 3 (a million states) before it was proved.

**`BillingProofs`** is built in layers, each of which uses those before it:

- `RowsHeld`: two open transactions never hold the same intent, transfer or
  subscription (`Apart`), and what one has read of them is what it still finds.
- `TrailsHeld`: the rows that a transaction is going to write to the audit log are
  those of its step, and of the organisations whose subscription it holds.
- `SentFirst`: what has a row or an answer was sent, and the webhook works on a transfer
  under the code it was sent with; hence `NoCodeIsForgotten`.
- `CountsRight`: a transfer that was applied has exactly one payment in the log, an
  intent that is paid exactly one transfer; hence `NothingCountsTwice`.
- `MonthsHeld`: from the start to what is committed, and from there to what each
  transaction is going to write, the period holds every month of the rows.
- `WorthHeld`: the same for the worth of the days; `ConvertDays` rounds up, and a month
  is 28 days at least, for every calendar in `Lengths`.
- `RewardsRight`: an organisation that becomes rewarded has one bonus in the log, next
  to that of its inviter if there is one, and no earlier payment.

**`OrganizationProofs`.** `OrganizationSound` speaks of firms, rows, branches and
logins; what keeps it true is in the requests between two of their transactions, so
the inductive invariant `OrganizationInv` is mostly about them:

- `StillSo`: what a request has counted or read is still so when it acts on it: there
  is room for the person or the branch, nobody is in the branch but those who raced it
  there, the founder has no firm, the new login has no profile and no deletion runs.
- `DesksApart`: of two requests no two hold the same key, found the same firm, or are
  responsible for the same login. It is why the step of one keeps what another rests on.
- `LeavingSound`: a deletion knows every firm of the person, except one that was founded
  meanwhile; once it has the rows, the others in those firms are people added back
  while it ran (a new row would need the key). `DeletedOnlyAlone` follows.
- `FirmsSound`: the row of a founder, and no other, is the owner's.

`OrganizationAssumption` says how the system starts: nobody has two firms, and nobody
is in what is not a firm. Without the first `OneFirmEach` is false from the
beginning. Neither the number of requests nor `MaxTrouble` is bounded.

Places: whoever has counted holds the lock, so that the count is still an upper bound
of the live ones when the place is written. Files: only an empty folder has an empty
first page (`FirstPageEmpty`, by the order of the files), so that a sweep that always
lists from the start ends with nothing left of what was there.

**`DeviceProofs`** compares the copy of a record with the server's row by the writes in
each (`CopyRight`, for every record that is not `astray`). A copy that holds all writes
of the row differs from it by operations that are waiting and by nothing else; a
copy that lacks one has it still ahead of the cursor. `QueueRight` and `FlightRight` say
which operations may wait behind which, `PageRight` what a page on its way may hold.

**`RecoveryMailProofs`.** The invariant has a part for each thing that a request holds
on to while its mail is under way: its token (`TokensHeld`), the time it wrote
(`PassesHeld`, `TimesHeld`), the address it read (`AddressesHeld`). The attempt to prove
an earlier `MailsAreRare`, which TLC had found true within its bounds, failed for a
good reason: with one more tick a mail that outlives the cooldown takes back the
time of a reset (section 4). `MailLife` was added to the model and the property
restated; `MailsKeepTheirDistance` says that with the code's timeouts two mails let
through for an account, arrived or not, are further apart than the cooldown, or the
earlier is a link to confirm whose sending was reported as failed.

Only model-checked:

- Liveness (`Converges`, `QueueDrains`, `EveryTransferAnswered`, `DeletionEnds`), which
  needs ENABLED.
- `BookSound`, `FiguresAgree`, `LinkedKeptApart` and `SidesAgree`: the sums and
  sequences of `Book`, `Reports` and `Views` are folds, whose values for every input need
  an induction over data that is out of the prover's reach.

No module uses a RECURSIVE operator.

## 6. Not modelled

- Notes and products; pricing rules and season contracts as they are edited (their
  shapes on the wire are in `Records`); payments
  by transfer as a method; the custom period of filters; the bytes of an xlsx file;
  `normalizeProducts` for books before the first version; `previewRule`,
  `gapAmount` of latex: single assignments or pure display.
- Product, quantity and branch of an order; renaming a branch; name and phone of a
  member; reading and marking notices; the listing of the audit log, of members
  and places, distances on the map: no step reads them but to copy or show them.
- `downloadUrl`, feedback, analytics events, metrics, health, configuration: one
  insert, one address, or no state the system reads back.
- Row level security and the verification of tokens are taken as given; Supabase,
  the store and the mail service are external, modelled by how they are used.
- What a record contains in `SyncPush` is one flag chosen when the operation is
  made: a soundness that depends on the stored row (the period of a season
  contract) is not modelled. The byte limit of a batch has the effect of the count
  limit. Ids that belong to another organisation are left out.
- In `Billing`: the creation of a subscription (bootstrap has made one),
  `branchLimit`, notices to people, the key of the webhook, the gate on features.
- Operations and scripts: backup, smoke tests against a running server, a login
  page.

## 7. What could come next

1. `ReadOnce` of `Views`, which speaks of positions in a sequence and of no sum.
2. Type correctness of the composed `Links` and `Orders` on their own, from the lemmas
   that `TradeProofs` has for every step of theirs.
