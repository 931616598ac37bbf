# Verification of ynab-auto-sync

TLA+ models of the service that copies bank transactions into YNAB: what a sync
cycle does to YNAB and to its own table through failures, retries and crashes; when
cycles run and how far back they look; how transfers are paired; how deleted
transactions are brought back; what importing a bank's export does; how payees are
remembered; how login tokens are kept. TLC checks the models on small instances,
TLAPS proves the theorems for all instances.

    cd tla
    tlc -config engine_cycles.cfg MCSyncEngine     # any run listed below
    tlapm SyncEngine_proofs.tla                    # any *_proofs.tla

`PROJECT.json` maps every definition that models code to its lines, lists the
runs, a mutated definition that breaks each property, the hazards and which
property watches them, and the theorems.

## 1. Inventory

All paths are below `src/src/ynab_auto_sync/`.

| Component | State | Operations | Correct when |
|---|---|---|---|
| Sync engine, `sync/engine.py` | the classified cycle (kept across retries), per-cycle candidate pools, payee cache | `fetch_and_classify`, `submit`, `readd_deleted_transaction`, `import_file_rows`, `reconcile_payee_mappings` | each bank transaction is in YNAB once, corrected in place when it books; what is tracked exists; a retry completes what an earlier attempt began |
| State database, `sync/state_db.py` | `tracked_transactions`, `account_cursors`, `run_metadata`, mappings, payees, audit | one committed statement at a time under a lock | rows survive crashes; cursors never pass what is unsynced; pruning spares what a window may still show |
| Scheduler, `scheduler.py`, `cron.py` | retry attempt, deadline and cached cycle; the sync-now and stop events | run loop, wait, attempt, backoff, missed fire at start-up, pause, sync now, stop | every fire is attended; retries fit before the next fire; nothing falls between windows |
| Transfer matching, `sync/transfers.py` | none | `find_transfer_pairs` | exactly the unambiguous pairs, in no particular order |
| Pending and manual matching, `sync/pending_match.py` | none | `find_pending_match`, `find_manual_match_tolerant` | one plausible candidate or none |
| YNAB client, `ynab/client.py`, `http_retry.py` | none | create, PATCH, delete, listings | the engine's assumptions on YNAB (below) |
| Providers, `providers/` | OAuth tokens (`auth.py`, `state.py`) | `fetch`, token refresh, normalisation, tracking keys | a refresh token is never lost; keys stay stable or are correlated |
| File import, `sync/file_import/`, `webapp/routes/file_import.py` | none of its own | parse, preview, commit | nothing of a file is lost or imported twice, however often it is sent |
| Account mappings, `webapp/routes/mappings.py` | `account_mappings` | create, update, delete, delete all, seed at start-up | edits never lose or double what the account's rows stand for |
| Payee mappings, in `engine.py` and `state_db.py` | `payee_mappings` | learn, heal after a create, daily sweep | a name keeps its payee while that exists; nothing ends up without one |
| Web API, `webapp/` | none of its own | status, audit, settings, pause, sync now, re-add | commands reach the engine and scheduler |
| Notifications and alerts, `notifications/`, `mqtt/`, `alerts/` | last alert sent | publish; receive commands | best effort |
| Configuration, start-up, logging | the configuration file | validate, wire, log | |
| Frontend, scripts | none | | |

Everything runs in one asyncio process: the scheduler's loop awaits the engine,
the engine awaits YNAB, the bank and the database's lock, and at every await a
web request, an MQTT command or the user's own edits in YNAB may come between.
The scheduler calls `fetch_and_classify` and hands its result to `submit`, again
if a submit fails; the engine reads and writes the table row by row; YNAB and the
user change the register behind its back.

What is hard here: a create whose response is lost; a submit that fails halfway
and is repeated with the same, by then stale, cycle; YNAB's native matching,
which hides what was just created behind an entry the user typed; a card
transaction whose key changes when it books; create-then-delete; a database lost
while YNAB keeps everything; backoff racing cron fires, pauses and stops; rows
pruned while an old hold keeps the window open; a file sent twice at once; a payee
that vanishes between the listing and the create; one refresh token in two hands.

## 2. Plan

| Module | What | Status |
|---|---|---|
| `Booking` | the promise for each transaction: held, settled, dismissed | done |
| `SyncEngine` | a cycle and its retries against YNAB and the table; implements `Booking` | done |
| `SyncEngine_proofs` | types; tracked rows are real | done |
| `Ledger`, `Ledger_proofs` | the inductive invariants behind the engine's promises, and the promises | done |
| `Scheduler`, `Scheduler_proofs` | loop, backoff, fires, pause, windows and cursors | done |
| `FetchWindow`, `FetchWindow_proofs` | widened windows, pruning, mappings that come and go | done |
| `TransferPairs`, `TransferPairs_proofs` | the pairing loop against its definition | done |
| `Readd`, `Readd_proofs` | concurrent re-adds of deleted rows | done |
| `Payees` | YNAB's payees and `payee_mappings`: learning, healing, the sweep | done |
| `FileImport` (extends `Payees`), `FileImport_proofs` | content keys, partial and repeated commits, with payees | done |
| `TokenStore`, `TokenStore_proofs` | refresh-token rotation by several callers and processes | done |
| further `SyncEngine` proofs | `SuccessClears`; the refinement of `Booking` with cards | open |
| `PendingMatch` | the scoring of candidates | open |

The order follows what can go wrong with a user's money first: the engine, then
the schedule and the windows that decide what it sees, then the side doors, then
what all of them need to reach the bank. `SyncEngine` takes the outcome of
`TransferPairs` as its constant `Pairs`; `Scheduler` and `FetchWindow` book in one
step per transaction what `SyncEngine` takes a submit for. `Scheduler` looks at one
account's cursor instant by instant and leaves rows out, `FetchWindow` looks at
days and keeps rows, holds and pruning. `FileImport` composes the import with
`Payees`, whose table every create reads and writes. The refinement worth stating
is `SyncEngine` to `Booking`: it is checked with a card, and proved for any
instance in which no key changes.

## 3. Models

### SyncEngine

State: `bank` (what the provider reports of each transaction), `ynab`, `match`,
`cleared` (YNAB's transactions, matched ids and flags), `tracked` (the table),
and the cycle: `phase`, `sub` and `cur` (where `submit` stands and the item whose
rest is being handled), `cls` (ClassifiedCycle, kept across retries), `todo`,
`pool`, `fixes`, `reply`. `bug` records that `submit` raised by itself.

| Actions | Code |
|---|---|
| `Fetch`, `ListAgain`, `Classify*`, `MatchTransfers` | `fetch_and_classify`, `_get_manual_candidates`, `_classify`, `_match_transfers` |
| `PostCreates`, `RecordCreated`, `RecordLeg`, `LegMissing`, `FixLeg`, `Unclear`, `BackfillDuplicate` | `submit` on creates, `_record_created`, `_backfill_duplicates`, the leg and un-clear PATCHes |
| `StartUpdates`, `PatchUpdate`, `BookUpdate`, `Recover*`, `PostReplacement` | `submit` on corrections, `mark_booked`, `rekey_pending_to_booked`, `_recover_missing_pending_update` |
| `PostMatches`, `RecordMatched`, `MatchedAgain`, `DeleteOriginal` | `submit` on manual matches, `_record_matched`, `_delete_original` |
| `SubmitFails`, `Retry`, `Drop`, `FetchFails`, `Crash` | exceptions, the scheduler's reaction, the process's end |
| `Appear`, `Settle`, `UserTypes`, `UserDeletes` | the bank and the user, external |

Each remote call and each committed row is an action; anything may happen between
two of them. A key is what `get_tracking_key` yields: a card's changes with its
status, all others stay. An id is named after what made it: `Import(key)` for
the transaction created with the import_id of a key, `Manual` for what the user
typed, `Leg` for the leg YNAB creates with a transfer, `Reeval` for a recovery's
replacement.

YNAB is external and modelled from how the code uses it: an import_id is taken
once and for ever; native matching may hide a new transaction behind a visible
typed one and clears that one; a transfer's other leg appears with the first,
without import_id and uncleared; deleting one leg deletes both; native matching
never touches transfers. A plain listing leaves shadows out, a listing with
deletions does not bring them back (`CHANGELOG.md:538`; the comment at
`engine.py:1891-1894` hopes otherwise, so the branch in which a retry finds a shadow
and ends natively is in `MatchedAgain` but never taken). A budget may have no transfer
payee for the other account, and then both legs are created one by one
(`MatchTransfers` links any part of `Linkable`); and a response may name no second
leg (`no_leg`, `LegMissing`), which the model takes for YNAB having made none: where
it has made one all the same, the next cycle imports the inflow beside it (section 6).

The user's entries are listed at the first transaction that needs them and again when
a later one has an earlier date; the model lists at `Fetch` and may list again at any
time during classification (`ListAgain`), which brings claimed entries back.

An instance may have more transactions than the bank ever shows: `Casts` names the
sets of transactions that appear together, so that one run covers a transfer, two
look-alikes, two strangers and a card without their product; under the casts of
`Rough` a call may fail at any point, under the others only before it has an
effect or at its response (below, "Runs").

Abstractions: one budget; every transaction stays inside the fetch window; payees
(and the PATCH that restores a stale one), amounts and audit events are left out;
two transactions look alike or do not (`Alike`), which is all the scoring decides;
the listing of live transactions and the PATCH's 400 are one guard, since a
deletion is final. A natively matched entry of the user's keeps no import_id and
is offered as a candidate again. A transaction that is first seen pending is not
part of a transfer. With `lost_reply` out of `Faults` a call fails only before it
has an effect; PATCH and DELETE sub-steps may fail at any time.

### Ledger

What `SyncEngine`'s state owes to each tracking key, stated over its variables and
adding none. `Solo` are the transactions one key accounts for: no card, no leg of a
transfer, and no placeholder that another could be mistaken for, nor one mistaken
for a placeholder. Two plain look-alikes are Solo, and so is a preauthorised
transaction that resembles nothing. `Apart` are those of the cast that resemble no
other of it: what is made for them is never given to another. The parts of `LedgerInv` are explained with the
proofs (section 5).

### Scheduler

One account. `pc` is where `_run_loop` stands; `cursor`, `lastRun`, `paused` are
in the database and survive; `cached`, `attempt`, `deadline` are the retry state;
`target` is when the wait times out. Instants are numbered and instant n lies just
after the fire of number n. Commands take effect wherever the loop awaits
something. Publishing that a cycle runs, the fetch, the submit, the notifiers after a
failure, and the end of a cycle (notifiers, publishing, pruning, the payee lookups)
each take up to `CallTime`, and fires, deadlines and commands may fall into any of
them: `RecordFailure` writes `last_run`, and only `Notified`, after the notifiers,
computes the retry by the clock as it is then (`RetryFetch`, `RetrySubmit`,
`AwaitUser`). `Tail` is where the loop stands between the outcome of an attempt and
the wait. A wake-up that is due is not late, except that a paused loop whose
deadline has passed turns on the spot. `Loop` decides, `Wait` clears the request
and waits in one step, as the code does. What `submit` does to YNAB is `Book`.
The widening of the window for pending rows is left out: it only covers more.
`skipped`, `missed` and `outlived` are history variables: which fire a pause lay upon,
which one fell into the tail of a cycle, where the code overlooks it, and whether a
retry was made after the fire that should have ended it, kept so long by a pause, by an
attempt that straddled the fire or by a fire in the tail.

### FetchWindow

One account, day by day. A transaction may be held first, under a key of its own,
and then be booked or voided. `CursorSince` is `compute_since`, `Waiting` and
`InWindow` are `get_earliest_pending_first_seen` and `_compute_fetch_windows`,
`Process` is what a cycle makes of what it looks at, row by row (a failed cycle
handles any part), followed by `prune_booked_transactions`. The mapping is enabled,
disabled or absent and may change at any time; `Restart` is
`seed_mappings_from_config`, which fills a table the user has emptied. `entries`
and `pruned` are what the properties look at: the keys under which YNAB has an
entry, and whose row was pruned. A hold finds its own row when it books: mistaking
one transaction for another is `SyncEngine`'s subject.

### Payees and FileImport

`Payees`: what became of each payee of a budget, the name it goes by, and what each
name of a bank's statements has led to (`learned`, that is `payee_mappings`). YNAB
gives a submitted name the payee of exactly that name or a new one, and drops an id
that is gone without a word. The sweep is three steps, since it awaits a listing
that may be incomplete, a lookup of each id it lacks, and a delete.

`FileImport`: several requests at once, each an action per await of `import_file`
and `import_file_rows`: `Upload` classifies against the table, `Post` creates,
`RecordRow`, `LearnPayee`, `ForgetPayee`, `CorrectPayee` are `_record_created`,
`LookUp` and `Backfill` are `_backfill_duplicates`, `Answer` the 200 and `Fail` the
503. The preview changes nothing and is left out; rows are their contents, and
equal rows are one key. The cycle takes rows (`CycleTakes`: pruning, and a booked
transaction that takes a PENDING row for its placeholder). YNAB may match any of the
rows it creates to an entry of the user's (`hidden`): such a row is tracked without
touching its payee (`_track_native_match`), and a later duplicate of it is found
neither live nor deleted, so `LookUp` goes on without a row. The visible entry behind
the shadow and its cleared flag are `SyncEngine`'s subject.

### TokenStore

One token file, callers that read it, may wait for the bank and then overwrite it,
and `auth_setup.py`, a process of its own, that writes it too. A token is the
number of its grant and stands for access and refresh token alike. `AskForToken`,
`BankGrants` or `BankRejects`, `Save` or `RaiseAuthRequired` are the awaits of
`ensure_valid_access_token`; the write itself (temporary file, fsync, rename) is
atomic, and a write that fails leaves the old file. `MoveLegacy` is
`token_store_path`. That the bank takes a refresh token once is how the code treats
it; whether a login ends earlier sessions it does not say, so both are allowed.
`burnt`, `revoked` and `overtaken` are history variables.

### TransferPairs

`find_transfer_pairs` as its loop: `next` walks over the candidates, `used` is the
exclusion set, `pairs` the result. `Plausible` is the condition of `partners_of`,
with days counted in the configured unit and 0 an unknown counterparty. Which leg
is submitted is decided in `_match_transfers` and modelled in `SyncEngine`.

### Readd

Rows whose entry was deleted, and clients that re-add them: `Start` checks the
row and derives the next import_id, `Post` creates (or YNAB refuses a used id),
`Record` is `mark_readded`. The cycle's correction of the same row, which resolves
it as deleted in the first place, is one step and may be resubmitted. Entries are
numbered by the re-add that made them; `Typed` is one the user types while nothing
is under way for the row, which YNAB then matches. `overwritten` is a history
variable.

## 4. Runs

Passing runs; the number of distinct states is given.

| Run | Instance | Shows |
|---|---|---|
| `engine_cycles` (84 k) | a transfer, two look-alikes, two strangers, a card; all seven faults, losses for look-alikes and strangers only | `TypeOK`, `TrackedIsReal`, `LedgerInv`, `NoSurplus`, `NoDoubleBooking`, `DeletedMeansGone`, `KeepsTracked`, `SuccessSettlesAll` |
| `engine_held` (67 k) | a card and a preauthorised one; lost replies, crashes, matches, refused deletes | `NoLogicError`, `ImplementsBooking`, `RetryDeletesSafely`, `SuccessClosesHolds` |
| `engine_live` (18 k) | a card, two typed entries; all but matches; fairness | `EventuallySettled`, `EventuallyCleared`, `SuccessClears` |
| `sched_steady` (2.7 M) | failures, re-authentication, pauses, requests, a stop or crash; publishing, fetch, submit, notifiers and cycle end take time | `SchedulerInv`, `NothingLost`, `FiresAttended`, `FreshAtFire`, `WaitsAhead` |
| `pairs_days` (630 k) | all lists of three out of 54 candidates | `ReturnsMutual`, `OneTransferEach`, `LoopInv` |
| `readd_clients` (6 k) | two clients, one row, up to three re-adds, all faults | `ReaddInv`, `IdsInOrder`, `OneEntry`, `RowNamesEntry`, `RecordsOnce` |
| `tokens_shared` (52 k) | two callers, four tokens, logins, lost answers, crashes | `TokenInv`, `NeverStranded`, `SavedTokenWorks` |
| `windows_days` (149 k) | two card transactions, six days, failed cycles, mappings edited | `WindowInv`, `PrunedStaysOut`, `HoldsAreSettled` |
| `imports` (972 k) | two requests, two reserved rows of one payee name, two payees; native matches | `ImportInv`, `WrittenOffIsGone`, `LearnedRight`, `CommitCompletes`, `Anchored`, `PayeeRestored` |

Violation runs, each a trace of what the code does against what it says:

- `engine_wedged`: `_recover_missing_pending_update` returns two values where its
  caller unpacks three, when its row is gone. `NoLogicError` fails.
- `sched_paused_gap`: a cycle cached before a long pause is submitted after it and
  moves the cursor to now. `WindowReachesBack` fails (`NothingLost` excepts it).
- `windows_voided`: a voided hold keeps the window open until it reaches a
  transaction that was held, booked and pruned, which is then submitted again.
  `OneEntryPerTx` fails.

Bounds. Two transactions are the least with which one can be recorded and the
other not, be mistaken for one another or form a transfer; the engine handles
items one at a time and ties no more than two together (a transaction and its
placeholder, leg or look-alike). Two typed entries make every matcher ambiguous
(`engine_live`, `engine_wedged`). `engine_cycles` loses replies and the database
under the casts of `Rough`, two look-alikes and two strangers: with a transfer or
a card the same losses break `NoDoubleBooking` or `EventuallyCleared` in ways
listed in section 6, as does a card next to another transaction. So what the run
shows of `NoDoubleBooking` is that failures which lose nothing double neither a
transfer nor a card, and that nothing at all doubles a plain transaction; that
"resubmitting the whole thing is always safe, never a double-book risk"
(`engine.py:230-231`) is not true of the code. `SuccessSettlesAll` leaves cards out,
since recovery may resolve one as deleted under its old key (section 6);
`SuccessClosesHolds` in `engine_held` is about their rows. The engine's models are finite without a bound on time: retries, crashes and cycles go on for
ever. In the scheduler `MaxTime` spans two fires (four in the violation) and
`CallTime` is one unit per step, a third of the period: enough for a fire in any step
of a cycle, for a fetch, a full backoff up to `MaxDelay`, a missed fire and a fetch
after it; `MaxStops` and `MaxAttempt` bound stops and requests.
`Period + CallTime + Late <= Overlap + 1` (`OverlapSuffices`) is the configuration's
sense, which nothing validates: the default overlap exceeds the time between fires
by far. The instance meets it exactly. `MaxReadds` bounds re-adds of a row, `MaxGrants`
the tokens ever issued (four: an old one, two traded from it in turn, a login),
`MaxDay` the days (six: a hold, its booking, its pruning after `Retention` and two
more). `PayeeId` bounds the payees: two are what a name needs to lead to one, lose
it and lead to another. The pair models end when the loop ends, the scheduler's
when the clock does, the re-adds' when every row is deleted for good: these say
`CHECK_DEADLOCK FALSE`.

Fairness (`engine_live`): `WF_vars(Engine)`, since the scheduler starts a cycle at
every fire and resubmits or drops a failed one, and an asyncio task runs on;
`SF_vars(Drop)`, since a cycle that keeps failing is dropped when no retry fits
before the next fire, which matters where a retry can only fail (`engine_wedged`);
and `<>[][Engine \/ Environment]_vars`, that calls fail and processes crash only
finitely often: while YNAB is unreachable nothing can be settled. This last one is
not written with the negation of `Failures`, because the step that ends a cycle and
a crash at its end change the state alike. Nothing is assumed of the bank or the
user. No liveness is stated of the scheduler, whose clock is bounded.

## 5. Proofs

Assumed: `EngineAssumption`, `TransferAssumption`, `TokenAssumption`,
`SchedulerAssumption`, `ReaddAssumption`, `ImportAssumption` and `PayeeAssumption`, the
well-formedness of the constants, and `WindowAssumption`, which also has what the
validator of `config.py` demands (`Retention >= Backfill + Overlap`); TLC evaluates
them in each run.

- `TypeCorrect`: `Spec => []TypeOK`. `TypeOK` alone is not inductive: that
  `RecordLeg` tracks a leg needs to know that `cur` is a created primary, that
  `DeleteOriginal` has something to delete needs `cur.orig`, and that `Reeval` ids
  are never corrected needs what the pool holds. `Shape` says what each phase and
  sub-step may rely on, and `TypeInv == TypeOK /\ Shape` is inductive.
- `CarriedIdsAreReal`: `Spec => []RealInv`, and with it `TrackedRowsAreReal`:
  `Spec => []TrackedIsReal`. A row is real because the id written was, and that id
  came from a response, a pool or a cached cycle, perhaps many failures ago. So
  the invariant follows the ids: shadows are live and hide behind something that
  exists (`ShadowsLive`), a leg has its primary (`LegsLinked`), every carried id
  exists and no correction has a shadow as its target (`CarriedIsReal`).
  Three lemmas: which actions change YNAB (`RemoteChanges`), which change the
  table (`TableChanges`), and that each part survives each of them.
- `LedgerHolds`: `Spec => []LedgerInv`, without a hypothesis: for any transactions,
  cards, transfers, look-alikes and faults. That a transaction is booked once is
  far from inductive, since a retry acts on a cycle classified before the failure and
  the table may have been lost in between. Its parts, each resting on those before:
  `RealInv` (above); `Sourced`, all that is tracked, made or classified goes back to
  a report of the bank, so that only cards and preauthorised transactions have
  placeholders; `Follows`, what is under way (replies, corrections, a replacement)
  is of the cycle in hand; `Owned`, nothing of a transaction that is `Apart` is taken
  for another's, whatever look-alikes the rest of the cast has, and a delete under way
  never aims at what its own row tracks; `OneKey`, a Solo key's row names the entry made under its import_id,
  the one replacement of it, or a typed entry the former hides behind, and a
  replacement exists only once what it replaces was deleted; `Accounted`, what the
  cycle has classified is tracked, knowingly left alone, or still to come; `OneEach`,
  a cycle works on each transaction once; `Lasting`, an answer still to be recorded
  finds no row or one that says the same, and the row of a transfer's leg is never
  taken for deleted; `Undisturbed`, where the user deletes nothing, the entry tracked
  for a Solo transaction that is `Apart` stays live, and a match's original is deleted
  only while the engine's own entry stands for it.
  From it follow, for Solo transactions in any cast and under every fault (all but
  the last for those that are `Apart`): `SoloIsBookedOnce`, `SoloDeletedIsGone`,
  `SoloRowsKeepTheirEntry` and `SuccessAccountsForSolo`; and, where all transactions are Solo, the properties of
  the runs: `NeverBookedTwice`, `RegisterNeverExceedsBank`, `TrackedIsKept`,
  `SuccessLeavesNothing` and, with none of them preauthorised, `DeletedIsGone`.
  `SubmitRaisesNothing` needs only that placeholders are Solo; transfers may take
  part. The hypotheses are where TLC draws the line: with a card or a transfer a lost
  reply or crash breaks `NoDoubleBooking`, with a preauthorised one a deletion by the
  user breaks `DeletedMeansGone`, with a card `NoLogicError`
  fails (`engine_wedged`); section 6 says how. `RegisterNeverExceedsBank` maps each
  entry shown to the transaction of the key it is shown under, an injection.
- `BookingImplemented`: `Spec => ImplementsBooking`, step by step: a step of the
  engine reports one transaction, or writes one row as `Booking` allows, or stutters.
  That settled and dismissed are final is the work: a row may be written by a response,
  by a retry that finds a duplicate, by a correction classified many failures ago, or
  as the second leg of a transfer, and `Lasting` and `OneEach` say that each of these
  finds what it expects (`RowsAreFinal`). Transfers and plain look-alikes may take
  part. The hypotheses: `Pendable \subseteq Solo`, so that no key changes on booking
  and a transaction has one row; no lost database, which forgets what was settled; and,
  with a preauthorised transaction, no deletion by the user, after which a resubmitted
  correction overwrites the row of its replacement (section 6).
- `SoloRetriesDeleteSafely`, for each Solo transaction that is `Apart`, in any cast,
  and `RetriesDeleteSafely`, `Spec => RetryDeletesSafely` where all are: a retry that
  goes on to delete the original of a match has its replacement in the register. Both
  need that the user deletes nothing; with a deletion TLC finds the retry that removes
  the last entry (section 6). They rest on `Undisturbed`.
- `LoopCorrect`: `LoopInv` holds, whatever the number of candidates; from it
  `PairsAreMutual` (the loop returns the order-free definition) and `EachOnce`.
  The heart is that excluding used candidates never makes an ambiguous one unique:
  a used candidate's only partner is used as well.

- `TokensInvariant`: `Spec => []TokenInv`, and from it `NeverLocksItselfOut`,
  `SavesWork` and `AuthRequiredTheorem`, for any number of callers and tokens. What
  makes it inductive is `InTransit`: a token on its way to the disk (granted, moved
  from the old file, or of a login) is usable and nobody has read it, so no other
  caller can spend it; and `Sent`: who was not overtaken sent what is still on disk.
  `AuthRequiredTheorem`, which excepts the callers that were overtaken, is proved
  without a run of its own: what it excepts is the very hazard.
- `WindowInvariant`: `Spec => []WindowInv`; with it `PrunedIsOutOfReach` is the
  inequality between retention, backfill and overlap that the validator checks, and
  `HoldsSettleInTime` says that a widened window reaches back to the hold.

- `SchedulerInvariant`: `Spec => []SchedulerInv`, for any period, backoff, durations,
  faults and length of time, and from it all the scheduler's properties.
  A cycle may take any time at every step, so what the retry state means depends on
  when it was computed: at the tail each fire since the outcome has either had its
  attempt or been taken note of (`Seen` in `Retrying`), the deadline set there lies
  before the fire after the instant it was set at (`began` at `pc = "end"`, `InTime`),
  and a wait entered late ends at once. `FiresTheorem` needs that the loop sleeps to
  the next fire at most (`SleepsUntilFire`); `FreshTheorem` is `InTime` at the loop's
  head; `WaitsTheorem` that a deadline was ahead when the cycle's end began
  (`Retrying`). The exceptions for a cycle's tail are the code's own (section 6): what
  is proved is that there are no others. `NothingLostTheorem`
  assumes `OverlapSuffices`. Its heart is `NothingBetween`: a cycle at hand, fetched
  or cached, holds every missing transaction or one that came up since the fetch,
  and is submitted within one period and one call of it; so what the moving cursor
  leaves behind is inside the overlap. The three lemmas on fires are what
  integer division gives.
- `ReaddInvariant`: `Spec => []ReaddInv`, for any number of rows, clients and re-adds.
  YNAB is asked to create something new only with the number after the row's count
  (`IdsSpent`, `Requesting`), so a client whose create has been answered is alone with
  its row until it records it (`Answered`), and a correction under way can only still
  be made of the row as it is (`Correctable`). From this follow `IdsTheorem`,
  `OneEntryTheorem`, `RowTheorem` and `OnceTheorem`.
- `ImportInvariant`: `Spec => []ImportInv`, for any number of requests, contents, names
  and payees. It follows each row of a running import: once posted it is among the new
  ones of the response, the duplicates, the one being looked up, tracked, taken by the
  cycle since, or a shadow that another request made (`Accounted`, `BeyondReach`: a
  request that is answered has never left behind a shadow of its own), a missing payee is still to be restored (`Restoring`), and what a
  request carries across an await names entries that exist (`Carried`). From it
  `CommitTheorem`, `PayeeTheorem`, `WrittenOffTheorem`, `LearnedTheorem` and
  `AnchoredTheorem`.

`LedgerInv` (with `RealInv`), `SchedulerInv`, `ReaddInv`, `ImportInv`, `TokenInv`,
`WindowInv` and `LoopInv` are each checked by TLC in a run and inductive by proof.
`Undisturbed` says nothing in `engine_cycles`, where the user deletes; its consequences
`RetryDeletesSafely` and `ImplementsBooking` are what `engine_held` checks, and
`LedgerInv` can be added to that run's invariants and holds.

Only model-checked: liveness (no ENABLED in the prover); `SuccessClears`, which follows
each `cleared` flag and is not part of `LedgerInv`; `SuccessClosesHolds`, which is about
cards, whose rows move; and the promises beyond the
theorems' hypotheses: the refinement of `Booking` with a card, the others with a
transfer or a card without losses. These hold of the instances named under "Bounds",
while the departures of section 6 break them elsewhere.

## 6. Departures from what the code says

Met while modelling; the first three are violation runs, the others are why an
instance leaves a fault out or a property has an exception, and can be reproduced by
changing that, or follow from the lines named.

| What | Where | Seen by |
|---|---|---|
| Recovery without a row raises `ValueError` on every retry | `engine.py:1163` | `engine_wedged` |
| A cycle cached over a long pause moves the cursor past unseen transactions | `engine.py:1065` | `sched_paused_gap` |
| A voided hold widens the window past the retention, and a pruned transaction is submitted again | `engine.py:347` | `windows_voided` |
| Recovery writes DELETED under the old key though the card has booked under a new one, and the next poll creates it again | `engine.py:1194` | a card and `user_delete` |
| A resubmitted correction overwrites the row of the replacement it found, or of a re-add, with DELETED; a further re-add then doubles it | `engine.py:1194` | `DeletedMeansGone` with `Stable`; `OneEntry` without `overwritten` |
| A failed PATCH or DELETE leaves other transactions of the same response unrecorded; if the cycle is dropped, a placeholder among them is doubled once booked, or an inflow once it is paired | `engine.py:1653`, `:1822` | the cast of a card and another in `engine_cycles` |
| After a lost database or reply and a booking in between, a card stands twice, though `ClassifiedCycle` is "always safe, never a double-book risk" (`engine.py:230-231`) | `engine.py:542` | `NoDoubleBooking` with a card in `Rough` |
| A transfer whose create was answered to nobody is backfilled as its primary alone; the other leg has no row and its inflow is imported beside it | `engine.py:2210` | `NoDoubleBooking` with the transfer in `Rough` |
| A response that names no second leg leaves the inflow without a row in a cycle that reports success, and doubled once it is fetched again if YNAB has made the leg | `engine.py:1601-1610` | `LegMissed` in `SuccessSettlesAll` |
| A typed entry that one transaction has claimed is listed again for another of an earlier date and claimed twice, by look-alikes | `engine.py:654-666` | `ListAgain` |
| A row of a file that YNAB matched natively for a request whose reply was lost is a duplicate that no listing shows: an error is logged, it stays untracked, and the commit answers 200 | `engine.py:2289-2294` | `BeyondReach` in `CommitCompletes` |
| The PATCH that clears a transfer's second leg is not repeated | `engine.py:1668` | `engine_live` with a transfer |
| The PATCH that un-clears a natively matched pending entry is not repeated | `engine.py:1380` | `SuccessClears` with `Stable` and `native_match` |
| A placeholder recovered as BOOKED after a lost database is not cleared | `engine.py:2217` | `SuccessClears` with `Stable` and `db_loss` |
| The shadow of a match whose row was not written is not found by the retry | `engine.py:1899` | `LeftAlone` in `SuccessSettlesAll` |
| An entry claimed as one transaction's manual match is natively matched to a look-alike and then deleted | `engine.py:1864` | `KeepsTracked` with `BothAlike` |
| A match or replacement whose import_id is spent on a transaction the user has deleted is retried and left alone in every cycle, never settled | `engine.py:1910` | `StandsIn` in `EventuallySettled` |
| A retry deletes the original although the user has deleted the replacement | `engine.py:1887` | `RetryDeletesSafely` with `user_delete` |
| After a lost response the row's next re-add is refused for ever | `engine.py:2326` | the second disjunct of `IdsInOrder` |
| While paused with an expired deadline the loop turns without sleeping | `scheduler.py:152` | `WaitsAhead` with `pause` |
| An attempt that straddles a fire and fails is resubmitted after it | `scheduler.py:172` | `lastRun` in `FreshAtFire` |
| A fire that comes while the notifiers are told of a failure, or while a cycle publishes, prunes and looks up payees, gets no attempt: the wait computed afterwards is for the fire after it, though `_schedule_retry` relies on "that fire attempts a fresh cycle regardless" (`scheduler.py:164-165`); and what failed before it is resubmitted after it | `scheduler.py:243-257`, `:291-318` | `missed` in `FiresAttended` and `FreshAtFire` |
| A retry that comes due meanwhile is waited for no time at all | `scheduler.py:152` | the third disjunct of `WaitsAhead` |
| A request made after the running cycle has fetched is dropped | `scheduler.py:232` | `Wait` |
| A hold first seen after its date is outside the window widened for it once the cursor has moved on, though the comment says the window is only ever widened | `engine.py:343` | the exception in `HoldsAreSettled` |
| Two callers refresh with one token, the second is refused and reports that a human must log in, contrary to `providers/base.py:151-160`; the scheduler then gives up its retry | `auth.py:99` | `overtaken` in `AuthRequiredUnlessRaced` (`AuthRequiredTheorem`) |
| A save that comes after a login has been written puts an older session's token in its place, dead if the login ended that session | `auth.py:148` | `overtaken` and `revoked` in `SavedTokenWorks` |
| `auth_setup.py` says it writes `state/tokens.json`; it writes `state/tokens/<provider>.json` | `auth_setup.py` | `WriteLogin` |
| Two equal rows of one file share a key: one entry is made, though two are counted as new | `dedup.py:21` | `Content` |
| A transaction that was polled and is in a file has two keys and is created twice, contrary to "structurally impossible for a file import to double-book something a live poll already imported" (`engine.py:2390-2391`) | `engine.py:2386` | the models have one key space each |
| A reserved row that a later export shows as booked is a duplicate, is never cleared, and its PENDING row keeps the window open | `dedup.py:21` | `NewOf` |
| "Nothing was imported" is answered when the reply was lost or some rows are recorded | `routes/file_import.py:181` | `Fail` |
| A failed or lost PATCH leaves an imported entry without a payee for good | `engine.py:1537` | `PayeeRestored` holds for answered commits only |
| The confirmation resolves the account again, so a mapping edited since the preview decides | `routes/file_import.py` | not modelled |
| Removing all mappings and restarting seeds them from the configuration again, which by `config.py:214` is "ignored forever"; seeding skips the uniqueness of `import_source_name` | `state_db.py:918` | `Restart` |
| A crash between adding the decimal column and filling it leaves it unfilled, since the next start only looks for the column; the migration of `transformer_default_budgets` runs only with that backfill | `state_db.py:252-317` | not modelled |
| A mapping pointed at another budget takes effect only after the cycle under way or cached | `engine.py:687` | not modelled |

## 7. Not modelled

- The scoring of candidates (`pending_match.py`): `SyncEngine` assumes its contract,
  one plausible candidate or none, for any relation of likeness.
- Parsing of spreadsheets, the choice of the account a file belongs to, and the
  preview: pure functions and reads.
- Learning a payee from a native or manual match, and the payee cache of a cycle:
  `Payees` has the writes and reads they are made of.
- Re-pointing a mapping at another budget or account: the models have one register.
- Schema migrations, settings, the audit log; notifications, alerts, logging and
  the frontend, which no other part reads back; HTTP and JSON.
