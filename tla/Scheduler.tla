----------------------------- MODULE Scheduler -----------------------------
(***************************************************************************)
(* When sync cycles run (scheduler.py), and which of the bank's            *)
(* transactions each one covers (the fetch window of sync/engine.py and    *)
(* compute_since, record_success, record_failure of sync/state_db.py).     *)
(*                                                                         *)
(* The loop wakes at a cron fire, at a retry's deadline, on request or to  *)
(* stop; a cycle fetches everything dated since the account's cursor less  *)
(* an overlap and submits it; a failed submit is retried with what was     *)
(* fetched, with exponential backoff, until the next fire.  What a submit  *)
(* does to YNAB is the subject of SyncEngine: here it books, one at a time *)
(* and for good, the transactions the cycle covers.                        *)
(*                                                                         *)
(* One account.  The widening of the window for PENDING rows is left out:  *)
(* it only makes a cycle cover more.  Instants are numbered; one lies just *)
(* after the cron fire of the same number.                                 *)
(***************************************************************************)
EXTENDS Naturals

CONSTANTS
  Tx,        (* transactions of the account                                *)
  Period,    (* time between two cron fires                                *)
  Base,      (* config: retry_backoff_base_seconds                         *)
  MaxDelay,  (* config: retry_backoff_max_seconds                          *)
  Overlap,   (* config: lookback_overlap_hours                             *)
  Backfill,  (* config: initial_backfill_days                              *)
  Late,      (* how long after its date a transaction may show up          *)
  CallTime,  (* how long each step that awaits something may take          *)
  MaxTime,   (* bound: where the clock stops                               *)
  MaxStops,  (* bound: how often the process stops or crashes              *)
  MaxAttempt,(* bound: failures in a row after which nobody requests more  *)
  Hazards,   (* what may happen: see AllHazards                            *)
  None

AllHazards == {"fail", "auth", "pause", "request"}

ASSUME SchedulerAssumption ==
  /\ Period \in Nat \ {0} /\ Base \in Nat \ {0} /\ MaxDelay \in Nat \ {0}
  /\ Overlap \in Nat /\ Backfill \in Nat /\ Late \in Nat /\ CallTime \in Nat
  /\ MaxTime \in Nat /\ MaxStops \in Nat /\ MaxAttempt \in Nat
  /\ Hazards \subseteq AllHazards
  /\ None \notin Nat

VARIABLES
  now,
  date,      (* the date of each transaction the bank reports              *)
  booked,    (* transactions YNAB has                                      *)
  cursor,    (* account_cursors.last_synced_at, in the database            *)
  lastRun,   (* run_metadata.last_run_at, in the database                  *)
  paused,    (* run_metadata.paused, in the database                       *)
  pc,        (* where the run loop stands                                  *)
  startup,   (* its first iteration                                        *)
  began,     (* when the step under way was begun                          *)
  work,      (* the classified cycle at hand                               *)
  cached,    (* _cached_classified                                         *)
  attempt,   (* _retry_attempt                                             *)
  deadline,  (* _retry_deadline                                            *)
  target,    (* when the wait times out                                    *)
  syncNow,   (* _sync_now_event                                            *)
  stop,      (* stop_event                                                 *)
  stops,     (* how often the process has stopped                          *)
  skipped,   (* history: the latest fire that a pause lay upon or after    *)
  missed,    (* history: the latest fire between an outcome and the wait   *)
  outlived   (* history: a retry was made after the fire that was to end it*)

database == <<cursor, lastRun, paused>>
outside == <<now, date, booked>>
retry == <<cached, attempt, deadline>>
events == <<syncNow, stop, stops>>
vars == <<now, date, booked, cursor, lastRun, paused, pc, startup, began, work, cached,
          attempt, deadline, target, syncNow, stop, stops, skipped, missed, outlived>>

Time == 0..MaxTime
NoWork == [at |-> 0, txs |-> {}]

Lesser(m, n)  == IF m < n THEN m ELSE n
Greater(m, n) == IF m > n THEN m ELSE n
Less(m, n)    == IF m > n THEN m - n ELSE 0

(* cron.py.                                                                *)
NextFire(t) == (t \div Period + 1) * Period
PreviousFire(t) == (t \div Period) * Period

Init ==
  /\ now = 0
  /\ date = [t \in Tx |-> None] /\ booked = {}
  /\ cursor = None /\ lastRun = None /\ paused = FALSE
  /\ pc = "loop" /\ startup = TRUE
  /\ began = 0 /\ work = NoWork
  /\ cached = None /\ attempt = 0 /\ deadline = None
  /\ target = 0
  /\ syncNow = FALSE /\ stop = FALSE /\ stops = 0
  /\ skipped = None /\ missed = None /\ outlived = FALSE

-----------------------------------------------------------------------------
(* Mutated forms, each a plausible bug in the definition it is named after.*)

(* The window starts at the cursor.                                        *)
Since_NoOverlap == IF cursor = None THEN Less(now, Backfill) ELSE cursor

(* A retry may be due at or after the next fire.                           *)
RetryFits_Always == TRUE

(* Success leaves the deadline of the retry that led to it.                *)
ClearRetryState_KeepDeadline == cached' = None /\ attempt' = 0 /\ UNCHANGED deadline

(* At startup only a database without any run counts as a missed fire.     *)
MissedFire_FirstRun == lastRun = None

-----------------------------------------------------------------------------
(* What the cursor, the clock and the retry state come to.                 *)

(* compute_since.                                                          *)
Since ==
  IF cursor = None THEN Less(now, Backfill)
  ELSE Greater(Less(cursor, Overlap), Less(now, Backfill))

Covered == {t \in Tx : date[t] # None /\ date[t] >= Since}

(* _schedule_retry: how long to back off, and whether that is in time.     *)
(* (Mutated: a retry may be due at the fire itself.)                       *)
Backoff == Base * 2^attempt
Delay == IF Backoff \in 1..MaxDelay THEN Backoff ELSE MaxDelay
RetryFits_Inclusive == now + Delay <= NextFire(now)
RetryFits == now + Delay < NextFire(now)

(* _missed_scheduled_fire.                                                 *)
MissedFire == lastRun = None \/ PreviousFire(now) > lastRun

(* _seconds_until_next_wake.                                               *)
WakeAt(due) == IF due = None THEN NextFire(now)
               ELSE Lesser(NextFire(now), Greater(due, now))

(* _clear_retry_state.                                                     *)
ClearRetryState == cached' = None /\ attempt' = 0 /\ deadline' = None

-----------------------------------------------------------------------------
(* The world outside.                                                      *)

(* A cycle goes on after its outcome has been recorded: it notifies, and   *)
(* then publishes, prunes and reconciles the payees.                       *)
Tail == {"fetch_failed", "auth_failed", "submit_failed", "end"}

(* A due wake-up is not late; what a cycle awaits takes up to CallTime per *)
(* step: publishing that it runs, the fetch, the submit, the notifiers and *)
(* the end.  While paused, the loop may find its timeout expired over and  *)
(* over.                                                                   *)
Awake == syncNow \/ stop \/ now >= target

Tick ==
  /\ now < MaxTime
  /\ \/ pc = "wait" /\ (~Awake \/ paused)
     \/ pc \in {"begin", "fetch", "submit"} \cup Tail /\ now < began + CallTime
     \/ pc = "down"
  /\ now' = now + 1
  /\ UNCHANGED <<date, booked, database, pc, startup, began, work, retry, target, events>>

Appear(t) ==
  /\ date[t] = None
  /\ \E d \in Time : d <= now /\ now <= d + Late /\ date' = [date EXCEPT ![t] = d]
  /\ UNCHANGED <<now, booked, database, pc, startup, began, work, retry, target, events>>

(* Commands are handled wherever the loop awaits something: anywhere but   *)
(* at its head.                                                            *)
Listening == pc \notin {"loop", "down"}

(* request_sync_now.                                                       *)
Request ==
  /\ "request" \in Hazards /\ Listening /\ attempt < MaxAttempt
  /\ syncNow' = TRUE
  /\ UNCHANGED <<outside, database, pc, startup, began, work, retry, target, stop, stops>>

SetPaused ==
  /\ "pause" \in Hazards /\ Listening
  /\ paused' = ~paused
  /\ UNCHANGED <<outside, cursor, lastRun, pc, startup, began, work, retry, target, events>>

Stop ==
  /\ Listening /\ ~stop /\ stops < MaxStops
  /\ stop' = TRUE
  /\ UNCHANGED <<outside, database, pc, startup, began, work, retry, target, syncNow, stops>>

-----------------------------------------------------------------------------
(* _run_loop.                                                              *)

(* Clear the request, then wait: one step, nothing is awaited between.     *)
Wait ==
  /\ pc' = "wait" /\ target' = WakeAt(deadline) /\ began' = 0
  /\ syncNow' = FALSE

Loop ==
  /\ pc = "loop" /\ ~stop
  /\ startup' = FALSE
  /\ IF paused \/ (startup /\ ~MissedFire)
     THEN Wait
     ELSE pc' = "begin" /\ began' = now /\ UNCHANGED <<target, syncNow>>
  /\ UNCHANGED <<outside, database, work, retry, stop, stops>>

Wake ==
  /\ pc = "wait" /\ Awake
  /\ pc' = "loop" /\ target' = 0
  /\ UNCHANGED <<outside, database, startup, began, work, retry, events>>

(* _do_cycle is done with what follows the attempt.                        *)
EndCycle ==
  /\ pc = "end"
  /\ Wait
  /\ UNCHANGED <<outside, database, startup, work, retry, stop, stops>>

-----------------------------------------------------------------------------
(* _attempt_cycle.                                                         *)

Fetch ==
  /\ pc = "begin" /\ cached = None
  /\ pc' = "fetch" /\ began' = now
  /\ UNCHANGED <<outside, database, startup, work, retry, target, syncNow, stop, stops>>

Resubmit ==
  /\ pc = "begin" /\ cached # None
  /\ pc' = "submit" /\ began' = now
  /\ work' = cached
  /\ UNCHANGED <<outside, database, startup, retry, target, syncNow, stop, stops>>

Fetched ==
  /\ pc = "fetch"
  /\ work' = [at |-> now, txs |-> Covered]
  /\ pc' = "submit" /\ began' = now
  /\ UNCHANGED <<outside, database, startup, retry, target, events>>

ScheduleRetry(cycle) ==
  IF RetryFits
  THEN /\ deadline' = now + Delay /\ attempt' = attempt + 1 /\ cached' = cycle
  ELSE ClearRetryState

(* A failure is recorded and the notifiers are told; only then it is       *)
(* decided what comes next, by the clock as it is then.                    *)
RecordFailure(failed) ==
  /\ lastRun' = now
  /\ pc' = failed /\ began' = now
  /\ UNCHANGED <<outside, cursor, paused, startup, work, retry, target, events>>

Notified(failed) ==
  /\ pc = failed
  /\ pc' = "end" /\ began' = now /\ work' = NoWork
  /\ UNCHANGED <<outside, database, startup, target, events>>

FetchFails ==
  /\ "fail" \in Hazards /\ pc = "fetch"
  /\ RecordFailure("fetch_failed")

RetryFetch == Notified("fetch_failed") /\ ScheduleRetry(cached)

(* Only the user can authenticate again: no retry.                         *)
AuthRequired ==
  /\ "auth" \in Hazards /\ pc = "fetch"
  /\ RecordFailure("auth_failed")

AwaitUser == Notified("auth_failed") /\ ClearRetryState

Book(t) ==
  /\ pc = "submit" /\ t \in work.txs \ booked
  /\ booked' = booked \cup {t}
  /\ UNCHANGED <<now, date, database, pc, startup, began, work, retry, target, events>>

SubmitFails ==
  /\ "fail" \in Hazards /\ pc = "submit"
  /\ RecordFailure("submit_failed")

RetrySubmit == Notified("submit_failed") /\ ScheduleRetry(work)

SubmitSucceeds ==
  /\ pc = "submit" /\ work.txs \subseteq booked
  /\ cursor' = now /\ lastRun' = now
  /\ pc' = "end" /\ began' = now /\ work' = NoWork
  /\ ClearRetryState
  /\ UNCHANGED <<outside, paused, startup, target, events>>

-----------------------------------------------------------------------------
(* The process stops in an orderly way, or crashes, and is started again;  *)
(* the database is all that is left.                                       *)

GoDown ==
  /\ pc' = "down" /\ stops' = stops + 1
  /\ startup' = TRUE /\ began' = 0 /\ work' = NoWork
  /\ ClearRetryState
  /\ target' = 0 /\ syncNow' = FALSE /\ stop' = FALSE
  /\ UNCHANGED <<outside, database>>

LoopStops == pc = "loop" /\ stop /\ GoDown
Crash == pc # "down" /\ stops < MaxStops /\ GoDown

Restart ==
  /\ pc = "down"
  /\ pc' = "loop"
  /\ UNCHANGED <<outside, database, startup, began, work, retry, target, events>>

-----------------------------------------------------------------------------
Step ==
  \/ Tick \/ Request \/ SetPaused \/ Stop
  \/ \E t \in Tx : Appear(t) \/ Book(t)
  \/ Loop \/ Wake \/ EndCycle
  \/ Fetch \/ Resubmit \/ Fetched
  \/ FetchFails \/ RetryFetch \/ AuthRequired \/ AwaitUser
  \/ SubmitFails \/ RetrySubmit \/ SubmitSucceeds
  \/ LoopStops \/ Crash \/ Restart

(* What the properties remember of pauses and of fires that fell into a    *)
(* cycle's tail: nothing the program knows.  A restart looks for itself.   *)
Remember ==
  /\ skipped' = IF paused \/ paused' THEN PreviousFire(now') ELSE skipped
  /\ missed' = CASE pc' = "down" -> None
                 [] pc \in Tail /\ lastRun < PreviousFire(now') -> PreviousFire(now')
                 [] OTHER -> missed
  /\ outlived' = (outlived \/ (Resubmit /\ cached.at < PreviousFire(now)))

Next == Step /\ Remember

Spec == Init /\ [][Next]_vars

-----------------------------------------------------------------------------
(* Properties.                                                             *)

Cycle == [at : Nat, txs : SUBSET Tx]

TypeOK ==
  /\ now \in Nat /\ began \in Nat /\ target \in Nat /\ attempt \in Nat /\ stops \in Nat
  /\ date \in [Tx -> Nat \cup {None}] /\ booked \subseteq Tx
  /\ cursor \in Nat \cup {None} /\ lastRun \in Nat \cup {None}
  /\ deadline \in Nat \cup {None}
  /\ pc \in {"loop", "begin", "fetch", "submit", "wait", "down"} \cup Tail
  /\ work \in Cycle /\ cached \in Cycle \cup {None}
  /\ startup \in BOOLEAN /\ paused \in BOOLEAN /\ syncNow \in BOOLEAN /\ stop \in BOOLEAN
  /\ outlived \in BOOLEAN
  /\ skipped \in Nat \cup {None} /\ missed \in Nat \cup {None}

(* No transaction falls into the gap between two fetches: one that is not  *)
(* in YNAB yet lies in the window of the next fetch, unless it is older    *)
(* than any fetch ever reaches back.                                       *)
WindowReachesBack ==
  \A t \in Tx : date[t] # None /\ t \notin booked /\ date[t] >= Less(now, Backfill) =>
    t \in Covered

(* The same through stops, crashes, failures and pauses, as long as nothing*)
(* was resubmitted after the fire that should have replaced it: a pause may*)
(* keep a retry so long, an attempt that straddles the fire, or a fire that*)
(* comes while a cycle is ending.                                          *)
NothingLost == ~outlived => WindowReachesBack

(* The latest fire has had its attempt, or fell between the outcome of an  *)
(* attempt and the wait that follows it.                                   *)
Seen(fire) ==
  \/ lastRun # None /\ lastRun >= fire
  \/ missed # None /\ missed >= fire

(* When an attempt is begun with a cached cycle, there was no fire since   *)
(* that cycle failed, but for one in the tail of the attempt that failed,  *)
(* or of a pause.  (While "running" is being published one may still come.)*)
FreshAtFire ==
  [][pc = "loop" /\ pc' = "begin" /\ cached # None =>
       \/ Seen(PreviousFire(now))
       \/ skipped # None /\ skipped >= PreviousFire(cached.at)]_vars

(* The loop never goes to wait for an instant that has passed, unless the  *)
(* retry came due while the cycle that scheduled it was ending, or it is   *)
(* to wait until it is resumed.                                            *)
WaitsAhead ==
  [][pc # "wait" /\ pc' = "wait" =>
       \/ target' > now \/ paused
       \/ pc = "end" /\ deadline # None /\ deadline > began]_vars

(* The loop sleeps only after the latest fire has had its attempt, be it   *)
(* one missed while the process was down or one that came during the fetch *)
(* or submit of another.  The code attends no fire that comes in the tail  *)
(* of a cycle, nor one it was paused at.                                   *)
Attended(fire) == Seen(fire) \/ (skipped # None /\ skipped >= fire)

FiresAttended == pc = "wait" /\ now < target => Attended(PreviousFire(now))

-----------------------------------------------------------------------------
(* The inductive invariant behind all of these.                            *)

(* Nothing recorded lies ahead of the clock, and a submit ends in time.    *)
NothingAhead ==
  /\ cursor # None => cursor <= now
  /\ lastRun # None => lastRun <= now
  /\ cached # None => cached.at <= now
  /\ pc \in {"submit", "submit_failed"} => work.at <= now
  /\ pc = "submit" => work.at <= began /\ began <= now /\ now <= began + CallTime

(* What the retry state is where the loop stands.  A fire in a cycle's tail*)
(* has been taken note of; a deadline lies after the instant it was set at.*)
Retrying ==
  /\ startup => pc \in {"loop", "down"} /\ deadline = None
  /\ pc = "down" => startup
  /\ pc \in {"fetch", "fetch_failed"} => cached = None
  /\ cached # None => deadline # None
  /\ pc \in Tail => lastRun # None /\ Seen(PreviousFire(now))
  /\ pc = "end" /\ deadline # None => deadline > began

(* FiresAttended, and that no fire is slept over.                          *)
SleepsUntilFire ==
  pc = "wait" /\ now < target =>
    target <= NextFire(now) /\ Attended(PreviousFire(now))

(* A retry is due before the fire after it was scheduled, and waited for no*)
(* longer, unless a pause has come upon what is to be resubmitted.         *)
InTime ==
  cached # None /\ pc \in {"end", "wait", "loop"} =>
    \/ skipped # None /\ skipped >= PreviousFire(cached.at)
    \/ /\ Seen(PreviousFire(now))
       /\ pc = "end" => began <= now /\ deadline < NextFire(began)
       /\ pc = "wait" => target < NextFire(now)

(* A cycle holds everything that is missing, or that came up after it had  *)
(* been fetched.                                                           *)
Due(t) == date[t] # None /\ t \notin booked /\ date[t] >= Less(now, Backfill)
Holds(cycle) == \A t \in Tx : Due(t) => t \in cycle.txs \/ date[t] + Late >= cycle.at

(* The overlap makes up for what came up late while a cycle was under way. *)
OverlapSuffices == Period + CallTime + Late <= Overlap + 1

Gapless ==
  /\ WindowReachesBack
  /\ cached # None => Holds(cached)
  /\ pc \in {"submit", "submit_failed"} => Holds(work)
  /\ pc = "submit" => work.at >= PreviousFire(began)

NothingBetween == OverlapSuffices /\ ~outlived => Gapless

SchedulerInv ==
  /\ TypeOK /\ NothingAhead /\ Retrying /\ SleepsUntilFire /\ InTime /\ NothingBetween

=============================================================================
