-------------------------- MODULE Scheduler_proofs --------------------------
(***************************************************************************)
(* Proofs about Scheduler for any configuration, any transactions and any  *)
(* length of time: every fire is attended, a retry is made in time, and    *)
(* nothing falls between two windows.                                      *)
(***************************************************************************)
EXTENDS Scheduler, TLAPS

-----------------------------------------------------------------------------
(* Fires and delays.                                                       *)

LEMMA FiresAround ==
  ASSUME NEW n \in Nat
  PROVE  /\ PreviousFire(n) \in Nat /\ NextFire(n) \in Nat
         /\ PreviousFire(n) <= n /\ n < NextFire(n)
         /\ NextFire(n) = PreviousFire(n) + Period
  <1> DEFINE q == n \div Period
  <1>1. q \in Nat /\ Period * q <= n
    BY SchedulerAssumption
  <1>2. n < Period * q + Period
    BY SchedulerAssumption
  <1> HIDE DEF q
  <1>3. q * Period \in Nat /\ (q + 1) * Period = q * Period + Period /\ q * Period = Period * q
    BY SchedulerAssumption, <1>1
  <1> QED BY SchedulerAssumption, <1>1, <1>2, <1>3 DEF q, NextFire, PreviousFire

LEMMA NoFireBetween ==
  ASSUME NEW m \in Nat, NEW n \in Nat, n < NextFire(m)
  PROVE  PreviousFire(n) <= PreviousFire(m)
  <1> DEFINE p == m \div Period
             q == n \div Period
  <1>1. p \in Nat /\ q \in Nat
    BY SchedulerAssumption
  <1>2. q * Period < (p + 1) * Period
    BY FiresAround, SchedulerAssumption DEF NextFire, PreviousFire
  <1> HIDE DEF p, q
  <1>3. q < p + 1
    <2> SUFFICES ASSUME q >= p + 1 PROVE FALSE
      BY <1>1
    <2>1. q * Period >= (p + 1) * Period
      BY SchedulerAssumption, <1>1
    <2> QED BY SchedulerAssumption, <1>1, <1>2, <2>1
  <1>4. q * Period <= p * Period
    BY SchedulerAssumption, <1>1, <1>3
  <1> QED BY <1>4 DEF p, q, PreviousFire

LEMMA FiresInOrder ==
  ASSUME NEW m \in Nat, NEW n \in Nat, m <= n
  PROVE  PreviousFire(m) <= PreviousFire(n)
  <1>1. m < NextFire(n)
    BY FiresAround
  <1> QED BY <1>1, NoFireBetween

LEMMA SamePeriod ==
  ASSUME NEW n \in Nat, n + 1 < NextFire(n)
  PROVE  PreviousFire(n + 1) = PreviousFire(n) /\ NextFire(n + 1) = NextFire(n)
  <1>1. n + 1 \in Nat /\ n <= n + 1
    OBVIOUS
  <1>2. PreviousFire(n + 1) <= PreviousFire(n) /\ PreviousFire(n) <= PreviousFire(n + 1)
    BY <1>1, NoFireBetween, FiresInOrder
  <1> QED BY <1>1, <1>2, FiresAround

LEMMA DelayPositive == Delay \in Nat /\ Delay > 0
  BY SchedulerAssumption DEF Delay

LEMMA WakeInTime ==
  ASSUME now \in Nat, NEW due \in Nat \cup {None}
  PROVE  /\ WakeAt(due) \in Nat /\ WakeAt(due) <= NextFire(now)
         /\ due = None \/ due > now => WakeAt(due) > now
         /\ due # None /\ due < NextFire(now) => WakeAt(due) < NextFire(now)
  BY FiresAround, SchedulerAssumption DEF WakeAt, Lesser, Greater

(* What a pause leaves behind stays at least as late as what lies back.    *)
LEMMA PauseRemembered ==
  ASSUME TypeOK, Remember, now' \in Nat, NEW n \in Nat, n <= now',
         \/ paused \/ paused'
         \/ skipped # None /\ skipped >= PreviousFire(n)
  PROVE  skipped' # None /\ skipped' >= PreviousFire(n)
  BY FiresAround, FiresInOrder, SchedulerAssumption DEF Remember, TypeOK


-----------------------------------------------------------------------------
(* The parts of the invariant, action by action.                          *)

LEMMA RememberTyped ==
  ASSUME TypeOK, Remember, now' \in Nat
  PROVE  /\ skipped' \in Nat \cup {None} /\ missed' \in Nat \cup {None}
         /\ outlived' \in BOOLEAN
  BY FiresAround DEF TypeOK, Remember

LEMMA DownTyped ==
  ASSUME TypeOK, Remember, GoDown
  PROVE  TypeOK'
  <1>1. work' \in Cycle /\ cached' = None
    BY DEF GoDown, ClearRetryState, NoWork, Cycle
  <1>2. now' \in Nat /\ UNCHANGED <<now, date, booked, cursor, lastRun, paused>>
    BY DEF GoDown, outside, database, TypeOK
  <1>3. /\ pc' = "down" /\ stops' \in Nat /\ startup' \in BOOLEAN /\ began' \in Nat
        /\ attempt' \in Nat /\ deadline' = None /\ target' \in Nat /\ syncNow' \in BOOLEAN
        /\ stop' \in BOOLEAN
    <2>1. /\ pc' = "down" /\ stops' = stops + 1 /\ startup' = TRUE /\ began' = 0
          /\ target' = 0 /\ syncNow' = FALSE /\ stop' = FALSE
      BY DEF GoDown
    <2>2. attempt' = 0 /\ deadline' = None
      BY DEF GoDown, ClearRetryState
    <2>3. stops \in Nat
      BY DEF TypeOK
    <2>4. startup' \in BOOLEAN /\ syncNow' \in BOOLEAN /\ stop' \in BOOLEAN
      BY <2>1
    <2>5. stops' \in Nat /\ began' \in Nat /\ attempt' \in Nat /\ target' \in Nat
      BY <2>1, <2>2, <2>3
    <2> QED BY <2>1, <2>2, <2>4, <2>5
  <1>4. /\ skipped' \in Nat \cup {None} /\ missed' \in Nat \cup {None}
        /\ outlived' \in BOOLEAN
    BY <1>2, RememberTyped
  <1>5. /\ date' \in [Tx -> Nat \cup {None}] /\ booked' \subseteq Tx /\ paused' \in BOOLEAN
        /\ cursor' \in Nat \cup {None} /\ lastRun' \in Nat \cup {None}
    BY <1>2 DEF TypeOK
  <1> QED BY <1>1, <1>2, <1>3, <1>4, <1>5 DEF TypeOK

LEMMA TypeKeeps ==
  ASSUME TypeOK, Step, Remember
  PROVE  TypeOK'
  <1>0. TypeOK /\ None \notin Nat /\ Delay \in Nat /\ WakeAt(deadline) \in Nat
    BY DelayPositive, WakeInTime, SchedulerAssumption DEF TypeOK
  <1>1. CASE Tick
    BY <1>1, <1>0, RememberTyped DEF Tick, outside, database, retry, events, TypeOK,
       Cycle, Time, NoWork, Covered, Tail
  <1>2. CASE Request
    BY <1>2, <1>0, RememberTyped DEF Request, Listening, outside, database, retry,
       events, TypeOK, Cycle, Time, NoWork, Covered, Tail
  <1>3. CASE SetPaused
    BY <1>3, <1>0, RememberTyped DEF SetPaused, Listening, outside, database, retry,
       events, TypeOK, Cycle, Time, NoWork, Covered, Tail
  <1>4. CASE Stop
    BY <1>4, <1>0, RememberTyped DEF Stop, Listening, outside, database, retry, events,
       TypeOK, Cycle, Time, NoWork, Covered, Tail
  <1>5. ASSUME NEW t \in Tx, Appear(t) PROVE TypeOK'
    BY <1>5, <1>0, RememberTyped DEF Appear, outside, database, retry, events, TypeOK,
       Cycle, Time, NoWork, Covered, Tail
  <1>6. ASSUME NEW t \in Tx, Book(t) PROVE TypeOK'
    BY <1>6, <1>0, RememberTyped DEF Book, outside, database, retry, events, TypeOK,
       Cycle, Time, NoWork, Covered, Tail
  <1>7. CASE Loop
    <2>1. /\ UNCHANGED <<now, date, booked, database, work, retry, stop, stops>>
          /\ startup' = FALSE
      BY <1>7 DEF Loop, outside
    <2>2. /\ pc' \in {"wait", "begin"} /\ target' \in Nat /\ began' \in Nat
          /\ syncNow' \in BOOLEAN
      <3>1. CASE Wait
        BY <1>0, <3>1 DEF Wait
      <3>2. CASE pc' = "begin" /\ began' = now /\ UNCHANGED <<target, syncNow>>
        BY <1>0, <3>2 DEF TypeOK
      <3> QED BY <1>7, <3>1, <3>2 DEF Loop
    <2> QED BY <1>0, <2>1, <2>2, RememberTyped DEF TypeOK, database, retry, Cycle
  <1>8. CASE Wake
    BY <1>8, <1>0, RememberTyped DEF Wake, outside, database, retry, events, TypeOK,
       Cycle, Time, NoWork, Covered, Tail
  <1>9. CASE EndCycle
    BY <1>9, <1>0, RememberTyped DEF EndCycle, Wait, outside, database, retry, events,
       TypeOK, Cycle, Time, NoWork, Covered, Tail
  <1>10. CASE Fetch
    BY <1>10, <1>0, RememberTyped DEF Fetch, outside, database, retry, events, TypeOK,
       Cycle, Time, NoWork, Covered, Tail
  <1>11. CASE Resubmit
    BY <1>11, <1>0, RememberTyped DEF Resubmit, outside, database, retry, events,
       TypeOK, Cycle, Time, NoWork, Covered, Tail
  <1>12. CASE Fetched
    BY <1>12, <1>0, RememberTyped DEF Fetched, outside, database, retry, events, TypeOK,
       Cycle, Time, NoWork, Covered, Tail
  <1>13. CASE FetchFails
    BY <1>13, <1>0, RememberTyped DEF FetchFails, RecordFailure, outside, database, retry, events, TypeOK, Cycle, Time, NoWork,
       Covered, Tail
  <1>14. CASE AuthRequired
    BY <1>14, <1>0, RememberTyped DEF AuthRequired, RecordFailure,
       outside, database, retry, events, TypeOK, Cycle, Time, NoWork, Covered, Tail
  <1>15. CASE SubmitFails
    BY <1>15, <1>0, RememberTyped DEF SubmitFails, RecordFailure, outside, database, retry, events, TypeOK, Cycle, Time, NoWork,
       Covered, Tail
  <1>16. CASE SubmitSucceeds
    BY <1>16, <1>0, RememberTyped DEF SubmitSucceeds, ClearRetryState, outside,
       database, retry, events, TypeOK, Cycle, Time, NoWork, Covered, Tail
  <1>17. CASE LoopStops
    BY <1>17, DownTyped DEF LoopStops
  <1>18. CASE Crash
    BY <1>18, DownTyped DEF Crash
  <1>19. CASE Restart
    BY <1>19, <1>0, RememberTyped DEF Restart, outside, database, retry, events, TypeOK,
       Cycle, Time, NoWork, Covered, Tail
  <1>20. CASE RetryFetch
    BY <1>20, <1>0, RememberTyped DEF RetryFetch, Notified, ScheduleRetry,
       ClearRetryState, outside, database, retry, events, TypeOK, Cycle, Time, NoWork,
       Covered, Tail
  <1>21. CASE AwaitUser
    BY <1>21, <1>0, RememberTyped DEF AwaitUser, Notified, ScheduleRetry,
       ClearRetryState, outside, database, retry, events, TypeOK, Cycle, Time, NoWork,
       Covered, Tail
  <1>22. CASE RetrySubmit
    BY <1>22, <1>0, RememberTyped DEF RetrySubmit, Notified, ScheduleRetry,
       ClearRetryState, outside, database, retry, events, TypeOK, Cycle, Time, NoWork,
       Covered, Tail
  <1> QED BY <1>1, <1>2, <1>3, <1>4, <1>5, <1>6, <1>7, <1>8, <1>9, <1>10, <1>11, <1>12,
         <1>13, <1>14, <1>15, <1>16, <1>17, <1>18, <1>19, <1>20, <1>21, <1>22 DEF Step

LEMMA AheadKeeps ==
  ASSUME SchedulerInv, Step, Remember
  PROVE  NothingAhead'
  <1>0. TypeOK /\ NothingAhead /\ None \notin Nat /\ CallTime \in Nat
    BY SchedulerAssumption DEF SchedulerInv
  <1>1. CASE Tick
    BY <1>1, <1>0 DEF Tick, outside, database, retry, events, TypeOK, NothingAhead,
       Cycle, NoWork
  <1>2. CASE Request
    BY <1>2, <1>0 DEF Request, Listening, outside, database, retry, events, TypeOK,
       NothingAhead, Cycle, NoWork
  <1>3. CASE SetPaused
    BY <1>3, <1>0 DEF SetPaused, Listening, outside, database, retry, events, TypeOK,
       NothingAhead, Cycle, NoWork
  <1>4. CASE Stop
    BY <1>4, <1>0 DEF Stop, Listening, outside, database, retry, events, TypeOK,
       NothingAhead, Cycle, NoWork
  <1>5. ASSUME NEW t \in Tx, Appear(t) PROVE NothingAhead'
    BY <1>5, <1>0 DEF Appear, outside, database, retry, events, TypeOK, NothingAhead,
       Cycle, NoWork
  <1>6. ASSUME NEW t \in Tx, Book(t) PROVE NothingAhead'
    BY <1>6, <1>0 DEF Book, outside, database, retry, events, TypeOK, NothingAhead,
       Cycle, NoWork
  <1>7. CASE Loop
    BY <1>7, <1>0 DEF Loop, Wait, outside, database, retry, events, TypeOK,
       NothingAhead, Cycle, NoWork
  <1>8. CASE Wake
    BY <1>8, <1>0 DEF Wake, outside, database, retry, events, TypeOK, NothingAhead,
       Cycle, NoWork
  <1>9. CASE EndCycle
    BY <1>9, <1>0 DEF EndCycle, Wait, outside, database, retry, events, TypeOK,
       NothingAhead, Cycle, NoWork
  <1>10. CASE Fetch
    BY <1>10, <1>0 DEF Fetch, outside, database, retry, events, TypeOK, NothingAhead,
       Cycle, NoWork
  <1>11. CASE Resubmit
    BY <1>11, <1>0 DEF Resubmit, outside, database, retry, events, TypeOK, NothingAhead,
       Cycle, NoWork
  <1>12. CASE Fetched
    BY <1>12, <1>0 DEF Fetched, outside, database, retry, events, TypeOK, NothingAhead,
       Cycle, NoWork
  <1>13. CASE FetchFails
    BY <1>13, <1>0 DEF FetchFails, RecordFailure, outside, database, retry, events, TypeOK, NothingAhead, Cycle, NoWork
  <1>14. CASE AuthRequired
    BY <1>14, <1>0 DEF AuthRequired, RecordFailure, outside, database,
       retry, events, TypeOK, NothingAhead, Cycle, NoWork
  <1>15. CASE SubmitFails
    BY <1>15, <1>0 DEF SubmitFails, RecordFailure, outside, database, retry, events, TypeOK, NothingAhead, Cycle, NoWork
  <1>16. CASE SubmitSucceeds
    BY <1>16, <1>0 DEF SubmitSucceeds, ClearRetryState, outside, database, retry,
       events, TypeOK, NothingAhead, Cycle, NoWork
  <1>17. CASE LoopStops
    BY <1>17, <1>0 DEF LoopStops, GoDown, ClearRetryState, outside, database, retry,
       events, TypeOK, NothingAhead, Cycle, NoWork
  <1>18. CASE Crash
    BY <1>18, <1>0 DEF Crash, GoDown, ClearRetryState, outside, database, retry, events,
       TypeOK, NothingAhead, Cycle, NoWork
  <1>19. CASE Restart
    BY <1>19, <1>0 DEF Restart, outside, database, retry, events, TypeOK, NothingAhead,
       Cycle, NoWork
  <1>20. CASE RetryFetch
    BY <1>20, <1>0 DEF RetryFetch, Notified, ScheduleRetry, ClearRetryState,
       outside, database, retry, events, TypeOK, NothingAhead, Cycle, NoWork
  <1>21. CASE AwaitUser
    BY <1>21, <1>0 DEF AwaitUser, Notified, ScheduleRetry, ClearRetryState,
       outside, database, retry, events, TypeOK, NothingAhead, Cycle, NoWork
  <1>22. CASE RetrySubmit
    BY <1>22, <1>0 DEF RetrySubmit, Notified, ScheduleRetry, ClearRetryState,
       outside, database, retry, events, TypeOK, NothingAhead, Cycle, NoWork
  <1> QED BY <1>1, <1>2, <1>3, <1>4, <1>5, <1>6, <1>7, <1>8, <1>9, <1>10, <1>11, <1>12,
         <1>13, <1>14, <1>15, <1>16, <1>17, <1>18, <1>19, <1>20, <1>21, <1>22 DEF Step

LEMMA ClockGoesOn ==
  ASSUME SchedulerInv, Step
  PROVE  now' \in Nat /\ now <= now'
  <1>1. now' = now \/ now' = now + 1
    BY DEF Step, Tick, Request, SetPaused, Stop, Appear, Book, Loop, Wake, EndCycle, Fetch,
       Resubmit, Fetched, FetchFails, RetryFetch, AuthRequired, AwaitUser, SubmitFails,
       RetrySubmit, SubmitSucceeds, RecordFailure, Notified, LoopStops, Crash, GoDown, Restart, outside
  <1> QED BY <1>1 DEF SchedulerInv, TypeOK

(* A fire that has been seen stays seen, and one in a cycle's tail is noted.*)
LEMMA SeenKeeps ==
  ASSUME SchedulerInv, Step, Remember, lastRun' = lastRun, pc' # "down"
  PROVE  /\ now' = now /\ Seen(PreviousFire(now)) => Seen(PreviousFire(now))'
         /\ pc \in Tail /\ lastRun # None => Seen(PreviousFire(now))'
  <1>1. /\ now \in Nat /\ now' \in Nat /\ None \notin Nat
        /\ lastRun \in Nat \cup {None} /\ missed \in Nat \cup {None}
    BY ClockGoesOn, SchedulerAssumption DEF SchedulerInv, TypeOK
  <1>2. PreviousFire(now) \in Nat /\ PreviousFire(now') \in Nat
    BY <1>1, FiresAround
  <1>3. \/ pc \in Tail /\ lastRun < PreviousFire(now') /\ missed' = PreviousFire(now')
        \/ ~(pc \in Tail /\ lastRun < PreviousFire(now')) /\ missed' = missed
    BY DEF Remember
  <1>4. ASSUME now' = now, Seen(PreviousFire(now)) PROVE Seen(PreviousFire(now))'
    BY <1>1, <1>2, <1>3, <1>4 DEF Seen
  <1>5. ASSUME pc \in Tail, lastRun # None PROVE Seen(PreviousFire(now))'
    BY <1>1, <1>2, <1>3, <1>5 DEF Seen
  <1> QED BY <1>4, <1>5

LEMMA RetryingKeeps ==
  ASSUME SchedulerInv, Step, Remember
  PROVE  Retrying'
  <1>0. TypeOK /\ Retrying /\ None \notin Nat /\ Delay \in Nat /\ Delay > 0
    BY DelayPositive, SchedulerAssumption DEF SchedulerInv
  <1>c. /\ pc \in Tail /\ lastRun' = lastRun /\ pc' # "down" => Seen(PreviousFire(now))'
        /\ lastRun' = now /\ now' = now => Seen(PreviousFire(now))'
    <2>1. pc \in Tail /\ lastRun' = lastRun /\ pc' # "down" => Seen(PreviousFire(now))'
      BY <1>0, SeenKeeps DEF Retrying
    <2>2. ASSUME lastRun' = now, now' = now PROVE Seen(PreviousFire(now))'
      <3>1. now \in Nat /\ now # None
        BY <1>0 DEF TypeOK
      <3>2. PreviousFire(now) <= now
        BY <3>1, FiresAround
      <3> QED BY <2>2, <3>1, <3>2 DEF Seen
    <2> QED BY <2>1, <2>2
  <1>1. CASE Tick
    BY <1>1, <1>0, <1>c DEF Tick, outside, database, retry, events, TypeOK, Retrying,
       Cycle, NoWork, Tail
  <1>2. CASE Request
    BY <1>2, <1>0, <1>c DEF Request, Listening, outside, database, retry, events, TypeOK,
       Retrying,
       Cycle, NoWork, Tail
  <1>3. CASE SetPaused
    BY <1>3, <1>0, <1>c DEF SetPaused, Listening, outside, database, retry, events, TypeOK,
       Retrying,
       Cycle, NoWork, Tail
  <1>4. CASE Stop
    BY <1>4, <1>0, <1>c DEF Stop, Listening, outside, database, retry, events, TypeOK,
       Retrying,
       Cycle, NoWork, Tail
  <1>5. ASSUME NEW t \in Tx, Appear(t) PROVE Retrying'
    BY <1>5, <1>0, <1>c DEF Appear, outside, database, retry, events, TypeOK, Retrying,
       Cycle, NoWork, Tail
  <1>6. ASSUME NEW t \in Tx, Book(t) PROVE Retrying'
    BY <1>6, <1>0, <1>c DEF Book, outside, database, retry, events, TypeOK, Retrying,
       Cycle, NoWork, Tail
  <1>7. CASE Loop
    BY <1>7, <1>0, <1>c DEF Loop, Wait, outside, database, retry, events, TypeOK, Retrying,
       Cycle, NoWork, Tail
  <1>8. CASE Wake
    BY <1>8, <1>0, <1>c DEF Wake, outside, database, retry, events, TypeOK, Retrying,
       Cycle, NoWork, Tail
  <1>9. CASE EndCycle
    BY <1>9, <1>0, <1>c DEF EndCycle, Wait, outside, database, retry, events, TypeOK,
       Retrying,
       Cycle, NoWork, Tail
  <1>10. CASE Fetch
    BY <1>10, <1>0, <1>c DEF Fetch, outside, database, retry, events, TypeOK, Retrying,
       Cycle, NoWork, Tail
  <1>11. CASE Resubmit
    BY <1>11, <1>0, <1>c DEF Resubmit, outside, database, retry, events, TypeOK, Retrying,
       Cycle, NoWork, Tail
  <1>12. CASE Fetched
    BY <1>12, <1>0, <1>c DEF Fetched, outside, database, retry, events, TypeOK, Retrying,
       Cycle, NoWork, Tail
  <1>13. CASE FetchFails
    BY <1>13, <1>0, <1>c DEF FetchFails, RecordFailure, outside, database, retry, events, TypeOK, Retrying,
       Cycle, NoWork, Tail
  <1>14. CASE AuthRequired
    BY <1>14, <1>0, <1>c DEF AuthRequired, RecordFailure, outside, database,
       retry, events, TypeOK, Retrying,
       Cycle, NoWork, Tail
  <1>15. CASE SubmitFails
    BY <1>15, <1>0, <1>c DEF SubmitFails, RecordFailure, outside, database, retry, events, TypeOK, Retrying,
       Cycle, NoWork, Tail
  <1>16. CASE SubmitSucceeds
    BY <1>16, <1>0, <1>c DEF SubmitSucceeds, ClearRetryState, outside, database, retry,
       events, TypeOK, Retrying,
       Cycle, NoWork, Tail
  <1>17. CASE LoopStops
    BY <1>17, <1>0, <1>c DEF LoopStops, GoDown, ClearRetryState, outside, database, retry,
       events, TypeOK, Retrying,
       Cycle, NoWork, Tail
  <1>18. CASE Crash
    BY <1>18, <1>0, <1>c DEF Crash, GoDown, ClearRetryState, outside, database, retry, events,
       TypeOK, Retrying,
       Cycle, NoWork, Tail
  <1>19. CASE Restart
    BY <1>19, <1>0, <1>c DEF Restart, outside, database, retry, events, TypeOK, Retrying,
       Cycle, NoWork, Tail
  <1>20. CASE RetryFetch
    BY <1>20, <1>0, <1>c DEF RetryFetch, Notified, ScheduleRetry, ClearRetryState,
       outside, database, retry, events, TypeOK, Retrying, Cycle, NoWork, Tail
  <1>21. CASE AwaitUser
    BY <1>21, <1>0, <1>c DEF AwaitUser, Notified, ScheduleRetry, ClearRetryState,
       outside, database, retry, events, TypeOK, Retrying, Cycle, NoWork, Tail
  <1>22. CASE RetrySubmit
    BY <1>22, <1>0, <1>c DEF RetrySubmit, Notified, ScheduleRetry, ClearRetryState,
       outside, database, retry, events, TypeOK, Retrying, Cycle, NoWork, Tail
  <1> QED BY <1>1, <1>2, <1>3, <1>4, <1>5, <1>6, <1>7, <1>8, <1>9, <1>10, <1>11, <1>12,
         <1>13, <1>14, <1>15, <1>16, <1>17, <1>18, <1>19, <1>20, <1>21, <1>22 DEF Step

LEMMA WaitStarts ==
  ASSUME Step, pc # "wait", pc' = "wait"
  PROVE  Loop \/ EndCycle
  BY DEF Step, Tick, Request, SetPaused, Stop, Appear, Book, Wake, Fetch, Resubmit, Fetched,
     FetchFails, RetryFetch, AuthRequired, AwaitUser, SubmitFails, RetrySubmit, SubmitSucceeds,
     RecordFailure, Notified, LoopStops, Crash, GoDown, Restart

LEMMA SleepsKeeps ==
  ASSUME SchedulerInv, Step, Remember
  PROVE  SleepsUntilFire'
  <1>0. /\ TypeOK /\ NothingAhead /\ Retrying /\ SleepsUntilFire /\ None \notin Nat
        /\ now \in Nat
        /\ lastRun = None \/ lastRun \in Nat
        /\ skipped = None \/ skipped \in Nat
    BY SchedulerAssumption DEF SchedulerInv, TypeOK
  <1>a. /\ PreviousFire(now) \in Nat /\ PreviousFire(now) <= now
        /\ WakeAt(deadline) \in Nat /\ WakeAt(deadline) <= NextFire(now)
    BY <1>0, FiresAround, WakeInTime DEF TypeOK
  <1>b. /\ paused \/ paused' => (now' = now => skipped' # None /\ skipped' >= PreviousFire(now))
        /\ ~paused /\ ~paused' => skipped' = skipped
    BY <1>0, <1>a DEF Remember
  <1>c. Attended(PreviousFire(now)) /\ now' = now /\ lastRun' = lastRun /\ pc' # "down" =>
          Attended(PreviousFire(now))'
    <2>1. ASSUME now' = now, lastRun' = lastRun, pc' # "down", Attended(PreviousFire(now))
          PROVE  Attended(PreviousFire(now))'
      <3>1. Seen(PreviousFire(now)) => Seen(PreviousFire(now))'
        BY <2>1, SeenKeeps
      <3>2. skipped # None /\ skipped >= PreviousFire(now) =>
              (skipped # None /\ skipped >= PreviousFire(now))'
        BY <1>0, <1>a, <1>b, <2>1
      <3> QED BY <2>1, <3>1, <3>2 DEF Attended
    <2> QED BY <2>1
  <1>1. CASE Tick
    <2>1. CASE pc = "wait" /\ now + 1 < target
      <3>1. target <= NextFire(now) /\ Attended(PreviousFire(now)) /\ now' = now + 1
        BY <1>0, <1>1, <2>1 DEF SleepsUntilFire, Tick, TypeOK
      <3>2. PICK n \in Nat : n = now
        BY <1>0
      <3>5. /\ PreviousFire(n + 1) = PreviousFire(n) /\ PreviousFire(n) \in Nat
            /\ NextFire(n + 1) = NextFire(n)
        <4>1. target \in Nat /\ NextFire(n) \in Nat /\ PreviousFire(n) \in Nat
          BY <1>0, FiresAround DEF TypeOK
        <4>2. n + 1 < NextFire(n)
          BY <2>1, <3>1, <3>2, <4>1
        <4> QED BY <4>1, <4>2, SamePeriod
      <3>6. /\ lastRun' = lastRun /\ target' = target /\ now' = n + 1
            /\ PreviousFire(now') = PreviousFire(n) /\ NextFire(now') = NextFire(n)
        BY <1>1, <3>1, <3>2, <3>5 DEF Tick, database
      <3>7. Attended(PreviousFire(now))' 
        <4>1. missed' = missed /\ (skipped' = PreviousFire(now') \/ skipped' = skipped)
          BY <1>1, <2>1 DEF Remember, Tail, Tick
        <4> QED BY <1>0, <3>1, <3>2, <3>5, <3>6, <4>1 DEF Attended, Seen
      <3> QED BY <3>1, <3>2, <3>6, <3>7 DEF SleepsUntilFire
    <2>2. CASE ~(pc = "wait" /\ now + 1 < target)
      BY <1>1, <2>2 DEF Tick, SleepsUntilFire
    <2> QED BY <2>1, <2>2
  <1>2. CASE Request
    BY <1>2, <1>0, <1>c DEF Request, Listening, outside, database, retry, events,
       SleepsUntilFire
  <1>3. CASE SetPaused
    BY <1>3, <1>0, <1>c DEF SetPaused, Listening, outside, database, retry, events,
       SleepsUntilFire
  <1>4. CASE Stop
    BY <1>4, <1>0, <1>c DEF Stop, Listening, outside, database, retry, events,
       SleepsUntilFire
  <1>5. ASSUME NEW t \in Tx, Appear(t) PROVE SleepsUntilFire'
    BY <1>5, <1>0, <1>c DEF Appear, outside, database, retry, events, SleepsUntilFire
  <1>6. ASSUME NEW t \in Tx, Book(t) PROVE SleepsUntilFire'
    BY <1>6, <1>0, <1>c DEF Book, outside, database, retry, events, SleepsUntilFire
  <1>7. CASE Loop
    <2>1. CASE pc' = "wait"
      <3>1. now' = now /\ lastRun' = lastRun /\ paused' = paused /\ target' = WakeAt(deadline)
        BY <1>7, <2>1 DEF Loop, Wait, outside, database
      <3>2. Attended(PreviousFire(now))'
        BY <1>0, <1>a, <1>b, <1>7, <2>1, <3>1 DEF Loop, MissedFire, Attended, Seen
      <3> QED BY <1>a, <3>1, <3>2 DEF SleepsUntilFire
    <2> QED BY <2>1 DEF SleepsUntilFire
  <1>8. CASE Wake
    BY <1>8, <1>0, <1>c DEF Wake, outside, database, retry, events, SleepsUntilFire
  <1>9. CASE EndCycle
    <2>1. /\ now' = now /\ lastRun' = lastRun /\ target' = WakeAt(deadline)
          /\ pc \in Tail /\ pc' = "wait" /\ lastRun # None
      BY <1>0, <1>9 DEF EndCycle, Wait, outside, database, Retrying, Tail
    <2>2. Attended(PreviousFire(now))'
      BY <2>1, SeenKeeps DEF Attended
    <2> QED BY <1>a, <2>1, <2>2 DEF SleepsUntilFire
  <1>10. CASE Fetch
    BY <1>10, <1>0, <1>c DEF Fetch, outside, database, retry, events, SleepsUntilFire
  <1>11. CASE Resubmit
    BY <1>11, <1>0, <1>c DEF Resubmit, outside, database, retry, events, SleepsUntilFire
  <1>12. CASE Fetched
    BY <1>12, <1>0, <1>c DEF Fetched, outside, database, retry, events, SleepsUntilFire
  <1>13. CASE FetchFails
    BY <1>13, <1>0, <1>c DEF FetchFails, RecordFailure, outside, database, retry, events, SleepsUntilFire
  <1>14. CASE AuthRequired
    BY <1>14, <1>0, <1>c DEF AuthRequired, RecordFailure, outside,
       database, retry, events, SleepsUntilFire
  <1>15. CASE SubmitFails
    BY <1>15, <1>0, <1>c DEF SubmitFails, RecordFailure, outside, database, retry, events, SleepsUntilFire
  <1>16. CASE SubmitSucceeds
    BY <1>16, <1>0, <1>c DEF SubmitSucceeds, ClearRetryState, outside, database, retry,
       events, SleepsUntilFire
  <1>17. CASE LoopStops
    BY <1>17, <1>0, <1>c DEF LoopStops, GoDown, ClearRetryState, outside, database,
       retry, events, SleepsUntilFire
  <1>18. CASE Crash
    BY <1>18, <1>0, <1>c DEF Crash, GoDown, ClearRetryState, outside, database, retry,
       events, SleepsUntilFire
  <1>19. CASE Restart
    BY <1>19, <1>0, <1>c DEF Restart, outside, database, retry, events, SleepsUntilFire
  <1>20. CASE RetryFetch
    BY <1>20, <1>0, <1>c DEF RetryFetch, Notified, ScheduleRetry, ClearRetryState,
       outside, database, retry, events, SleepsUntilFire
  <1>21. CASE AwaitUser
    BY <1>21, <1>0, <1>c DEF AwaitUser, Notified, ScheduleRetry, ClearRetryState,
       outside, database, retry, events, SleepsUntilFire
  <1>22. CASE RetrySubmit
    BY <1>22, <1>0, <1>c DEF RetrySubmit, Notified, ScheduleRetry, ClearRetryState,
       outside, database, retry, events, SleepsUntilFire
  <1> QED BY <1>1, <1>2, <1>3, <1>4, <1>5, <1>6, <1>7, <1>8, <1>9, <1>10, <1>11, <1>12,
         <1>13, <1>14, <1>15, <1>16, <1>17, <1>18, <1>19, <1>20, <1>21, <1>22 DEF Step

LEMMA InTimeKeeps ==
  ASSUME SchedulerInv, Step, Remember
  PROVE  InTime'
  <1>0. /\ TypeOK /\ NothingAhead /\ Retrying /\ SleepsUntilFire /\ InTime
        /\ None \notin Nat /\ now \in Nat /\ Delay \in Nat /\ Delay > 0
        /\ now' \in Nat /\ now <= now'
        /\ lastRun = None \/ lastRun \in Nat
        /\ deadline = None \/ deadline \in Nat
    BY ClockGoesOn, DelayPositive, SchedulerAssumption DEF SchedulerInv, TypeOK
  <1>s. /\ Seen(PreviousFire(now)) /\ now' = now /\ lastRun' = lastRun /\ pc' # "down" =>
             Seen(PreviousFire(now))'
        /\ pc \in Tail /\ lastRun' = lastRun /\ pc' # "down" => Seen(PreviousFire(now))'
    BY <1>0, SeenKeeps DEF Retrying
  <1>b. ASSUME cached # None, cached' = cached,
               \/ skipped # None /\ skipped >= PreviousFire(cached.at)
               \/ paused \/ paused'
        PROVE  InTime'
    <2>1. cached.at \in Nat /\ cached.at <= now'
      BY <1>0, <1>b DEF TypeOK, NothingAhead, Cycle
    <2>2. skipped' # None /\ skipped' >= PreviousFire(cached.at)
      BY <1>0, <1>b, <2>1, PauseRemembered
    <2> QED BY <1>b, <2>2 DEF InTime
  <1>1. CASE Tick
    <2>0. UNCHANGED <<cached, lastRun, pc, target, deadline, began>> /\ now' = now + 1
      BY <1>1 DEF Tick, database, retry
    <2>1. CASE cached # None /\ skipped # None /\ skipped >= PreviousFire(cached.at)
      BY <1>b, <2>0, <2>1
    <2>2. CASE cached # None /\ paused
      BY <1>b, <2>0, <2>2
    <2>3. CASE /\ cached # None /\ ~(skipped # None /\ skipped >= PreviousFire(cached.at))
               /\ ~paused /\ pc = "wait"
      <3>1. Seen(PreviousFire(now)) /\ target < NextFire(now) /\ target \in Nat
        BY <1>0, <2>3 DEF InTime, TypeOK
      <3>2. ~(now >= target)
        <4>1. ~Awake \/ paused
          BY <1>1, <2>3 DEF Tick, Tail
        <4> QED BY <2>3, <4>1 DEF Awake
      <3>3. PICK n \in Nat : n = now
        BY <1>0
      <3>4. NextFire(n) \in Nat /\ n + 1 < NextFire(n)
        BY <3>1, <3>2, <3>3, FiresAround
      <3>5. PreviousFire(now') = PreviousFire(now) /\ NextFire(now') = NextFire(now)
        BY <2>0, <3>3, <3>4, SamePeriod
      <3>6. missed' = missed
        BY <2>0, <2>3 DEF Remember, Tail
      <3>7. Seen(PreviousFire(now))'
        BY <2>0, <3>1, <3>5, <3>6 DEF Seen
      <3> QED BY <2>0, <2>3, <3>1, <3>5, <3>7 DEF InTime
    <2>4. CASE /\ cached # None /\ ~(skipped # None /\ skipped >= PreviousFire(cached.at))
               /\ pc = "end"
      <3>1. began <= now /\ deadline < NextFire(began) /\ began \in Nat
        BY <1>0, <2>4 DEF InTime, TypeOK
      <3>2. Seen(PreviousFire(now))'
        BY <1>s, <2>0, <2>4 DEF Tail
      <3> QED BY <1>0, <2>0, <2>4, <3>1, <3>2 DEF InTime
    <2>5. CASE cached = None \/ pc \notin {"end", "wait"}
      BY <1>1, <2>0, <2>5 DEF Tick, Tail, InTime
    <2> QED BY <2>1, <2>2, <2>3, <2>4, <2>5
  <1>2. CASE Request
    BY <1>2, <1>0, <1>b, <1>s DEF Request, Listening, outside, database, retry, events, InTime
  <1>3. CASE SetPaused
    BY <1>3, <1>0, <1>b, <1>s DEF SetPaused, Listening, outside, database, retry, events,
       InTime
  <1>4. CASE Stop
    BY <1>4, <1>0, <1>b, <1>s DEF Stop, Listening, outside, database, retry, events, InTime
  <1>5. ASSUME NEW t \in Tx, Appear(t) PROVE InTime'
    BY <1>5, <1>0, <1>b, <1>s DEF Appear, outside, database, retry, events, InTime
  <1>6. ASSUME NEW t \in Tx, Book(t) PROVE InTime'
    BY <1>6, <1>0, <1>b, <1>s DEF Book, outside, database, retry, events, InTime
  <1>7. CASE Loop
    <2>1. CASE paused /\ cached # None
      BY <1>7, <1>b, <2>1 DEF Loop, retry
    <2>2. CASE ~paused /\ cached # None
      BY <1>7, <1>0, <2>2 DEF Loop, Retrying, InTime
    <2>3. CASE cached = None
      BY <1>7, <2>3 DEF Loop, retry, InTime
    <2> QED BY <2>1, <2>2, <2>3
  <1>8. CASE Wake
    BY <1>8, <1>0, <1>b, <1>s DEF Wake, outside, database, retry, events, InTime
  <1>9. CASE EndCycle
    <2>1. CASE cached # None
      <3>1. /\ pc = "end" /\ pc' = "wait" /\ target' = WakeAt(deadline)
            /\ UNCHANGED <<now, lastRun, cached, deadline>>
        BY <1>9 DEF EndCycle, Wait, retry, outside, database
      <3>2. CASE skipped # None /\ skipped >= PreviousFire(cached.at)
        BY <1>b, <2>1, <3>1, <3>2
      <3>3. CASE ~(skipped # None /\ skipped >= PreviousFire(cached.at))
        <4>1. /\ deadline \in Nat /\ began \in Nat /\ began <= now
              /\ deadline < NextFire(began)
          BY <1>0, <2>1, <3>1, <3>3 DEF InTime, Retrying, TypeOK
        <4>2. NextFire(began) <= NextFire(now) /\ NextFire(began) \in Nat
              /\ NextFire(now) \in Nat
          <5>1. PreviousFire(began) <= PreviousFire(now)
            BY <1>0, <4>1, FiresInOrder
          <5>2. /\ NextFire(began) = PreviousFire(began) + Period
                /\ NextFire(now) = PreviousFire(now) + Period
                /\ PreviousFire(began) \in Nat /\ PreviousFire(now) \in Nat
            BY <1>0, <4>1, FiresAround
          <5> QED BY <5>1, <5>2, SchedulerAssumption
        <4>3. WakeAt(deadline) < NextFire(now)
          BY <1>0, <4>1, <4>2, WakeInTime
        <4>4. Seen(PreviousFire(now))'
          BY <1>s, <3>1 DEF Tail
        <4> QED BY <3>1, <4>3, <4>4 DEF InTime
      <3> QED BY <3>2, <3>3
    <2>2. CASE cached = None
      BY <1>9, <2>2 DEF EndCycle, retry, InTime
    <2> QED BY <2>1, <2>2
  <1>10. CASE Fetch
    BY <1>10, <1>0, <1>b, <1>s DEF Fetch, outside, database, retry, events, InTime
  <1>11. CASE Resubmit
    BY <1>11, <1>0, <1>b, <1>s DEF Resubmit, outside, database, retry, events, InTime
  <1>12. CASE Fetched
    BY <1>12, <1>0, <1>b, <1>s DEF Fetched, outside, database, retry, events, InTime
  <1>13. CASE FetchFails
    BY <1>13, <1>0, <1>b DEF FetchFails, RecordFailure, ScheduleRetry, ClearRetryState,
       Retrying, InTime
  <1>14. CASE AuthRequired
    BY <1>14, <1>0, <1>b DEF AuthRequired, RecordFailure, outside,
       database, retry, events, InTime
  <1>15. CASE SubmitFails
    BY <1>15, <1>0 DEF SubmitFails, RecordFailure, InTime
  <1>16. CASE SubmitSucceeds
    BY <1>16, <1>0, <1>b, <1>s DEF SubmitSucceeds, ClearRetryState, outside, database, retry,
       events, InTime
  <1>17. CASE LoopStops
    BY <1>17, <1>0, <1>b, <1>s DEF LoopStops, GoDown, ClearRetryState, outside, database,
       retry, events, InTime
  <1>18. CASE Crash
    BY <1>18, <1>0, <1>b, <1>s DEF Crash, GoDown, ClearRetryState, outside, database, retry,
       events, InTime
  <1>19. CASE Restart
    BY <1>19, <1>0, <1>b, <1>s DEF Restart, retry, Retrying, InTime
  <1>20. CASE RetryFetch
    BY <1>20, <1>0, <1>b, <1>s DEF RetryFetch, Notified, ScheduleRetry, ClearRetryState,
       Retrying, InTime
  <1>21. CASE AwaitUser
    BY <1>21, <1>0, <1>b, <1>s DEF AwaitUser, Notified, ScheduleRetry, ClearRetryState,
       Retrying, InTime
  <1>22. CASE RetrySubmit
    <2>1. CASE RetryFits
      <3>1. /\ pc \in Tail /\ pc' = "end" /\ now' = now /\ lastRun' = lastRun
            /\ began' = now /\ deadline' = now + Delay /\ now + Delay < NextFire(now)
        BY <1>22, <2>1 DEF RetrySubmit, Notified, ScheduleRetry, RetryFits, outside,
           database, Tail
      <3>2. Seen(PreviousFire(now))'
        BY <1>s, <3>1
      <3> QED BY <1>0, <3>1, <3>2 DEF InTime
    <2>2. CASE ~RetryFits
      BY <1>22, <2>2 DEF RetrySubmit, ScheduleRetry, ClearRetryState, InTime
    <2> QED BY <2>1, <2>2
  <1> QED BY <1>1, <1>2, <1>3, <1>4, <1>5, <1>6, <1>7, <1>8, <1>9, <1>10, <1>11, <1>12,
         <1>13, <1>14, <1>15, <1>16, <1>17, <1>18, <1>19, <1>20, <1>21, <1>22 DEF Step

LEMMA BetweenKeeps ==
  ASSUME SchedulerInv, Step, Remember, OverlapSuffices, ~outlived'
  PROVE  Gapless'
  <1>0. /\ TypeOK /\ NothingAhead /\ Retrying /\ NothingBetween
        /\ OverlapSuffices /\ ~outlived' /\ ~outlived
        /\ now \in Nat /\ now' \in Nat /\ now <= now'
        /\ Late \in Nat /\ Overlap \in Nat /\ Backfill \in Nat /\ CallTime \in Nat
        /\ Period \in Nat /\ None \notin Nat
        /\ \A x \in Tx : date[x] = None \/ date[x] \in Nat
        /\ cursor = None \/ cursor \in Nat
    <2>1. now' \in Nat /\ now <= now'
      BY ClockGoesOn
    <2>2. ~outlived
      BY DEF Remember
    <2> QED BY <2>1, <2>2, SchedulerAssumption DEF SchedulerInv, TypeOK
  <1>a. /\ WindowReachesBack
        /\ cached # None => Holds(cached)
        /\ pc \in {"submit", "submit_failed"} => Holds(work)
        /\ pc = "submit" => work.at >= PreviousFire(began)
    BY <1>0 DEF NothingBetween, Gapless
  <1>1. CASE Tick
    BY <1>1, <1>0, <1>a DEF Tick, outside, database, retry, events, Gapless,
       WindowReachesBack, Holds, Due, Covered, Since, Less, Greater
  <1>2. CASE Request
    BY <1>2, <1>0, <1>a DEF Request, Listening, outside, database, retry, events,
       Gapless, WindowReachesBack, Holds, Due, Covered, Since, Less, Greater
  <1>3. CASE SetPaused
    BY <1>3, <1>0, <1>a DEF SetPaused, Listening, outside, database, retry, events,
       Gapless, WindowReachesBack, Holds, Due, Covered, Since, Less, Greater
  <1>4. CASE Stop
    BY <1>4, <1>0, <1>a DEF Stop, Listening, outside, database, retry, events, Gapless,
       WindowReachesBack, Holds, Due, Covered, Since, Less, Greater
  <1>5. ASSUME NEW t \in Tx, Appear(t) PROVE Gapless'
    <2>1. PICK d \in Nat : d <= now /\ now <= d + Late /\ date' = [date EXCEPT ![t] = d]
      <3>1. PICK d \in Time : d <= now /\ now <= d + Late /\ date' = [date EXCEPT ![t] = d]
        BY <1>5 DEF Appear
      <3>2. d \in Nat
        BY SchedulerAssumption DEF Time
      <3> QED BY <3>1, <3>2
    <2>2. \A x \in Tx : date'[x] = IF x = t THEN d ELSE date[x]
      BY <1>0, <2>1 DEF TypeOK
    <2>3. UNCHANGED <<now, booked, cursor, cached, pc, work, began>>
      BY <1>5 DEF Appear, database, retry
    <2>4. cursor # None => cursor <= now
      BY <1>0 DEF NothingAhead
    <2>5. WindowReachesBack'
      <3>1. Late <= Overlap
        BY <1>0, SchedulerAssumption DEF OverlapSuffices
      <3> QED BY <1>0, <1>a, <2>1, <2>2, <2>3, <2>4, <3>1
             DEF WindowReachesBack, Covered, Since, Less, Greater
    <2>6. ASSUME NEW cycle \in Cycle, Holds(cycle), cycle.at <= now
          PROVE  Holds(cycle)'
      BY <1>0, <2>1, <2>2, <2>3, <2>6 DEF Holds, Due, Cycle
    <2>7. /\ cached # None => cached \in Cycle /\ cached.at <= now
          /\ pc \in {"submit", "submit_failed"} => work \in Cycle /\ work.at <= now
      BY <1>0 DEF TypeOK, NothingAhead, Cycle
    <2>8. cached' # None => Holds(cached)'
      BY <1>a, <2>3, <2>6, <2>7 DEF Holds, Due
    <2>9. pc' \in {"submit", "submit_failed"} => Holds(work)'
      BY <1>a, <2>3, <2>6, <2>7 DEF Holds, Due
    <2> QED BY <1>a, <2>3, <2>5, <2>8, <2>9 DEF Gapless
  <1>6. ASSUME NEW t \in Tx, Book(t) PROVE Gapless'
    BY <1>6, <1>0, <1>a DEF Book, outside, database, retry, events, Gapless,
       WindowReachesBack, Holds, Due, Covered, Since, Less, Greater
  <1>7. CASE Loop
    BY <1>7, <1>0, <1>a DEF Loop, Wait, outside, database, retry, events, Gapless,
       WindowReachesBack, Holds, Due, Covered, Since, Less, Greater
  <1>8. CASE Wake
    BY <1>8, <1>0, <1>a DEF Wake, outside, database, retry, events, Gapless,
       WindowReachesBack, Holds, Due, Covered, Since, Less, Greater
  <1>9. CASE EndCycle
    BY <1>9, <1>0, <1>a DEF EndCycle, Wait, outside, database, retry, events, Gapless,
       WindowReachesBack, Holds, Due, Covered, Since, Less, Greater
  <1>10. CASE Fetch
    BY <1>10, <1>0, <1>a DEF Fetch, outside, database, retry, events, Gapless,
       WindowReachesBack, Holds, Due, Covered, Since, Less, Greater
  <1>11. CASE Resubmit
    <2>1. /\ cached # None /\ work' = cached /\ began' = now /\ pc' = "submit"
          /\ UNCHANGED <<now, date, booked, cursor, cached>>
      BY <1>11 DEF Resubmit, outside, database, retry
    <2>2. cached.at >= PreviousFire(now)
      <3>1. ~(cached.at < PreviousFire(now))
        BY <1>11, <1>0 DEF Remember
      <3>2. cached.at \in Nat /\ PreviousFire(now) \in Nat
        BY <1>0, <2>1, FiresAround DEF TypeOK, Cycle
      <3> QED BY <3>1, <3>2
    <2>3. WindowReachesBack' /\ Holds(cached)' /\ Holds(work)'
      BY <1>a, <2>1 DEF WindowReachesBack, Covered, Since, Holds, Due
    <2> QED BY <2>1, <2>2, <2>3 DEF Gapless
  <1>12. CASE Fetched
    <2>1. /\ work' = [at |-> now, txs |-> Covered] /\ began' = now
          /\ UNCHANGED <<now, date, booked, cursor, cached>>
      BY <1>12 DEF Fetched, outside, database, retry
    <2>2. Holds(work')
      BY <1>a, <2>1 DEF Holds, Due, WindowReachesBack
    <2>3. WindowReachesBack' /\ (cached' # None => Holds(cached)') /\ Holds(work)'
      BY <1>a, <2>1, <2>2 DEF WindowReachesBack, Covered, Since, Holds, Due
    <2>4. work'.at >= PreviousFire(began')
      BY <1>0, <2>1, FiresAround
    <2> QED BY <2>3, <2>4 DEF Gapless
  <1>13. CASE FetchFails
    BY <1>13, <1>0, <1>a DEF FetchFails, RecordFailure, outside, database, retry, events, Gapless, WindowReachesBack, Holds, Due,
       Covered, Since, Less, Greater
  <1>14. CASE AuthRequired
    BY <1>14, <1>0, <1>a DEF AuthRequired, RecordFailure, outside,
       database, retry, events, Gapless, WindowReachesBack, Holds, Due, Covered, Since,
       Less, Greater
  <1>15. CASE SubmitFails
    BY <1>15, <1>0, <1>a DEF SubmitFails, RecordFailure, outside, database, retry, events, Gapless, WindowReachesBack, Holds, Due,
       Covered, Since, Less, Greater
  <1>16. CASE SubmitSucceeds
    <2>1. /\ pc = "submit" /\ work.txs \subseteq booked /\ cursor' = now /\ cached' = None
          /\ pc' = "end" /\ UNCHANGED <<now, date, booked>>
      BY <1>16 DEF SubmitSucceeds, ClearRetryState, outside
    <2>2. /\ work.at \in Nat /\ began \in Nat /\ PreviousFire(began) \in Nat
          /\ now <= began + CallTime /\ began < PreviousFire(began) + Period
          /\ work.at >= PreviousFire(began)
      BY <1>0, <1>a, <2>1, FiresAround DEF TypeOK, Cycle, NothingAhead
    <2>3. now + Late <= work.at + Overlap
      BY <1>0, <2>2 DEF OverlapSuffices
    <2>4. \A x \in Tx : Due(x) => date[x] + Overlap >= now
      BY <1>0, <1>a, <2>1, <2>2, <2>3 DEF Holds, Due
    <2>5. WindowReachesBack'
      BY <1>0, <2>1, <2>4 DEF WindowReachesBack, Due, Covered, Since, Less, Greater
    <2> QED BY <2>1, <2>5 DEF Gapless
  <1>17. CASE LoopStops
    BY <1>17, <1>0, <1>a DEF LoopStops, GoDown, ClearRetryState, outside, database,
       retry, events, Gapless, WindowReachesBack, Holds, Due, Covered, Since, Less,
       Greater
  <1>18. CASE Crash
    BY <1>18, <1>0, <1>a DEF Crash, GoDown, ClearRetryState, outside, database, retry,
       events, Gapless, WindowReachesBack, Holds, Due, Covered, Since, Less, Greater
  <1>19. CASE Restart
    BY <1>19, <1>0, <1>a DEF Restart, outside, database, retry, events, Gapless,
       WindowReachesBack, Holds, Due, Covered, Since, Less, Greater
  <1>20. CASE RetryFetch
    BY <1>20, <1>0, <1>a DEF RetryFetch, Notified, ScheduleRetry, ClearRetryState,
       outside, database, retry, events, Gapless, WindowReachesBack, Holds, Due,
       Covered, Since, Less, Greater
  <1>21. CASE AwaitUser
    BY <1>21, <1>0, <1>a DEF AwaitUser, Notified, ScheduleRetry, ClearRetryState,
       outside, database, retry, events, Gapless, WindowReachesBack, Holds, Due,
       Covered, Since, Less, Greater
  <1>22. CASE RetrySubmit
    BY <1>22, <1>0, <1>a DEF RetrySubmit, Notified, ScheduleRetry, ClearRetryState,
       outside, database, retry, events, Gapless, WindowReachesBack, Holds, Due,
       Covered, Since, Less, Greater
  <1> QED BY <1>1, <1>2, <1>3, <1>4, <1>5, <1>6, <1>7, <1>8, <1>9, <1>10, <1>11, <1>12,
         <1>13, <1>14, <1>15, <1>16, <1>17, <1>18, <1>19, <1>20, <1>21, <1>22 DEF Step

-----------------------------------------------------------------------------
(* The invariant of the specification.                                     *)

LEMMA InitKeeps == Init => SchedulerInv
  <1> SUFFICES ASSUME Init PROVE SchedulerInv
    OBVIOUS
  <1>1. TypeOK
    BY SchedulerAssumption DEF Init, TypeOK, NoWork, Cycle
  <1>2. NothingAhead /\ Retrying /\ SleepsUntilFire /\ InTime /\ NothingBetween
    BY DEF Init, Tail, NothingAhead, Retrying, SleepsUntilFire, InTime, NothingBetween, Gapless,
       WindowReachesBack
  <1> QED BY <1>1, <1>2 DEF SchedulerInv

LEMMA NextKeeps ==
  ASSUME SchedulerInv, [Next]_vars
  PROVE  SchedulerInv'
  <1>1. CASE UNCHANGED vars
    BY <1>1 DEF vars, SchedulerInv, TypeOK, NothingAhead, Retrying, SleepsUntilFire, Attended, Seen,
       InTime, NothingBetween, Gapless, WindowReachesBack, Covered, Since, Holds, Due
  <1>2. CASE Next
    <2>1. Step /\ Remember
      BY <1>2 DEF Next
    <2>2. TypeOK' /\ NothingAhead' /\ Retrying'
      BY <2>1, TypeKeeps, AheadKeeps, RetryingKeeps DEF SchedulerInv
    <2>3. SleepsUntilFire' /\ InTime'
      BY <2>1, SleepsKeeps, InTimeKeeps
    <2>4. NothingBetween'
      <3> SUFFICES ASSUME OverlapSuffices, ~outlived' PROVE Gapless'
        BY DEF NothingBetween, OverlapSuffices
      <3> QED BY <2>1, BetweenKeeps
    <2> QED BY <2>2, <2>3, <2>4 DEF SchedulerInv
  <1> QED BY <1>1, <1>2

(* Whatever fails, is paused, requested, stopped or crashes: nothing is     *)
(* recorded ahead of the clock, a retry is due in time, the loop sleeps to  *)
(* the next fire at most, and a cycle at hand holds all that is missing     *)
(* (_run_loop, _attempt_cycle, _schedule_retry).                            *)
THEOREM SchedulerInvariant == Spec => []SchedulerInv
  <1>1. Init => SchedulerInv
    BY InitKeeps
  <1>2. SchedulerInv /\ [Next]_vars => SchedulerInv'
    BY NextKeeps
  <1> QED BY <1>1, <1>2, PTL DEF Spec

(* No transaction falls between two fetches, as long as the overlap exceeds *)
(* what may come up late during a cycle and no retry outlived its fire      *)
(* (compute_since, record_success).                                         *)
THEOREM NothingLostTheorem ==
  ASSUME OverlapSuffices
  PROVE  Spec => []NothingLost
  <1>1. SchedulerInv => NothingLost
    BY DEF SchedulerInv, NothingBetween, Gapless, NothingLost
  <1> QED BY <1>1, SchedulerInvariant, PTL

(* The loop sleeps only after the latest fire has had its attempt, fell     *)
(* into the tail of a cycle, or lay in a pause (_missed_scheduled_fire,     *)
(* _seconds_until_next_wake).                                               *)
THEOREM FiresTheorem == Spec => []FiresAttended
  <1>1. SchedulerInv => FiresAttended
    BY DEF SchedulerInv, SleepsUntilFire, Attended, FiresAttended
  <1> QED BY <1>1, SchedulerInvariant, PTL

(* No wake-up is scheduled for an instant that has passed, unless a retry   *)
(* came due while its cycle was ending or the loop is paused                *)
(* (_seconds_until_next_wake).                                              *)
THEOREM WaitsTheorem == Spec => WaitsAhead
  <1>1. SchedulerInv /\ [Next]_vars =>
          [pc # "wait" /\ pc' = "wait" =>
             \/ target' > now \/ paused
             \/ pc = "end" /\ deadline # None /\ deadline > began]_vars
    <2> SUFFICES ASSUME SchedulerInv, Next, pc # "wait", pc' = "wait", ~paused,
                        ~(pc = "end" /\ deadline # None /\ deadline > began)
                 PROVE  target' > now
      OBVIOUS
    <2>1. target' = WakeAt(deadline)
      BY WaitStarts DEF Next, Loop, EndCycle, Wait
    <2>2. deadline = None
      BY WaitStarts DEF Next, Loop, EndCycle, SchedulerInv, Retrying
    <2>3. now \in Nat
      BY DEF SchedulerInv, TypeOK
    <2> QED BY <2>1, <2>2, <2>3, WakeInTime
  <1> QED BY <1>1, SchedulerInvariant, PTL DEF Spec, WaitsAhead

(* What was fetched and failed before a fire is not taken up again after    *)
(* it, unless the fire came in the tail of the attempt that failed or a     *)
(* pause came upon it (_schedule_retry, _run_loop).                         *)
THEOREM FreshTheorem == Spec => FreshAtFire
  <1>1. SchedulerInv /\ [Next]_vars =>
          [pc = "loop" /\ pc' = "begin" /\ cached # None =>
             \/ Seen(PreviousFire(now))
             \/ skipped # None /\ skipped >= PreviousFire(cached.at)]_vars
    BY DEF SchedulerInv, InTime
  <1> QED BY <1>1, SchedulerInvariant, PTL DEF Spec, FreshAtFire
=============================================================================
