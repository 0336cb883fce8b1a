------------------------- MODULE PausableLoopThread -------------------------
(* A thread that runs a procedure in a loop until it is paused, resumed or     *)
(* finished by the thread that owns it (PausableLoopThread).  The three flags *)
(* are atomic, the mutex belongs to the loop alone, and the owner notifies    *)
(* without holding it.                                                        *)
EXTENDS Naturals

CONSTANTS SleepTimes \* the values of _loop_sleep_time in use

ASSUME SleepTimesAssumption == SleepTimes \subseteq Nat /\ SleepTimes # {}

VARIABLES _pause_requested, _is_paused, _shutdown_flag, _loop_sleep_time,
          position,          \* the loop's position
          owns_lock,   \* whether the unique_lock lk owns _mutex
          owner,       \* what the owner is doing
          held,        \* the owner's last completed call was pause()
          unseen,      \* a resume() the loop has not acted upon yet
          premature,   \* the last pause() began while a resume was unseen
          missed       \* a notification found the loop about to block

loopVars == <<_pause_requested, _is_paused, _shutdown_flag, _loop_sleep_time, position, owns_lock, owner, held, unseen,
              premature, missed>>

flags == <<_pause_requested, _shutdown_flag, _loop_sleep_time>>
ownerVars == <<owner, held, premature, missed>>

InitLoop ==
  /\ _pause_requested = FALSE /\ _is_paused = FALSE /\ _shutdown_flag = FALSE
  /\ _loop_sleep_time \in SleepTimes
  /\ position = "while" /\ owns_lock = FALSE /\ owner = "idle"
  /\ held = FALSE /\ unseen = FALSE /\ premature = FALSE /\ missed = FALSE

Goto(place) == position' = place /\ UNCHANGED <<flags, ownerVars>>

\* while (!_shutdown_flag) { unique_lock lk(_mutex); ...
Enter ==
  /\ position = "while"
  /\ Goto(CASE _shutdown_flag -> "finished" [] _loop_sleep_time > 0 -> "wait_for" [] OTHER -> "slept")
  /\ owns_lock' = ~_shutdown_flag
  /\ UNCHANGED <<_is_paused, unseen>>

\* wait_for evaluates its predicate and then blocks until it is notified or the time is over.
Sleep ==
  /\ position = "wait_for"
  /\ Goto(IF _shutdown_flag THEN "slept" ELSE "sleeping")
  /\ UNCHANGED <<_is_paused, owns_lock, unseen>>

Timeout ==
  /\ position = "sleeping"
  /\ Goto("slept")
  /\ UNCHANGED <<_is_paused, owns_lock, unseen>>

ShutDownAfterSleep ==
  /\ position = "slept"
  /\ Goto(IF _shutdown_flag THEN "finished" ELSE "test")
  /\ UNCHANGED <<_is_paused, owns_lock, unseen>>

\* while (_pause_requested) { _is_paused = true; ...
TestPause ==
  /\ position = "test"
  /\ Goto(IF _pause_requested THEN "pausing" ELSE "resumed")
  /\ UNCHANGED <<_is_paused, owns_lock, unseen>>

SetPaused ==
  /\ position = "pausing"
  /\ _is_paused' = TRUE
  /\ Goto("wait")
  /\ UNCHANGED <<owns_lock, unseen>>

\* _cv.wait(lk, predicate): the predicate is evaluated, and only then the thread blocks.  Blocking with a lock that
\* is not owned is undefined.
Wait ==
  /\ position = "wait"
  /\ Goto(IF ~_pause_requested \/ _shutdown_flag THEN "woken" ELSE "blocking")
  /\ UNCHANGED <<_is_paused, owns_lock, unseen>>

Block ==
  /\ position = "blocking"
  /\ Goto(IF owns_lock THEN "blocked" ELSE "undefined")
  /\ UNCHANGED <<_is_paused, owns_lock, unseen>>

\* A condition variable may wake without a notification.
SpuriousWakeup ==
  /\ position = "blocked"
  /\ Goto("wait")
  /\ UNCHANGED <<_is_paused, owns_lock, unseen>>

\* if (_shutdown_flag) return; lk.unlock(), which throws when the lock is not owned.
Unlock ==
  /\ position = "woken"
  /\ Goto(CASE _shutdown_flag -> "finished" [] owns_lock -> "test" [] OTHER -> "terminated")
  /\ owns_lock' = FALSE
  /\ UNCHANGED <<_is_paused, unseen>>

ClearPaused ==
  /\ position = "resumed"
  /\ _is_paused' = FALSE
  /\ unseen' = FALSE
  /\ Goto("loop_func")
  /\ UNCHANGED owns_lock

\* loop_func(counter++); the lock is released at the end of the iteration.
loop_func ==
  /\ position = "loop_func"
  /\ Goto("while")
  /\ owns_lock' = FALSE
  /\ UNCHANGED <<_is_paused, unseen>>

LoopStep == Enter \/ Sleep \/ Timeout \/ ShutDownAfterSleep \/ TestPause \/ SetPaused \/ Wait \/ Block \/ Unlock \/ ClearPaused
            \/ loop_func

\* The process ends when the exception of unlock() leaves the thread, or in undefined behaviour.
Alive == position \notin {"undefined", "terminated"}

\* _cv.notify_one(): only a thread that has blocked is woken.
notify_one ==
  /\ position' = CASE position = "blocked" -> "wait" [] position = "sleeping" -> "wait_for" [] OTHER -> position
  /\ missed' = (position = "blocking")
  /\ UNCHANGED <<_pause_requested, _is_paused, _shutdown_flag, _loop_sleep_time, owns_lock, unseen, premature>>

pause ==
  /\ Alive /\ owner = "idle"
  /\ _pause_requested' = TRUE
  /\ owner' = "pausing"
  /\ held' = FALSE
  /\ premature' = unseen
  /\ UNCHANGED <<_is_paused, _shutdown_flag, _loop_sleep_time, position, owns_lock, unseen, missed>>

\* while (!_is_paused) {}
Paused ==
  /\ Alive /\ owner = "pausing" /\ _is_paused
  /\ owner' = "idle"
  /\ held' = TRUE
  /\ UNCHANGED <<flags, _is_paused, position, owns_lock, unseen, premature, missed>>

resume ==
  /\ Alive /\ owner = "idle"
  /\ _pause_requested' = FALSE
  /\ owner' = "resuming"
  /\ held' = FALSE
  /\ unseen' = TRUE
  /\ UNCHANGED <<_is_paused, _shutdown_flag, _loop_sleep_time, position, owns_lock, premature, missed>>

\* Mutant: nobody is notified.
ResumedSilently ==
  /\ Alive /\ owner = "resuming" /\ owner' = "idle"
  /\ UNCHANGED <<flags, _is_paused, position, owns_lock, held, unseen, premature, missed>>

Resumed == Alive /\ owner = "resuming" /\ owner' = "idle" /\ notify_one /\ UNCHANGED held

set_loop_sleep_time ==
  /\ Alive /\ owner = "idle"
  /\ _loop_sleep_time' \in SleepTimes
  /\ UNCHANGED <<_pause_requested, _is_paused, _shutdown_flag, position, owns_lock, owner, held, unseen, premature, missed>>

\* The destructor: both flags, the notification, and join().
Destroy ==
  /\ Alive /\ owner = "idle"
  /\ _pause_requested' = TRUE
  /\ owner' = "destroying"
  /\ held' = FALSE
  /\ UNCHANGED <<_is_paused, _shutdown_flag, _loop_sleep_time, position, owns_lock, unseen, premature, missed>>

ShutDown ==
  /\ Alive /\ owner = "destroying"
  /\ _shutdown_flag' = TRUE
  /\ owner' = "notifying"
  /\ UNCHANGED <<_pause_requested, _is_paused, _loop_sleep_time, position, owns_lock, held, unseen, premature, missed>>

NotifyShutDown == Alive /\ owner = "notifying" /\ owner' = "joining" /\ notify_one /\ UNCHANGED held

Join ==
  /\ owner = "joining" /\ position = "finished"
  /\ owner' = "gone"
  /\ UNCHANGED <<flags, _is_paused, position, owns_lock, held, unseen, premature, missed>>

OwnerStep == Paused \/ Resumed \/ ShutDown \/ NotifyShutDown \/ Join

NextLoop == LoopStep \/ SpuriousWakeup \/ OwnerStep \/ pause \/ resume \/ set_loop_sleep_time \/ Destroy

\* Both threads keep running and the procedure returns; nobody has to call anything, and no wakeup is promised that
\* nobody asked for.  The time wait_for ends at does not move when it is notified, so that it passes.
FairLoop == WF_loopVars(LoopStep) /\ SF_loopVars(Timeout) /\ WF_loopVars(OwnerStep)

LoopSpec == InitLoop /\ [][NextLoop]_loopVars /\ FairLoop
=============================================================================
