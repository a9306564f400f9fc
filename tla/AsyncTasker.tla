---------------------------- MODULE AsyncTasker ----------------------------
(***************************************************************************)
(* async_tasker: the job queue of a component and its pool of timers, as   *)
(* operators on the values the component keeps.  Jobs posted to it run in  *)
(* the order posted, one at a time, on its one thread; a timer that expires *)
(* runs its function on the same thread, in any order with the jobs.       *)
(*                                                                         *)
(* The timers are a record: those in _active_timers, those in              *)
(* _expired_timers (first to be reused first) and how many were ever made. *)
(***************************************************************************)
EXTENDS Naturals, Sequences

CONSTANT MaxTimerCount   \* _max_timer_count: expired timers kept for reuse

ASSUME MaxTimerAssumption == MaxTimerCount \in Nat

NoTimer == 0

NoTimers == [active |-> {}, expired |-> <<>>, made |-> 0]

TimersType(n) == [active : SUBSET (1 .. n), expired : Seq(1 .. n), made : 0 .. n]

\* create_get_timer(): the timer it arms, and the timers after it.
TimerToGet(timers) == IF timers.expired = <<>> THEN timers.made + 1 ELSE Head(timers.expired)

CreateGetTimer(timers) ==
  IF timers.expired = <<>>
    THEN [timers EXCEPT !.made = @ + 1, !.active = @ \cup {TimerToGet(timers)}]
    ELSE [timers EXCEPT !.expired = Tail(@), !.active = @ \cup {TimerToGet(timers)}]

\* Mutant of HandleTimeout: the timer stays among the active ones.
HandleTimeoutActive(timers, timer) ==
  IF Len(timers.expired) < MaxTimerCount
    THEN [timers EXCEPT !.expired = Append(@, timer)]
    ELSE timers

\* handle_timeout(): the timer is retired before the function is called, so
\* the function may be given the same timer again.
HandleTimeout(timers, timer) ==
  LET retired == [timers EXCEPT !.active = @ \ {timer}]
  IN IF Len(timers.expired) < MaxTimerCount
       THEN [retired EXCEPT !.expired = Append(@, timer)]
       ELSE retired

is_active_timer(timers, timer) == timer \in timers.active
=============================================================================
