----------------------------- MODULE RunLoopTimer -----------------------------
(***************************************************************************)
(* The timers of a run loop of CFRunLoop.c: each mode's list of timers,    *)
(* sorted by the time they fire, the port that is armed for the next of    *)
(* them, and the operations of clients, also out of a timer's callout and  *)
(* from other threads.                                                     *)
(*                                                                         *)
(* Whoever holds the run loop's lock is not interrupted: the loop's thread *)
(* gives it up while it waits and in callouts.  A timer's own lock is held *)
(* for single steps.  Time is counted up to MaxTime.                       *)
(***************************************************************************)
EXTENDS Integers, FiniteSets, Sequences, SequencesExt

CONSTANTS
  Modes, Timers,
  Interval,       \* rlt->_interval, 0 for a timer that fires once
  Tolerance,      \* rlt->_tolerance
  AddTo,          \* the modes that clients add a timer to
  Movable,        \* the timers whose fire date clients set
  EarlyFires,     \* the kernel's timer may expire early
  AddsInvalid,    \* a timer may be invalidated while it is being added
  MaxTime,        \* bounds the clock
  MaxDepth,       \* bounds the runs inside one another
  MaxDone         \* bounds the operations of clients

ASSUME TimersAssumption ==
  /\ IsFiniteSet(Modes) /\ IsFiniteSet(Timers)
  /\ {Interval, Tolerance} \subseteq [Timers -> Nat]
  /\ AddTo \in [Timers -> SUBSET Modes]
  /\ Movable \subseteq Timers
  /\ {EarlyFires, AddsInvalid} \subseteq BOOLEAN
ASSUME BoundsAssumption == {MaxTime, MaxDepth, MaxDone} \subseteq Nat

VARIABLES
  now,            \* mach_absolute_time()
  fire,           \* rlt->_fireTSR
  valid,          \* __CFIsValid
  firing,         \* the timers that __CFRunLoopTimerIsFiring
  timers,         \* rlm->_timers
  deadline,       \* rlm->_timerSoftDeadline and _timerHardDeadline
  armed,          \* when the kernel's timer of a mode expires
  message,        \* the modes whose timer port has a message
  stack,          \* the runs inside one another, the innermost last
  setter,         \* a CFRunLoopTimerSetNextFireDate about to lock the loop
  adding,         \* the timers and modes of the CFRunLoopAddTimers about to
  leaving,        \* the modes that a CFRunLoopTimerInvalidate about to copied
  done            \* how many operations clients did

ports == <<deadline, armed>>
client == <<setter, adding, leaving, done>>
vars == <<now, fire, valid, firing, timers, ports, message, stack, client>>

Never == -1       \* UINT64_MAX: no deadline
NoDeadline == [soft |-> Never, hard |-> Never]
NoSetter == [timer |-> Never, modes |-> {}, date |-> Never]

Init ==
  /\ now = 0
  /\ fire = [t \in Timers |-> 1]
  /\ valid = [t \in Timers |-> TRUE]
  /\ firing = {}
  /\ timers = [m \in Modes |-> << >>]
  /\ deadline = [m \in Modes |-> NoDeadline]
  /\ armed = [m \in Modes |-> Never]
  /\ message = {}
  /\ stack = << >>
  /\ setter = NoSetter
  /\ adding = {}
  /\ leaving = [t \in Timers |-> {}]
  /\ done = 0

Running == stack # << >>
depth == Len(stack)
top == stack[depth]

Unlocked == Running => top.pc \in {"wait", "callout"}

\* rlt->_rlModes; rlt->_runLoop is NULL when there is none.
ModesOf(t) == {m \in Modes : Contains(timers[m], t)}

-----------------------------------------------------------------------------
(* The list and the kernel's timer of a mode *)

\* 1 << n
Shifted[n \in Nat] == IF n = 0 THEN 1 ELSE 2 * Shifted[n - 1]

\* flsl: the number of the highest bit that is set, from 1.
flsl(n) ==
  CHOOSE b \in 0..n : Shifted[b] > n /\ \A c \in 0..(b - 1) : Shifted[c] <= n

\* __CFRunLoopInsertionIndexInTimerArray: the place, from 0, of a time in a
\* sorted list of timers, after probes with steps from 1 << bits down to 1 and
\* a last one with step 0.  The short cuts for long lists are left out.
InsertionIndex(list, times, time) ==
  LET bits == flsl(Len(list))
      Leq(i) == i < Len(list) /\ times[list[i + 1]] <= time
      idx[probes \in 0..(bits + 1)] ==
        IF probes = 0 THEN 0
        ELSE LET before == idx[probes - 1]
                 test == before + Shifted[bits + 1 - probes]
             IN IF Leq(test) THEN test ELSE before
      last == idx[bits + 1]
  IN IF Leq(last) THEN last + 1 ELSE last

Least(S) == IF S = {} THEN Never ELSE CHOOSE x \in S : \A y \in S : x <= y

NextDeadline(m) ==
  LET waiting == ToSet(timers[m]) \ firing
  IN [soft |-> Least({fire[t] : t \in waiting}),
      hard |-> Least({fire[t] + Tolerance[t] : t \in waiting})]

\* Mutant: the deadlines are not forgotten before a timer is called.
ArmIfNew(ms, afresh) ==
  /\ deadline' = [m \in Modes |->
                    IF m \in ms THEN NextDeadline(m)' ELSE deadline[m]]
  /\ armed' = [m \in Modes |->
                 IF m \in ms /\ deadline'[m] # deadline[m]
                 THEN deadline'[m].soft ELSE armed[m]]

\* __CFArmNextTimerInMode for some modes, after the lists and times changed:
\* the kernel's timer is armed only if a deadline is another than before or,
\* afresh, if that was forgotten.  In a sorted list the scan ends with the
\* least deadlines; the timers that fire are discounted.
ArmNextTimer(ms, afresh) ==
  /\ deadline' = [m \in Modes |->
                    IF m \in ms THEN NextDeadline(m)' ELSE deadline[m]]
  /\ armed' = [m \in Modes |->
                 IF m \in ms /\ (afresh \/ deadline'[m] # deadline[m])
                 THEN deadline'[m].soft ELSE armed[m]]

Insert(list, t, times) ==
  InsertAt(list, InsertionIndex(list, times, times[t]) + 1, t)

\* CFArrayGetFirstIndexOfValue and CFArrayRemoveValueAtIndex.
Without(list, t) ==
  LET first == Least({i \in DOMAIN list : list[i] = t})
  IN IF ~ Contains(list, t) THEN list
     ELSE [i \in 1..(Len(list) - 1) |->
             IF i < first THEN list[i] ELSE list[i + 1]]

\* __CFRepositionTimerInMode, for each of some modes, after t's time changed.
Reposition(t, ms) ==
  /\ timers' = [m \in Modes |->
                  IF m \in ms \cap ModesOf(t)
                  THEN Insert(Without(timers[m], t), t, fire')
                  ELSE timers[m]]
  /\ ArmNextTimer(ms \cap ModesOf(t), FALSE)

-----------------------------------------------------------------------------
(* What clients do, out of callouts and on other threads *)

Operation == done < MaxDone /\ done' = done + 1

\* CFRunLoopAddTimer looks whether the timer is valid, ...
CFRunLoopAddTimer(t, m) ==
  /\ Operation
  /\ valid[t] /\ m \in AddTo[t] /\ <<t, m>> \notin adding
  /\ adding' = adding \cup {<<t, m>>}
  /\ UNCHANGED <<now, fire, valid, firing, timers, ports, message, stack,
                 setter, leaving>>

\* ... locks the run loop, and puts it into the list, valid or not.
AddLocks(t, m) ==
  /\ <<t, m>> \in adding /\ Unlocked
  /\ adding' = adding \ {<<t, m>>}
  /\ UNCHANGED <<now, fire, valid, firing, message, stack, setter, leaving,
                 done>>
  /\ IF m \in ModesOf(t) THEN UNCHANGED <<timers, ports>>
     ELSE /\ timers' = [timers EXCEPT ![m] = Insert(@, t, fire)]
          /\ ArmNextTimer({m}, FALSE)

CFRunLoopRemoveTimer(t, m) ==
  /\ Unlocked
  /\ Operation
  /\ m \in ModesOf(t)
  /\ timers' = [timers EXCEPT ![m] = Without(@, t)]
  /\ UNCHANGED <<now, fire, valid, firing, message, stack, setter, adding,
                 leaving>>
  /\ ArmNextTimer({m}, FALSE)

\* CFRunLoopTimerSetNextFireDate copies the timer's modes, ...
CFRunLoopTimerSetNextFireDate(t, date) ==
  /\ setter = NoSetter
  /\ Operation
  /\ valid[t] /\ t \in Movable /\ date >= now
  /\ IF ModesOf(t) = {}
     THEN /\ fire' = [fire EXCEPT ![t] = date]
          /\ UNCHANGED setter
     ELSE /\ setter' = [timer |-> t, modes |-> ModesOf(t), date |-> date]
          /\ UNCHANGED fire
  /\ UNCHANGED <<now, valid, firing, timers, ports, message, stack, adding,
                 leaving>>

\* ... locks the run loop, and moves the timer in each of them.
SetterLocks ==
  /\ setter # NoSetter /\ Unlocked
  /\ fire' = [fire EXCEPT ![setter.timer] = setter.date]
  /\ setter' = NoSetter
  /\ UNCHANGED <<now, valid, firing, message, stack, adding, leaving, done>>
  /\ Reposition(setter.timer, setter.modes)

\* CFRunLoopTimerInvalidate marks the timer and copies its modes, ...
Invalidate(t) ==
  /\ valid[t]
  /\ AddsInvalid \/ \A m \in Modes : <<t, m>> \notin adding
  /\ valid' = [valid EXCEPT ![t] = FALSE]
  /\ leaving' = [leaving EXCEPT ![t] = ModesOf(t)]
  /\ UNCHANGED <<now, fire, firing, timers, ports, message, stack, setter,
                 adding>>

CFRunLoopTimerInvalidate(t) == Operation /\ Invalidate(t)

\* ... locks the run loop, and removes it from those it copied.
InvalidateLocks(t) ==
  /\ leaving[t] # {} /\ Unlocked
  /\ leaving' = [leaving EXCEPT ![t] = {}]
  /\ timers' = [m \in Modes |-> IF m \in leaving[t] THEN Without(timers[m], t)
                                ELSE timers[m]]
  /\ UNCHANGED <<now, fire, valid, firing, message, stack, setter, adding,
                 done>>
  /\ ArmNextTimer(leaving[t] \cap ModesOf(t), FALSE)

-----------------------------------------------------------------------------
(* The clock and the kernel's timers *)

Tick ==
  /\ now < MaxTime
  /\ now' = now + 1
  /\ UNCHANGED <<fire, valid, firing, timers, ports, message, stack, client>>

Expires(m) ==
  /\ armed[m] # Never
  /\ armed[m] <= now \/ EarlyFires
  /\ armed' = [armed EXCEPT ![m] = Never]
  /\ message' = message \cup {m}
  /\ UNCHANGED <<now, fire, valid, firing, timers, deadline, stack, client>>

-----------------------------------------------------------------------------
(* The run loop *)

\* A run, also out of a timer's callout, in a mode that is not empty.
CFRunLoopRunSpecific(m) ==
  /\ Running => top.pc = "callout"
  /\ depth < MaxDepth
  /\ timers[m] # << >>
  /\ stack' = Append(stack, [mode |-> m, pc |-> "wait", batch |-> << >>,
                             timer |-> Never, old |-> Never,
                             handled |-> FALSE])
  /\ UNCHANGED <<now, fire, valid, firing, timers, ports, message, client>>

\* It returns, for one of the reasons that RunLoop models.
Leave ==
  /\ Running /\ top.pc = "wait"
  /\ stack' = Front(stack)
  /\ UNCHANGED <<now, fire, valid, firing, timers, ports, message, client>>

\* Mutant: a timer whose time is just now is left for later.
DueBefore(t) == valid[t] /\ t \notin firing /\ fire[t] < now

Due(t) == valid[t] /\ t \notin firing /\ fire[t] <= now

\* The message of the timer port; __CFRunLoopDoTimers collects the timers
\* that are due.
CollectTimers ==
  /\ Running /\ top.pc = "wait" /\ top.mode \in message
  /\ message' = message \ {top.mode}
  /\ stack' = [stack EXCEPT
       ![depth].pc = "timers",
       ![depth].handled = FALSE,
       ![depth].batch = SelectSeq(timers[top.mode], LAMBDA t : Due(t))]
  /\ UNCHANGED <<now, fire, valid, firing, timers, ports, client>>

\* __CFRunLoopDoTimer as far as the callout.  The deadlines are forgotten, in
\* case those of the next timer are the same.
DoTimer ==
  LET t == Head(top.batch)
  IN /\ Running /\ top.pc = "timers" /\ top.batch # << >>
     /\ UNCHANGED <<now, fire, valid, timers, message, client>>
     /\ IF Due(t) /\ ModesOf(t) # {}
        THEN /\ firing' = firing \cup {t}
             /\ ArmNextTimer({top.mode}, TRUE)
             /\ stack' = [stack EXCEPT
                  ![depth].pc = "callout", ![depth].batch = Tail(@),
                  ![depth].timer = t, ![depth].old = fire[t],
                  ![depth].handled = TRUE]
        ELSE /\ stack' = [stack EXCEPT ![depth].batch = Tail(@)]
             /\ UNCHANGED <<firing, ports>>

\* A timer that does not repeat is invalidated after its callout.
InvalidateExpired ==
  /\ Running /\ top.pc = "callout" /\ Interval[top.timer] = 0
  /\ Invalidate(top.timer)
  /\ UNCHANGED done

\* The first multiple of the interval after the old time that is not over.
NextFire(old, interval) ==
  CHOOSE next \in (now + 1)..(now + interval) : (next - old) % interval = 0

\* Mutant: only the one that runs.
OnlyHere(rlm) == {rlm}

\* The modes in whose lists a timer moves when it repeats.
RepeatsIn(rlm) == Modes

\* The rest of __CFRunLoopDoTimer: a date set meanwhile is honoured if it is
\* later; otherwise the timer repeats and moves in each of its modes.
CalloutReturns ==
  LET t == top.timer
  IN /\ Running /\ top.pc = "callout"
     /\ Interval[t] = 0 => ~ valid[t]
     /\ firing' = firing \ {t}
     /\ stack' = [stack EXCEPT ![depth].pc = "timers",
                               ![depth].timer = Never, ![depth].old = Never]
     /\ UNCHANGED <<now, valid, message, client>>
     /\ IF ~ valid[t]
        THEN UNCHANGED <<fire, timers, ports>>
        ELSE IF top.old < fire[t]
        THEN /\ UNCHANGED <<fire, timers>>
             /\ ArmNextTimer({top.mode}, FALSE)
        ELSE /\ fire' = [fire EXCEPT ![t] = NextFire(top.old, Interval[t])]
             /\ Reposition(t, RepeatsIn(top.mode))

\* "Re-arm the next timer, because we apparently fired early"
TimersDone ==
  /\ Running /\ top.pc = "timers" /\ top.batch = << >>
  /\ stack' = [stack EXCEPT ![depth].pc = "wait"]
  /\ UNCHANGED <<now, fire, valid, firing, timers, message, client>>
  /\ IF top.handled THEN UNCHANGED ports
     ELSE ArmNextTimer({top.mode}, FALSE)

-----------------------------------------------------------------------------
LoopStep ==
  \/ CollectTimers \/ DoTimer \/ InvalidateExpired \/ CalloutReturns
  \/ TimersDone

Kernel == \E m \in Modes : Expires(m)
Locked ==
  \/ SetterLocks
  \/ \E t \in Timers, m \in Modes : AddLocks(t, m)
  \/ \E t \in Timers : InvalidateLocks(t)

Next ==
  \/ \E t \in Timers, m \in Modes :
       CFRunLoopAddTimer(t, m) \/ CFRunLoopRemoveTimer(t, m)
  \/ \E t \in Timers, date \in 0..MaxTime :
       CFRunLoopTimerSetNextFireDate(t, date)
  \/ \E t \in Timers : CFRunLoopTimerInvalidate(t)
  \/ Locked \/ Tick \/ Kernel
  \/ \E m \in Modes : CFRunLoopRunSpecific(m)
  \/ Leave \/ LoopStep

Spec == Init /\ [][Next]_vars

\* Callouts return, operations end, and the kernel's timers expire.
FairSpec ==
  /\ Spec
  /\ WF_vars(LoopStep)
  /\ WF_vars(Kernel)
  /\ WF_vars(SetterLocks)
  /\ \A t \in Timers, m \in Modes : WF_vars(AddLocks(t, m))
  /\ \A t \in Timers : WF_vars(InvalidateLocks(t))

-----------------------------------------------------------------------------
(* Each mode's timers are in the order in which they fire, as the binary   *)
(* search for a timer's place and the scan for the next one require,       *)
(* although a timer's time changes while it is in the lists of several     *)
(* modes.                                                                  *)
ListsAreSorted ==
  \A m \in Modes : \A i, j \in DOMAIN timers[m] :
    i < j => fire[timers[m][i]] <= fire[timers[m][j]]

(* No timer is forgotten: for every mode, each of its timers that does not *)
(* fire just now is due after the kernel's timer expires, or a message     *)
(* waits for the loop, or an invalid timer is about to be removed -         *)
(* although the kernel's timer is armed again only when a deadline         *)
(* changes.                                                                *)
Attended(m) ==
  \/ m \in message
  \/ \E d \in 1..depth : stack[d].mode = m /\ stack[d].pc = "timers"
  \/ \E t \in ToSet(timers[m]) : m \in leaving[t]

NoTimerForgotten ==
  \A m \in Modes : ~ Attended(m) =>
    \A t \in ToSet(timers[m]) \ firing :
      armed[m] # Never /\ armed[m] <= fire[t] + Tolerance[t]

(* "Need to redo the min timer calculation in case rlt should now be that  *)
(* timer instead of whatever was chosen" (__CFRunLoopDoTimer): whenever a  *)
(* mode has a timer that does not fire just now, its kernel timer is armed *)
(* - unless a message waits or the run is about to arm it.  This includes  *)
(* timers with the same deadlines: "we reset these values so that the arm  *)
(* next timer code can correctly find the next timer in the list and arm   *)
(* the underlying timer" (there, too).                                     *)
KernelTimerIsArmed ==
  \A m \in Modes : ~ Attended(m) /\ ToSet(timers[m]) \ firing # {} =>
    armed[m] # Never

(* A timer that is due in the mode that runs is called, unless the run     *)
(* returns or the timer is moved or removed.  "if we do not re-arm it, then *)
(* no timers will ever be serviced again unless something adjusts the      *)
(* timer list (e.g. adding or removing timers).  The fix for the issue is  *)
(* to reset the timer here if CFRunLoopDoTimers did not handle a timer     *)
(* itself" (__CFRunLoopRun).                                               *)
IsDue(d, t) ==
  /\ depth = d
  /\ Contains(timers[stack[d].mode], t)
  /\ valid[t] /\ t \notin firing /\ fire[t] <= now

DueTimersFire ==
  \A d \in 1..MaxDepth, t \in Timers : IsDue(d, t) ~> ~ IsDue(d, t)

=============================================================================
