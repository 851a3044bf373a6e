------------------------------- MODULE RunLoop -------------------------------
(***************************************************************************)
(* A run loop of CFRunLoop.c: CFRunLoopRunSpecific and __CFRunLoopRun with *)
(* their version 0 sources, blocks, the port of a version 1 source, the    *)
(* wake up port, stopping and timing out, and runs nested in callouts.     *)
(*                                                                         *)
(* The loop's thread holds rl's lock except in callouts and while it       *)
(* waits for a message; only then do other threads, and the callouts       *)
(* themselves, change the loop.  Timers are in RunLoopTimer.  The loop is  *)
(* not the main thread's: it does not serve the main dispatch queue.       *)
(***************************************************************************)
EXTENDS Integers, FiniteSets, Sequences, SequencesExt

CONSTANTS
  Modes,
  Sources,        \* version 0 sources
  ModeSources,    \* rlm->_sources0
  PortModes,      \* the modes with a version 1 source
  NestFrom,       \* the callouts that run the loop again
  MaxDepth,       \* bounds the runs inside one another
  MaxDone,        \* bounds the operations that others do to the loop
  MaxWakers       \* bounds the threads between an operation and its wake up

ASSUME ModesAssumption ==
  /\ IsFiniteSet(Modes)
  /\ ModeSources \in [Modes -> SUBSET Sources]
  /\ PortModes \subseteq Modes
ASSUME BoundsAssumption == {MaxDepth, MaxDone, MaxWakers} \subseteq Nat

VARIABLES
  stack,          \* the runs inside one another, the innermost last
  signalled,      \* __CFRunLoopSourceIsSignaled
  blocks,         \* rl->_blocks_head .. _blocks_tail
  wakeUp,         \* a message is queued on rl->_wakeUpPort
  ports,          \* the modes whose port has a message
  stoppedModes,   \* rlm->_stopped
  wakers,         \* how many threads are about to call CFRunLoopWakeUp
  done,           \* how many operations were done
  owed            \* ghost: sources signalled and not performed since

events == <<signalled, owed, wakeUp, ports, stoppedModes, wakers, done>>
vars == <<stack, blocks, events>>

Observers == {"entry", "beforeSources", "beforeWaiting", "afterWaiting", "exit"}
Callouts == Observers \cup {"block", "source0", "source1"}

ASSUME NestAssumption == NestFrom \subseteq Callouts

\* The locals of a run and its _per_run_data (stopped, ignoreWakeUps).
Run(m, stopAfterHandle) ==
  [mode |-> m, stopAfterHandle |-> stopAfterHandle, term |-> "ahead",
   pc |-> "entry", stopped |-> FALSE, ignoreWakeUps |-> FALSE,
   handled |-> FALSE, poll |-> FALSE, live |-> "none",
   after |-> "none",    \* where __CFRunLoopDoBlocks returns to
   items |-> << >>,     \* the blocks it has taken off the run loop
   now |-> 0,           \* the block that runs
   sources |-> {}]      \* the sources that __CFRunLoopDoSources0 collected

Init ==
  /\ stack = << >>
  /\ signalled = {}
  /\ blocks = << >>
  /\ done = 0
  /\ owed = {}
  /\ wakeUp = FALSE
  /\ ports = {}
  /\ stoppedModes = {}
  /\ wakers = 0

Running == stack # << >>
depth == Len(stack)
top == stack[depth]

\* rl's lock is free.
Unlocked == Running => top.pc \in Callouts \cup {"wait"}

\* An operation whose client wakes the loop next.
Operation ==
  /\ Unlocked
  /\ done < MaxDone /\ wakers < MaxWakers
  /\ done' = done + 1
  /\ wakers' = wakers + 1

Goto(label) == stack' = [stack EXCEPT ![depth].pc = label]

-----------------------------------------------------------------------------
(* What other threads, and the callouts, do to the loop *)

\* A signal, a message and the passing of time need not wait for the lock, but
\* between two releases of it the loop reads what they change only once.
\* CFRunLoopSourceSignal, by a client that calls CFRunLoopWakeUp next.
CFRunLoopSourceSignal(s) ==
  /\ Operation
  /\ signalled' = signalled \cup {s}
  /\ owed' = owed \cup {s}
  /\ UNCHANGED <<stack, blocks, wakeUp, ports, stoppedModes>>

\* CFRunLoopPerformBlock for a set of modes; the client wakes the loop.
CFRunLoopPerformBlock(ms) ==
  /\ Operation
  /\ blocks' = Append(blocks, [id |-> done', modes |-> ms])
  /\ UNCHANGED <<stack, signalled, owed, wakeUp, ports, stoppedModes>>

\* Mutant: the loop is not woken.
StopQuietly ==
  /\ Running /\ Unlocked
  /\ done < MaxDone
  /\ done' = done + 1
  /\ stack' = [stack EXCEPT ![depth].stopped = TRUE]
  /\ UNCHANGED <<blocks, signalled, owed, wakeUp, ports, stoppedModes, wakers>>

\* CFRunLoopStop marks the innermost run and wakes it.
CFRunLoopStop ==
  /\ Running
  /\ Operation
  /\ stack' = [stack EXCEPT ![depth].stopped = TRUE]
  /\ UNCHANGED <<blocks, signalled, owed, wakeUp, ports, stoppedModes>>

CFRunLoopStopMode(m) ==
  /\ Operation
  /\ stoppedModes' = stoppedModes \cup {m}
  /\ UNCHANGED <<stack, blocks, signalled, owed, wakeUp, ports>>

\* The port's queue holds one message: another one changes nothing.  A run
\* that ignores wake ups is awake and looks at everything before it sleeps.
CFRunLoopWakeUp ==
  /\ Unlocked
  /\ wakers > 0
  /\ wakers' = wakers - 1
  /\ wakeUp' = (wakeUp \/ ~ (Running /\ top.ignoreWakeUps))
  /\ UNCHANGED <<stack, blocks, signalled, owed, ports, stoppedModes, done>>

\* A message for the version 1 source of a mode.
Message(m) ==
  /\ Unlocked
  /\ m \in PortModes
  /\ ports' = ports \cup {m}
  /\ UNCHANGED <<stack, blocks, signalled, owed, wakeUp, stoppedModes>>
  /\ UNCHANGED <<wakers, done>>

\* The time of run d is over: __CFRunLoopTimeout sets termTSR to zero and wakes
\* the loop.  For a run without end that never happens.
CFRunLoopTimeout(d) ==
  /\ Operation
  /\ stack[d].term = "ahead"
  /\ stack' = [stack EXCEPT ![d].term = "zero"]
  /\ UNCHANGED <<blocks, signalled, owed, wakeUp, ports, stoppedModes>>

-----------------------------------------------------------------------------
(* CFRunLoopRunSpecific *)

\* Nothing in the mode: neither a source nor a block that it would run.
ModeIsEmpty(m) ==
  /\ ModeSources[m] = {} /\ m \notin PortModes
  /\ \A i \in DOMAIN blocks : m \notin blocks[i].modes

\* Mutant: wake ups stay ignored.
TurnDeaf(run) == [run EXCEPT !.pc = "beforeSources", !.handled = FALSE]

\* A turn of the loop begins: wake ups are heeded again.
Turn(run) == [run EXCEPT !.pc = "beforeSources", !.ignoreWakeUps = FALSE,
                         !.handled = FALSE]

CFRunLoopRunSpecific(m, stopAfterHandle) ==
  /\ Running => top.pc \in NestFrom
  /\ depth < MaxDepth
  /\ ~ ModeIsEmpty(m)
  /\ stack' = Append(stack, Run(m, stopAfterHandle))
  /\ UNCHANGED <<blocks, events>>

\* After the entry observers: a stop that came meanwhile ends the run.
Entered ==
  LET m == top.mode
      stop == top.stopped \/ m \in stoppedModes
  IN /\ Running /\ top.pc = "entry"
     /\ stack' = [stack EXCEPT ![depth] =
                    IF stop THEN [@ EXCEPT !.pc = "exit", !.stopped = FALSE]
                    ELSE Turn(@)]
     /\ stoppedModes' = IF top.stopped THEN stoppedModes
                        ELSE stoppedModes \ {m}
     /\ UNCHANGED <<blocks, signalled, owed, wakeUp, ports, wakers, done>>

\* After the exit observers the per run data is popped, with its stop.
Exited ==
  /\ Running /\ top.pc = "exit"
  /\ stack' = Front(stack)
  /\ UNCHANGED <<blocks, events>>

-----------------------------------------------------------------------------
(* One turn of __CFRunLoopRun *)

\* __CFRunLoopDoBlocks takes the whole list off the run loop, ...
DoBlocks(then) ==
  /\ stack' = [stack EXCEPT ![depth].pc = "nextBlock",
                            ![depth].after = then,
                            ![depth].items = blocks]
  /\ blocks' = << >>

\* The observers of kCFRunLoopBeforeTimers and BeforeSources are one callout.
DoBlocksFirst ==
  /\ Running /\ top.pc = "beforeSources"
  /\ DoBlocks("sources0")
  /\ UNCHANGED events

\* ... runs the blocks of its mode, ...
RunsHere == {i \in DOMAIN top.items : top.mode \in top.items[i].modes}

NextBlock ==
  /\ Running /\ top.pc = "nextBlock"
  /\ \E i \in RunsHere :
       /\ \A j \in RunsHere : i <= j
       /\ stack' = [stack EXCEPT ![depth].pc = "block",
                                 ![depth].now = top.items[i].id,
                                 ![depth].items = RemoveAt(@, i)]
  /\ UNCHANGED <<blocks, events>>

BlockReturns ==
  /\ Running /\ top.pc = "block"
  /\ stack' = [stack EXCEPT ![depth].pc = "nextBlock", ![depth].now = 0]
  /\ UNCHANGED <<blocks, events>>

\* Mutant: behind those added meanwhile.
PutLast(items) == blocks \o items

PutFirst(items) == items \o blocks

\* ... and puts the others back in front of those added meanwhile.
PutBlocksBack ==
  /\ Running /\ top.pc = "nextBlock"
  /\ RunsHere = {}
  /\ blocks' = PutFirst(top.items)
  /\ stack' = [stack EXCEPT ![depth].pc = top.after,
                            ![depth].after = "none",
                            ![depth].items = << >>]
  /\ UNCHANGED events

\* __CFRunLoopDoSources0 collects the signalled sources ...
CollectSources0 ==
  /\ Running /\ top.pc = "sources0"
  /\ stack' = [stack EXCEPT
       ![depth].pc = "nextSource",
       ![depth].sources = ModeSources[top.mode] \cap signalled]
  /\ UNCHANGED <<blocks, events>>

\* ... and performs each one that still is, its signal cleared before.  Their
\* _order is not modelled: any may be next.
PerformSource0 ==
  /\ Running /\ top.pc = "nextSource"
  /\ \E s \in top.sources :
       IF s \in signalled
       THEN /\ signalled' = signalled \ {s}
            /\ owed' = owed \ {s}
            /\ stack' = [stack EXCEPT ![depth].pc = "source0",
                                      ![depth].handled = TRUE,
                                      ![depth].sources = @ \ {s}]
       ELSE /\ stack' = [stack EXCEPT ![depth].sources = @ \ {s}]
            /\ UNCHANGED <<signalled, owed>>
  /\ UNCHANGED <<blocks, wakeUp, ports, stoppedModes, wakers, done>>

\* Mutant: the signal is cleared once more, after the callout.
Source0Forgets ==
  /\ Running /\ top.pc = "source0"
  /\ stack' = [stack EXCEPT
       ![depth].pc = "nextSource",
       ![depth].sources = IF top.stopAfterHandle THEN {} ELSE @]
  /\ signalled' = {}
  /\ UNCHANGED <<blocks, owed, wakeUp, ports, stoppedModes, wakers, done>>

Source0Returns ==
  /\ Running /\ top.pc = "source0"
  /\ stack' = [stack EXCEPT
       ![depth].pc = "nextSource",
       ![depth].sources = IF top.stopAfterHandle THEN {} ELSE @]
  /\ UNCHANGED <<blocks, events>>

\* Blocks again if a source was handled.
Sources0Done ==
  /\ Running /\ top.pc = "nextSource" /\ top.sources = {}
  /\ IF top.handled THEN DoBlocks("decide")
     ELSE Goto("decide") /\ UNCHANGED blocks
  /\ UNCHANGED events

\* Sleep, or only look what is there.
Decide ==
  LET poll == top.handled \/ top.term = "zero"
  IN /\ Running /\ top.pc = "decide"
     /\ stack' = [stack EXCEPT
          ![depth].pc = IF poll THEN "wait" ELSE "beforeWaiting",
          ![depth].poll = poll]
     /\ UNCHANGED <<blocks, events>>

ObserversReturn ==
  /\ Running
  /\ \/ top.pc = "beforeWaiting" /\ Goto("wait")
     \/ top.pc = "afterWaiting" /\ Goto("handle")
  /\ UNCHANGED <<blocks, events>>

\* __CFRunLoopServiceMachPort: a message of the wake up port or the mode's
\* port; or none, when the run only polls.
Receive ==
  LET live == (IF wakeUp THEN {"wakeUp"} ELSE {})
              \cup (IF top.mode \in ports THEN {"port"} ELSE {})
  IN /\ Running /\ top.pc = "wait"
     /\ \E p \in IF live = {} /\ top.poll THEN {"none"} ELSE live :
          /\ stack' = [stack EXCEPT
               ![depth].live = IF p = "port" THEN p ELSE "none",
               ![depth].poll = FALSE,
               ![depth].ignoreWakeUps = TRUE,
               ![depth].pc = IF top.poll THEN "handle" ELSE "afterWaiting"]
          /\ wakeUp' = (wakeUp /\ p # "wakeUp")
          /\ ports' = IF p = "port" THEN ports \ {top.mode} ELSE ports
     /\ UNCHANGED <<blocks, signalled, owed, stoppedModes, wakers, done>>

\* Only the source of the port has something to do: __CFRunLoopDoSource1.
Handle ==
  /\ Running /\ top.pc = "handle"
  /\ IF top.live = "port"
     THEN /\ stack' = [stack EXCEPT ![depth].pc = "source1",
                                    ![depth].live = "none",
                                    ![depth].handled = TRUE]
          /\ UNCHANGED blocks
     ELSE DoBlocks("result")
  /\ UNCHANGED events

Source1Returns ==
  /\ Running /\ top.pc = "source1"
  /\ DoBlocks("result")
  /\ UNCHANGED events

\* The reasons to return, in their order; the stop flags are consumed by the
\* branch that returns because of them.  It may be late although the timeout
\* has not been called yet.
Result(late) ==
  LET m == top.mode
      over == \/ top.handled /\ top.stopAfterHandle
              \/ top.term = "zero" \/ late
      stop == top.stopped \/ m \in stoppedModes
  IN /\ Running /\ top.pc = "result"
     /\ stack' = [stack EXCEPT ![depth] =
          IF over THEN [@ EXCEPT !.pc = "exit"]
          ELSE IF stop \/ ModeIsEmpty(m)
          THEN [@ EXCEPT !.pc = "exit", !.stopped = FALSE]
          ELSE Turn(@)]
     /\ stoppedModes' = IF over \/ top.stopped THEN stoppedModes
                        ELSE stoppedModes \ {m}
     /\ UNCHANGED <<blocks, signalled, owed, wakeUp, ports, wakers, done>>

-----------------------------------------------------------------------------
LoopStep ==
  \/ Entered \/ Exited \/ DoBlocksFirst
  \/ NextBlock \/ BlockReturns \/ PutBlocksBack \/ CollectSources0
  \/ PerformSource0 \/ Source0Returns \/ Sources0Done \/ Decide
  \/ ObserversReturn \/ Receive \/ Handle \/ Source1Returns
  \/ \E late \in BOOLEAN : Result(late)

Next ==
  \/ \E s \in Sources : CFRunLoopSourceSignal(s)
  \/ \E ms \in SUBSET Modes \ {{}} : CFRunLoopPerformBlock(ms)
  \/ CFRunLoopStop
  \/ \E m \in Modes : CFRunLoopStopMode(m) \/ Message(m)
  \/ CFRunLoopWakeUp
  \/ \E d \in DOMAIN stack : CFRunLoopTimeout(d)
  \/ \E m \in Modes, stopAfterHandle \in BOOLEAN :
       CFRunLoopRunSpecific(m, stopAfterHandle)
  \/ LoopStep

Spec == Init /\ [][Next]_vars

\* Callouts return, whoever has begun to wake the loop does, and a time that
\* has come is noticed.
FairSpec ==
  /\ Spec
  /\ WF_vars(LoopStep)
  /\ WF_vars(CFRunLoopWakeUp)

-----------------------------------------------------------------------------
(* A run that sleeps until a message comes has nothing to do that nobody   *)
(* will wake it for: no source and no block of its mode, no stop and no    *)
(* end of its time.  "We don't want to lose a wakeup"                      *)
(* (CFRunLoopWakeUp), although wake ups are ignored while the loop is      *)
(* awake, merged when one is queued, and taken by nested runs.             *)
NoLostWakeUp ==
  Running /\ top.pc = "wait" /\ ~ top.poll /\ ~ wakeUp /\ wakers = 0 =>
    /\ ModeSources[top.mode] \cap owed = {}
    /\ \A i \in DOMAIN blocks : top.mode \notin blocks[i].modes
    /\ ~ top.stopped /\ top.mode \notin stoppedModes
    /\ top.term # "zero"

(* A block runs after every block that was added before it, is for the     *)
(* same mode, and is not in the hands of an outer run: whatever is added   *)
(* while the list is taken apart and put together again.                   *)
BlocksInOrder ==
  \A d \in DOMAIN stack : stack[d].pc = "block" =>
    /\ \A i \in DOMAIN stack[d].items :
         stack[d].mode \in stack[d].items[i].modes =>
           stack[d].items[i].id > stack[d].now
    /\ d = depth => \A i \in DOMAIN blocks :
         stack[d].mode \in blocks[i].modes => blocks[i].id > stack[d].now

(* A source that is signalled, also while it is performed, is performed    *)
(* by the run of its mode, unless that returns or nests another run.       *)
Pending(d, s) ==
  depth = d /\ s \in owed /\ s \in ModeSources[stack[d].mode]

SignalsArePerformed ==
  \A d \in 1..MaxDepth, s \in Sources : Pending(d, s) ~> ~ Pending(d, s)

(* A stop makes the innermost run return, unless it nests another run.     *)
Stopping(d) == depth = d /\ stack[d].stopped

StopsAreObeyed ==
  \A d \in 1..MaxDepth : Stopping(d) ~> ~ Stopping(d)

=============================================================================
