---------------------------- MODULE BlinkerMisc ----------------------------
(***************************************************************************)
(* The file operations, the interrupt handler and the sysfs config file of *)
(* the misc driver (driver/blinker_misc_module/src/blinker_misc_module.c)  *)
(* running against the registers of the peripheral.                        *)
(*                                                                         *)
(* Threads call into the driver concurrently.  Each one walks through its  *)
(* file operation, pc[t] naming the next statement that other threads, the *)
(* handler or the peripheral can tell apart; pc[t] = "user" is user space. *)
(* The device semaphore serialises the file operations, the spinlock       *)
(* g_irq_lock the register accesses of ioctl, config_store and the         *)
(* handler.  Every bus access is one clock edge of the peripheral, in      *)
(* which any button may also be at '1'.                                    *)
(*                                                                         *)
(* The driver is probed: semaphore and spinlock are initialised, the       *)
(* handler is registered, the registers are mapped.                        *)
(***************************************************************************)
EXTENDS BlinkerRegs, FiniteSets

CONSTANTS
  Threads,     \* threads of user programs
  Calls,       \* the file operations and ioctl commands they use
  UserWords,   \* 32-bit words an ioctl argument points to
  ConfigBytes, \* bytes written to the device or to the config file
  ButtonSets,  \* button combinations the peripheral may see
  CountMod     \* the modulus of the statistics counters; 2^32 in the code

None == "none"
Isr  == "isr"

RmwCmds == {"SET_RUNNING", "CLEAR_RUNNING", "ENA_INT", "DIS_INT", "SET_MODE"}
Ioctls  == RmwCmds \cup {"SET_SPEED", "GET_LEDS", "GET_CONFIG", "BAD_CMD"}
FileOps == {"open", "release", "read", "write"}

ASSUME ThreadsAssumption == Threads \cap {None, Isr} = {}
ASSUME CallsAssumption   == Calls \subseteq Ioctls \cup FileOps
ASSUME DataAssumption    == UserWords \subseteq Nat /\ ConfigBytes \subseteq Byte
ASSUME ButtonsAssumption == ButtonSets \subseteq SUBSET Buttons
ASSUME CountAssumption   == CountMod \in Nat \ {0}

VARIABLES
  pc,             \* [thread -> next statement]
  call,           \* [thread -> the call it is making, or None]
  config,         \* [thread -> the byte its read-modify-write will write]
  fds,            \* threads that have the device open
  sem,            \* the thread inside the device semaphore, or None
  lock,           \* the owner of g_irq_lock: a thread, Isr or None
  interrupt_flag, \* set by the handler, cleared by a reader
  waitq,          \* threads on g_irq_wait_queue
  isr,            \* next statement of the interrupt handler
  counts,         \* open_count .. write_count and g_irq_count
  event,          \* history: a button event no reader has fetched yet
  pressed,        \* history: buttons pressed since a read-modify-write began
  missed          \* history: releases that a signal kept from being counted

threadVars == <<pc, call, config, fds>>
irqVars    == <<interrupt_flag, waitq, isr>>
history    == <<event, pressed, missed>>
vars == <<regs, threadVars, sem, lock, irqVars, counts, history>>

Labels    == {"user", "down", "body", "rmw", "prepare", "check", "sleep",
              "clear", "fetch", "copy", "up"}
IsrLabels == {"idle", "spin", "leds", "wake"}
Counters  == {"open", "release", "ioctl", "read", "write", "irq"}

-----------------------------------------------------------------------------
(* What the ioctl commands compute.                                        *)

(* The u8 that get_user leaves of a 32-bit word. *)
U8(w) == w % 256

(* A faulty variant: the speed bits of STATE are not masked off. *)
NewConfig_NoMask(cmd, m, current) ==
  IF cmd = "SET_RUNNING" THEN current - Bit0(current) + 1 ELSE current

(* A faulty variant: CONFIG_MSK is one bit short. *)
NewConfig_ShortMask(cmd, m, current) ==
  LET start == CASE cmd = "SET_RUNNING"   -> 1
                 [] cmd = "CLEAR_RUNNING" -> 0
                 [] OTHER                 -> Bit0(current)
      blink == IF cmd = "SET_MODE" THEN m ELSE Bit1(current)
  IN  (IF cmd = "ENA_INT" THEN 4 ELSE 0) + 2 * blink + start

(* (current_config & CONFIG_MSK), with the bit of the command set or       *)
(* cleared: START/STOP is bit 0, BLINK/SHIFT bit 1, IENA/IDIS bit 2.       *)
NewConfig(cmd, m, current) ==
  LET start == CASE cmd = "SET_RUNNING"   -> 1
                 [] cmd = "CLEAR_RUNNING" -> 0
                 [] OTHER                 -> Bit0(current)
      blink == IF cmd = "SET_MODE" THEN m ELSE Bit1(current)
      iena  == CASE cmd = "ENA_INT" -> 1
                 [] cmd = "DIS_INT" -> 0
                 [] OTHER           -> Bit2(current)
  IN  4 * iena + 2 * blink + start

(* A faulty variant: the upper bound is off by one. *)
SpeedValid_UpTo16(s) == s \in 1 .. 16

SpeedValid(s)  == s \in 1 .. 15
ModeValid(m)   == m \in 0 .. 1
ConfigValid(c) == c \in 1 .. 7

(* A faulty variant: the release counts as an open. *)
CounterOf_ReleaseAsOpen(c) ==
  IF c = "release" THEN "open" ELSE IF c \in FileOps THEN c ELSE "ioctl"

(* The statistics counter of a call. *)
CounterOf(c) == IF c \in FileOps THEN c ELSE "ioctl"
Bump(k) == counts' = [counts EXCEPT ![k] = (@ + 1) % CountMod]

(* The buttons b raise an interrupt in this clock cycle. *)
Raises(b) == b # {} /\ ena_irq = 1

(* A bus access is one clock edge; the presses of a read-modify-write are  *)
(* remembered while its thread holds the lock.                             *)
Edge(b, transfer) ==
  /\ Clk(b, transfer)
  /\ pressed' = IF lock' \in Threads THEN pressed \cup b ELSE {}
  /\ UNCHANGED missed

(* One that neither a reader nor the handler makes: a STATE read withdraws *)
(* the interrupt of an event the handler has not seen.                     *)
Bus(b, transfer) ==
  /\ Edge(b, transfer)
  /\ event' = IF event = "acked" THEN event
              ELSE IF Raises(b) THEN "raised"
              ELSE IF Reads(transfer, 1) THEN "none" ELSE event

Goto(t, l) == pc' = [pc EXCEPT ![t] = l]
At(t, l)   == pc[t] = l

(* Back to user space: the call and its locals are gone. *)
Return(t) ==
  /\ Goto(t, "user")
  /\ call' = [call EXCEPT ![t] = None]
  /\ config' = [config EXCEPT ![t] = 0]

Body(t, c) == pc[t] = "body" /\ call[t] = c

-----------------------------------------------------------------------------
Init ==
  /\ RegsReset
  /\ pc = [t \in Threads |-> "user"]
  /\ call = [t \in Threads |-> None]
  /\ config = [t \in Threads |-> 0]
  /\ fds = {}
  /\ sem = None
  /\ lock = None
  /\ interrupt_flag = 0
  /\ waitq = {}
  /\ isr = "idle"
  /\ counts = [k \in Counters |-> 0]
  /\ event = "none"
  /\ pressed = {}
  /\ missed = 0

(* A thread opens the device, or uses a descriptor it has. *)
Enter(t, c) ==
  /\ At(t, "user")
  /\ (c = "open") <=> (t \notin fds)
  /\ call' = [call EXCEPT ![t] = c]
  /\ Goto(t, "down")
  /\ UNCHANGED <<regs, config, fds, sem, lock, irqVars, counts, history>>

(* A faulty variant: read() does not wait for the semaphore. *)
Acquire_UnlessRead(t) ==
  /\ At(t, "down")
  /\ sem = None \/ call[t] = "read"
  /\ sem' = t
  /\ Bump(CounterOf(call[t]))
  /\ Goto(t, "body")
  /\ UNCHANGED <<regs, call, config, fds, lock, irqVars, history>>

(* down_interruptible succeeds; the call is counted. *)
Acquire(t) ==
  /\ At(t, "down")
  /\ sem = None
  /\ sem' = t
  /\ Bump(CounterOf(call[t]))
  /\ Goto(t, "body")
  /\ UNCHANGED <<regs, call, config, fds, lock, irqVars, history>>

(* A signal ends the sleep in down_interruptible: -ERESTARTSYS.  A file    *)
(* whose release fails this way is closed all the same, but not counted.   *)
DownInterrupted(t) ==
  /\ At(t, "down")
  /\ sem # None
  /\ Return(t)
  /\ fds' = IF call[t] = "release" THEN fds \ {t} ELSE fds
  /\ missed' = IF call[t] = "release" THEN (missed + 1) % CountMod ELSE missed
  /\ UNCHANGED <<regs, sem, lock, irqVars, counts, event, pressed>>

Up(t) ==
  /\ At(t, "up")
  /\ sem' = None
  /\ Return(t)
  /\ UNCHANGED <<regs, fds, lock, irqVars, counts, history>>

Open(t) ==
  /\ Body(t, "open")
  /\ fds' = fds \cup {t}
  /\ Goto(t, "up")
  /\ UNCHANGED <<regs, call, config, sem, lock, irqVars, counts, history>>

Release(t) ==
  /\ Body(t, "release")
  /\ fds' = fds \ {t}
  /\ Goto(t, "up")
  /\ UNCHANGED <<regs, call, config, sem, lock, irqVars, counts, history>>

-----------------------------------------------------------------------------
(* blinker_dev_ioctl and blinker_dev_write.                                *)

(* A faulty variant: an error path without up(). *)
Reject_NoUp(t) ==
  /\ \E c \in {"SET_SPEED", "SET_MODE", "write", "BAD_CMD"} : Body(t, c)
  /\ Return(t)
  /\ UNCHANGED <<regs, fds, sem, lock, irqVars, counts, history>>

(* -EFAULT from user memory, -EINVAL for a value or a command. *)
Reject(t) ==
  /\ \E c \in {"SET_SPEED", "SET_MODE", "write", "BAD_CMD"} : Body(t, c)
  /\ Goto(t, "up")
  /\ UNCHANGED <<regs, call, config, fds, sem, lock, irqVars, counts, history>>

(* Lock, write SPEED, unlock. *)
SetSpeed(t, b) ==
  /\ Body(t, "SET_SPEED")
  /\ lock = None
  /\ UNCHANGED <<call, config, fds, sem, lock, irqVars, counts>>
  /\ \E w \in UserWords : SpeedValid(U8(w)) /\ Bus(b, Write(0, U8(w)))
  /\ Goto(t, "up")

(* Lock and read STATE, which also clears irq ... *)
RmwRead(t, b) ==
  /\ \E c \in RmwCmds : Body(t, c)
  /\ lock = None
  /\ lock' = t
  /\ \E w \in UserWords :
       /\ call[t] = "SET_MODE" => ModeValid(U8(w))
       /\ config' = [config EXCEPT ![t] = NewConfig(call[t], U8(w), StateByte)]
  /\ Bus(b, Read(1))
  /\ Goto(t, "rmw")
  /\ UNCHANGED <<call, fds, sem, irqVars, counts>>

(* A faulty variant: the lock is not released. *)
RmwWrite_NoUnlock(t, b) ==
  /\ At(t, "rmw")
  /\ UNCHANGED <<call, config, fds, sem, lock, irqVars, counts>>
  /\ Bus(b, Write(1, config[t]))
  /\ Goto(t, "up")

(* ... write CONFIG and unlock. *)
RmwWrite(t, b) ==
  /\ At(t, "rmw")
  /\ lock' = None
  /\ Bus(b, Write(1, config[t]))
  /\ Goto(t, "up")
  /\ UNCHANGED <<call, config, fds, sem, irqVars, counts>>

(* Without the lock; put_user may fail, which only changes the result. *)
GetLeds(t, b) ==
  /\ Body(t, "GET_LEDS")
  /\ UNCHANGED <<call, config, fds, sem, lock, irqVars, counts>>
  /\ Bus(b, Read(0))
  /\ Goto(t, "up")

GetConfig(t, b) ==
  /\ Body(t, "GET_CONFIG")
  /\ UNCHANGED <<call, config, fds, sem, lock, irqVars, counts>>
  /\ Bus(b, Read(1))
  /\ Goto(t, "up")

WriteConfig(t, b) ==
  /\ Body(t, "write")
  /\ UNCHANGED <<call, config, fds, sem, lock, irqVars, counts>>
  /\ \E c \in ConfigBytes : ConfigValid(c) /\ Bus(b, Write(1, c))
  /\ Goto(t, "up")

-----------------------------------------------------------------------------
(* blinker_dev_read: wait_event_interruptible, which checks the condition, *)
(* and while it is false queues the thread, checks again and sleeps.       *)
WaitDone(t) ==
  /\ Body(t, "read") \/ At(t, "check")
  /\ interrupt_flag # 0
  /\ waitq' = waitq \ {t}
  /\ Goto(t, "clear")
  /\ UNCHANGED <<regs, call, config, fds, sem, lock, interrupt_flag, isr,
                 counts, history>>

WaitFirstCheck(t) ==
  /\ Body(t, "read")
  /\ interrupt_flag = 0
  /\ Goto(t, "prepare")
  /\ UNCHANGED <<regs, call, config, fds, sem, lock, irqVars, counts, history>>

WaitPrepare(t) ==
  /\ At(t, "prepare")
  /\ waitq' = waitq \cup {t}
  /\ Goto(t, "check")
  /\ UNCHANGED <<regs, call, config, fds, sem, lock, interrupt_flag, isr,
                 counts, history>>

(* A faulty variant: no second look at the flag after queueing. *)
WaitSleep_NoRecheck(t) ==
  /\ At(t, "check")
  /\ Goto(t, "sleep")
  /\ UNCHANGED <<regs, call, config, fds, sem, lock, irqVars, counts, history>>

WaitSleep(t) ==
  /\ At(t, "check")
  /\ interrupt_flag = 0
  /\ Goto(t, "sleep")
  /\ UNCHANGED <<regs, call, config, fds, sem, lock, irqVars, counts, history>>

(* A faulty variant: an interrupted wait without up(). *)
WaitInterrupted_NoUp(t) ==
  /\ At(t, "check")
  /\ interrupt_flag = 0
  /\ waitq' = waitq \ {t}
  /\ Return(t)
  /\ UNCHANGED <<regs, fds, sem, lock, interrupt_flag, isr, counts, history>>

(* A pending signal: finish_wait and -ERESTARTSYS. *)
WaitInterrupted(t) ==
  /\ At(t, "check")
  /\ interrupt_flag = 0
  /\ waitq' = waitq \ {t}
  /\ Goto(t, "up")
  /\ UNCHANGED <<regs, call, config, fds, sem, lock, interrupt_flag, isr,
                 counts, history>>

(* Taken off the queue by a wake-up. *)
WaitWoken(t) ==
  /\ At(t, "sleep")
  /\ t \notin waitq
  /\ Goto(t, "prepare")
  /\ UNCHANGED <<regs, call, config, fds, sem, lock, irqVars, counts, history>>

(* Woken by a signal, still on the queue. *)
WaitSignalled(t) ==
  /\ At(t, "sleep")
  /\ Goto(t, "prepare")
  /\ UNCHANGED <<regs, call, config, fds, sem, lock, irqVars, counts, history>>

(* interrupt_flag = 0 under the lock. *)
ReadClear(t) ==
  /\ At(t, "clear")
  /\ lock = None
  /\ interrupt_flag' = 0
  /\ Goto(t, "fetch")
  /\ UNCHANGED <<regs, call, config, fds, sem, lock, waitq, isr, counts, history>>

(* STATE is fetched without the lock; what happened before is now seen. *)
ReadFetch(t, b) ==
  /\ At(t, "fetch")
  /\ UNCHANGED <<call, config, fds, sem, lock, irqVars, counts>>
  /\ Edge(b, Read(1))
  /\ event' = IF Raises(b) THEN "raised" ELSE "none"
  /\ Goto(t, "copy")

(* A faulty variant: the flag is cleared after the fetch. *)
ReadCopy_ClearsFlag(t) ==
  /\ At(t, "copy")
  /\ interrupt_flag' = 0
  /\ Goto(t, "up")
  /\ UNCHANGED <<regs, call, config, fds, sem, lock, waitq, isr, counts, history>>

(* copy_to_user, whatever it returns. *)
ReadCopy(t) ==
  /\ At(t, "copy")
  /\ Goto(t, "up")
  /\ UNCHANGED <<regs, call, config, fds, sem, lock, irqVars, counts, history>>

-----------------------------------------------------------------------------
(* blinker_driver_interrupt_handler: the line is level-sensitive and the   *)
(* handler is not reentered.                                               *)
IsrEnter ==
  /\ isr = "idle"
  /\ irq = 1
  /\ isr' = "spin"
  /\ UNCHANGED <<regs, threadVars, sem, lock, interrupt_flag, waitq, counts, history>>

(* Take the lock, read STATE, count. *)
IsrState(b) ==
  /\ isr = "spin"
  /\ lock = None
  /\ lock' = Isr
  /\ Edge(b, Read(1))
  /\ event' = "acked"
  /\ Bump("irq")
  /\ isr' = "leds"
  /\ UNCHANGED <<threadVars, sem, interrupt_flag, waitq>>

(* Read LEDS, set the flag, release the lock. *)
IsrLeds(b) ==
  /\ isr = "leds"
  /\ lock' = None
  /\ Bus(b, Read(0))
  /\ interrupt_flag' = 1
  /\ isr' = "wake"
  /\ UNCHANGED <<threadVars, sem, waitq, counts>>

(* A faulty variant: the wake-up is missing. *)
IsrWake_Missing ==
  /\ isr = "wake"
  /\ isr' = "idle"
  /\ UNCHANGED <<regs, threadVars, sem, lock, interrupt_flag, waitq, counts, history>>

(* wake_up_interruptible. *)
IsrWake ==
  /\ isr = "wake"
  /\ waitq' = {}
  /\ isr' = "idle"
  /\ UNCHANGED <<regs, threadVars, sem, lock, interrupt_flag, counts, history>>

(* A faulty variant: the lock is not taken. *)
ConfigStore_NoLock(b, c) ==
  /\ UNCHANGED <<threadVars, sem, lock, irqVars, counts>>
  /\ Bus(b, Write(1, c))

(* config_store of the sysfs file: the lock, but not the semaphore.        *)
ConfigStore(b, c) ==
  /\ lock = None
  /\ UNCHANGED <<threadVars, sem, lock, irqVars, counts>>
  /\ Bus(b, Write(1, c))

(* A clock edge with no bus access. *)
HwClk(b) ==
  /\ UNCHANGED <<threadVars, sem, lock, irqVars, counts>>
  /\ Bus(b, Idle)

-----------------------------------------------------------------------------
(* The steps a thread inside the driver takes by itself. *)
Local(t) ==
  \/ Up(t) \/ Open(t) \/ Release(t) \/ Reject(t)
  \/ WaitDone(t) \/ WaitFirstCheck(t) \/ WaitPrepare(t) \/ WaitSleep(t)
  \/ WaitWoken(t) \/ ReadClear(t) \/ ReadCopy(t)

BusStep(t, b) ==
  \/ SetSpeed(t, b) \/ RmwRead(t, b) \/ RmwWrite(t, b)
  \/ GetLeds(t, b) \/ GetConfig(t, b) \/ WriteConfig(t, b) \/ ReadFetch(t, b)

Run(t) == Local(t) \/ \E b \in ButtonSets : BusStep(t, b)

Signal(t) == DownInterrupted(t) \/ WaitInterrupted(t) \/ WaitSignalled(t)

IsrStep == IsrEnter \/ IsrWake \/ \E b \in ButtonSets : IsrState(b) \/ IsrLeds(b)

Environment ==
  \E b \in ButtonSets : HwClk(b) \/ \E c \in ConfigBytes : ConfigStore(b, c)

Next ==
  \/ \E t \in Threads :
       (\E c \in Calls : Enter(t, c)) \/ Acquire(t) \/ Run(t) \/ Signal(t)
  \/ IsrStep
  \/ Environment

Spec == Init /\ [][Next]_vars

(* The scheduler runs every thread that is inside the driver; the          *)
(* semaphore and the ticket spinlock serve their waiters in turn, so a     *)
(* thread that finds them free again and again gets them.  The handler     *)
(* preempts everything.  Nothing is assumed of users, signals and buttons. *)
Fairness ==
  /\ \A t \in Threads : SF_vars(Run(t)) /\ SF_vars(Acquire(t))
  /\ SF_vars(IsrStep)

FairSpec == Spec /\ Fairness

-----------------------------------------------------------------------------
(* Every variable keeps its type: a register its width, a byte for CONFIG  *)
(* its three bits (blinker_module.h:42), a counter its modulus.            *)
TypeOK ==
  /\ RegsTypeOK
  /\ pc \in [Threads -> Labels]
  /\ call \in [Threads -> Ioctls \cup FileOps \cup {None}]
  /\ config \in [Threads -> 0 .. 7]
  /\ fds \subseteq Threads
  /\ sem \in Threads \cup {None}
  /\ lock \in Threads \cup {Isr, None}
  /\ interrupt_flag \in Bit
  /\ waitq \subseteq Threads
  /\ isr \in IsrLabels
  /\ counts \in [Counters -> 0 .. CountMod - 1]
  /\ event \in {"none", "raised", "acked"}
  /\ pressed \subseteq Buttons
  /\ missed \in 0 .. CountMod - 1

(* Who is where: a thread between down_interruptible and up() owns the     *)
(* semaphore, the one between the two accesses of a read-modify-write or   *)
(* the handler owns the spinlock, and only a waiting reader is queued.     *)
Ownership ==
  /\ \A t \in Threads : sem = t <=> pc[t] \notin {"user", "down"}
  /\ \A t \in Threads : lock = t <=> At(t, "rmw")
  /\ lock = Isr <=> isr = "leds"
  /\ \A t \in waitq : pc[t] \in {"prepare", "check", "sleep"}

(* wait_event_interruptible against the handler (lines 269 and 368-370):   *)
(* a reader is never left asleep on the queue with the flag set, unless    *)
(* the handler that set it is about to wake the queue.                     *)
NoLostWakeup ==
  \A t \in Threads :
    At(t, "sleep") /\ t \in waitq /\ interrupt_flag # 0 => isr = "wake"

(* A reader that has been let through the wait still finds its interrupt:  *)
(* no other reader clears the flag between the wait and line 279.          *)
NoStolenInterrupt ==
  \A t \in Threads : At(t, "clear") => interrupt_flag = 1

(* Someone is on the way to a STATE fetch: the flag is set or about to be  *)
(* set, or a reader has cleared it and has not fetched yet.                *)
FetchAhead ==
  \/ interrupt_flag = 1
  \/ isr = "leds"
  \/ \E t \in Threads : At(t, "fetch")

(* No button event is forgotten: until the handler has acknowledged it     *)
(* (line 362) it shows at the interrupt line, unless an ioctl has withdrawn*)
(* it by reading STATE; from then on until a reader has fetched STATE, the *)
(* fetch is still to come.  Clearing the flag (279) before the fetch (283) *)
(* loses nothing, whatever comes between them.                             *)
NoEventLost ==
  /\ event = "raised" => irq = 1
  /\ event = "acked" => FetchAhead

(* The read-modify-write of an ioctl (lines 134-211) writes back no stale  *)
(* bit: neither write(), which takes no spinlock, nor config_store, which  *)
(* takes no semaphore, changes CONFIG in between.  Only a button can, and  *)
(* only the bit that it toggles.                                           *)
NoStaleConfig ==
  \A t \in Threads : At(t, "rmw") =>
    /\ call[t] \in {"ENA_INT", "DIS_INT"} \/ Bit2(config[t]) = ena_irq
    /\ call[t] = "SET_MODE" \/ CHANGE_MODE \in pressed \/ Bit1(config[t]) = mode
    /\ \/ call[t] \in {"SET_RUNNING", "CLEAR_RUNNING"} \/ PAUSE \in pressed
       \/ Bit0(config[t]) = running

(* The check of line 117 on the truncated word keeps the speed on the      *)
(* scale 1 .. 15 of the peripheral, with the buttons taking part: speed 0, *)
(* from where "slower" jumps to 15, is out of reach through this driver.   *)
SpeedInRange == speed \in 1 .. 15

(* open_count and release_count (lines 62, 79) differ by the files that    *)
(* are open, except for the releases a signal ended at line 73; between    *)
(* counting and the end of the call the file is in transit.                *)
OpenReleaseBalance ==
  LET opening == {t \in Threads : Body(t, "open")}
      closing == {t \in Threads : Body(t, "release")}
  IN  counts["open"] =
        (counts["release"] + Cardinality((fds \cup opening) \ closing) + missed)
          % CountMod

(* t waits in read() for an interrupt that has not come. *)
WaitsForIrq(t) ==
  /\ Body(t, "read") \/ pc[t] \in {"prepare", "check", "sleep"}
  /\ interrupt_flag = 0

(* The steps of its own that t still makes before up() has returned, at    *)
(* the most; a reader without an interrupt has them all ahead.             *)
StepsLeft(t) ==
  LET rank == [user |-> 0, up |-> 1, copy |-> 2, rmw |-> 2, fetch |-> 3, clear |-> 4,
               check |-> 5, prepare |-> 6, sleep |-> 7, body |-> 8, down |-> 9]
  IN  IF WaitsForIrq(t) THEN 9 ELSE rank[pc[t]]

(* Whoever has the semaphore only goes forward: a call makes at most eight *)
(* steps from down_interruptible to up(), a read() at most eight from the  *)
(* moment the flag is set, and no signal, no other call and no interrupt   *)
(* puts it back or takes its flag away (lines 51-335).                     *)
HolderAdvances ==
  [][\A t \in Threads : sem = t =>
       \/ StepsLeft(t)' < StepsLeft(t)
       \/ StepsLeft(t)' = StepsLeft(t) /\ (WaitsForIrq(t) \/ pc'[t] = pc[t])]_vars

(* When its read-modify-write ends (lines 134-211) ENA_INT has enabled the *)
(* interrupt, DIS_INT has disabled it and every other command has left it  *)
(* as it is at that moment: between the two accesses nobody else's setting *)
(* comes in to be overwritten.                                             *)
IoctlEnables ==
  [][\A t \in Threads : At(t, "rmw") /\ pc'[t] # "rmw" =>
       ena_irq' = CASE call[t] = "ENA_INT" -> 1
                    [] call[t] = "DIS_INT" -> 0
                    [] OTHER               -> ena_irq]_vars

-----------------------------------------------------------------------------
(* The channel that read() implements: the flag is the pending event, the  *)
(* threads between down_interruptible and the clearing of the flag wait,   *)
(* and the one between the clearing and the fetch has taken the event.     *)
WaitingReaders ==
  {t \in Threads : Body(t, "read") \/ pc[t] \in {"prepare", "check", "sleep", "clear"}}

Channel == INSTANCE EventChannel WITH
  Readers <- Threads,
  pending <- interrupt_flag = 1,
  waiting <- WaitingReaders,
  taken   <- {t \in Threads : At(t, "fetch")}

(* read(), its wait queue and the handler (lines 253-297, 356-373), under  *)
(* all other calls and signals, do nothing the event channel does not      *)
(* allow: no reader takes an event that was not posted or takes one twice, *)
(* and none returns interrupted while an event is pending.                 *)
ImplementsChannel == Channel!Spec

(* The flag reaches its reader: a thread waiting in read() while the flag  *)
(* is set goes on to fetch STATE, whatever signals, calls and interrupts   *)
(* come meanwhile.                                                         *)
ReaderServed == Channel!Served

(* An asserted interrupt line is served: the handler gets the spinlock and *)
(* sets the flag, unless a STATE read has withdrawn the interrupt.         *)
IrqServed == irq = 1 ~> (irq = 0 \/ interrupt_flag = 1)

(* A thread waiting for the semaphore gets it, gives up on a signal, or    *)
(* finds a reader asleep: read() sleeps with the semaphore held (line 269).*)
DownServed ==
  \A t \in Threads :
    At(t, "down") ~> (~At(t, "down") \/ \E u \in Threads : At(u, "sleep"))
=============================================================================
