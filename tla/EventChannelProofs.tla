------------------------ MODULE EventChannelProofs ------------------------
(***************************************************************************)
(* The misc driver implements the event channel: its initial states are    *)
(* initial states of the channel, and every step of a thread, the handler  *)
(* or the environment is a step of the channel or leaves it alone.  The    *)
(* invariant of BlinkerMiscProofs is needed in two places: Ownership gives *)
(* that a reader arrives alone, NoStolenInterrupt that the event a reader  *)
(* takes is there.                                                         *)
(***************************************************************************)
EXTENDS BlinkerMiscProofs

(* The channel starts empty. *)
LEMMA ChannelInit == Init => Channel!Init
BY DEF Init, Channel!Init, WaitingReaders, Body, At

(* A step after which every thread waits, or has taken an event, if and    *)
(* only if it did before, and which leaves the flag alone, is a stutter.   *)
LEMMA ChannelStutter ==
  ASSUME interrupt_flag' = interrupt_flag,
         \A t \in Threads :
           /\ (Body(t, "read") \/ pc[t] \in {"prepare", "check", "sleep", "clear"})' <=>
              (Body(t, "read") \/ pc[t] \in {"prepare", "check", "sleep", "clear"})
           /\ At(t, "fetch")' <=> At(t, "fetch")
  PROVE  UNCHANGED Channel!vars
BY DEF Channel!vars, WaitingReaders

(* The calls that are neither read() nor on their way into the driver. *)
LEMMA OtherCalls ==
  ASSUME IInv, NEW t \in Threads, NEW b,
         \/ \E c \in Calls : Enter(t, c)
         \/ Up(t) \/ Open(t) \/ Release(t) \/ Reject(t) \/ DownInterrupted(t)
         \/ SetSpeed(t, b) \/ RmwRead(t, b) \/ RmwWrite(t, b)
         \/ GetLeds(t, b) \/ GetConfig(t, b) \/ WriteConfig(t, b)
  PROVE  UNCHANGED Channel!vars
<1>1. pc \in [Threads -> Labels] /\ call \in [Threads -> Ioctls \cup FileOps \cup {None}]
  BY DEF IInv, TypeOK
<1>2. ~Body(t, "read") /\ pc[t] \notin {"prepare", "check", "sleep", "clear", "fetch"}
  BY <1>1 DEF Enter, Up, Open, Release, Reject, DownInterrupted, SetSpeed, RmwRead,
     RmwWrite, GetLeds, GetConfig, WriteConfig, RmwCmds, Body, At
<1>3. /\ interrupt_flag' = interrupt_flag
      /\ \E l \in {"user", "down", "rmw", "up"} : \E c :
           /\ pc' = [pc EXCEPT ![t] = l]
           /\ call' = [call EXCEPT ![t] = c]
  <2>1. call = [call EXCEPT ![t] = call[t]]
    BY <1>1
  <2> QED
    BY <2>1 DEF Enter, Up, Open, Release, Reject, DownInterrupted, SetSpeed, RmwRead,
       RmwWrite, GetLeds, GetConfig, WriteConfig, Return, Goto, irqVars
<1> QED
  BY <1>1, <1>2, <1>3, ChannelStutter DEF Body, At

(* Taking the semaphore: for a read() the arrival of a reader. *)
LEMMA AcquireStep ==
  ASSUME IInv, NEW t \in Threads, Acquire(t)
  PROVE  [Channel!Next]_(Channel!vars)
<1>1. /\ pc \in [Threads -> Labels] /\ pc[t] = "down"
      /\ pc' = [pc EXCEPT ![t] = "body"]
      /\ UNCHANGED <<call, interrupt_flag>>
  BY DEF IInv, TypeOK, Acquire, At, Goto, irqVars
<1>2. \A u \in Threads : pc[u] \in {"user", "down"}
  BY ThreadsAssumption DEF IInv, Control, Ownership, Acquire, None
<1>3. CASE call[t] = "read"
  <2>1. WaitingReaders = {} /\ {u \in Threads : At(u, "fetch")} = {}
    BY <1>2 DEF WaitingReaders, Body, At
  <2>2. WaitingReaders' = {t} /\ {u \in Threads : At(u, "fetch")}' = {}
    BY <1>1, <1>2, <1>3 DEF WaitingReaders, Body, At
  <2>3. Channel!Arrive(t)
    BY <1>1, <2>1, <2>2 DEF Channel!Arrive
  <2> QED
    BY <2>3 DEF Channel!Next
<1>4. CASE call[t] # "read"
  BY <1>1, <1>4, ChannelStutter DEF Body, At
<1> QED
  BY <1>3, <1>4

(* The steps of read() from one waiting statement to another, and the ones *)
(* after the fetch.                                                        *)
LEMMA WaitSteps ==
  ASSUME IInv, NEW t \in Threads,
         WaitDone(t) \/ WaitFirstCheck(t) \/ WaitPrepare(t) \/ WaitSleep(t) \/
         WaitWoken(t) \/ WaitSignalled(t) \/ ReadCopy(t)
  PROVE  UNCHANGED Channel!vars
<1>1. pc \in [Threads -> Labels]
  BY DEF IInv, TypeOK
<1>2. CASE ReadCopy(t)
  BY <1>1, <1>2, ChannelStutter DEF ReadCopy, Goto, Body, At, irqVars
<1>3. CASE ~ReadCopy(t)
  <2>1. /\ Body(t, "read") \/ pc[t] \in {"prepare", "check", "sleep"}
        /\ UNCHANGED <<call, interrupt_flag>>
        /\ \E l \in {"prepare", "check", "sleep", "clear"} : pc' = [pc EXCEPT ![t] = l]
    BY <1>3 DEF WaitDone, WaitFirstCheck, WaitPrepare, WaitSleep, WaitWoken,
       WaitSignalled, Goto, At, irqVars
  <2> QED
    BY <1>1, <2>1, ChannelStutter DEF Body, At
<1> QED
  BY <1>2, <1>3

(* The three steps of read() that the channel knows: giving up, taking the *)
(* event, looking at it.                                                   *)
LEMMA ChannelSteps ==
  ASSUME IInv, NEW t \in Threads, NEW b,
         WaitInterrupted(t) \/ ReadClear(t) \/ ReadFetch(t, b)
  PROVE  Channel!Next
<1>1. pc \in [Threads -> Labels] /\ UNCHANGED call
  BY DEF IInv, TypeOK, WaitInterrupted, ReadClear, ReadFetch
<1>2. CASE WaitInterrupted(t)
  <2>1. /\ pc[t] = "check" /\ pc' = [pc EXCEPT ![t] = "up"]
        /\ interrupt_flag = 0 /\ interrupt_flag' = interrupt_flag
    BY <1>2 DEF WaitInterrupted, At, Goto
  <2>2. t \in WaitingReaders /\ WaitingReaders' = WaitingReaders \ {t}
    BY <1>1, <2>1 DEF WaitingReaders, Body
  <2>3. {u \in Threads : At(u, "fetch")}' = {u \in Threads : At(u, "fetch")}
    BY <1>1, <2>1 DEF At
  <2>4. Channel!GiveUp(t)
    BY <2>1, <2>2, <2>3 DEF Channel!GiveUp
  <2> QED
    BY <2>4 DEF Channel!Next
<1>3. CASE ReadClear(t)
  <2>1. /\ pc[t] = "clear" /\ pc' = [pc EXCEPT ![t] = "fetch"]
        /\ interrupt_flag = 1 /\ interrupt_flag' = 0
    BY <1>3 DEF ReadClear, At, Goto, IInv, Control, NoStolenInterrupt
  <2>2. t \in WaitingReaders /\ WaitingReaders' = WaitingReaders \ {t}
    BY <1>1, <2>1 DEF WaitingReaders, Body
  <2>3. {u \in Threads : At(u, "fetch")}' = {u \in Threads : At(u, "fetch")} \cup {t}
    BY <1>1, <2>1 DEF At
  <2>4. Channel!Take(t)
    BY <2>1, <2>2, <2>3 DEF Channel!Take
  <2> QED
    BY <2>4 DEF Channel!Next
<1>4. CASE ReadFetch(t, b)
  <2>1. /\ pc[t] = "fetch" /\ pc' = [pc EXCEPT ![t] = "copy"]
        /\ interrupt_flag' = interrupt_flag
    BY <1>4 DEF ReadFetch, At, Goto, irqVars
  <2>2. WaitingReaders' = WaitingReaders
    BY <1>1, <2>1 DEF WaitingReaders, Body
  <2>3. /\ t \in {u \in Threads : At(u, "fetch")}
        /\ {u \in Threads : At(u, "fetch")}' = {u \in Threads : At(u, "fetch")} \ {t}
    BY <1>1, <2>1 DEF At
  <2>4. Channel!Look(t)
    BY <2>1, <2>2, <2>3 DEF Channel!Look
  <2> QED
    BY <2>4 DEF Channel!Next
<1> QED
  BY <1>2, <1>3, <1>4

(* The handler posts the event when it sets the flag. *)
LEMMA HandlerSteps ==
  ASSUME IsrStep
  PROVE  [Channel!Next]_(Channel!vars)
<1>1. UNCHANGED <<pc, call>>
  BY DEF IsrStep, IsrEnter, IsrWake, IsrState, IsrLeds, threadVars
<1>2. ASSUME NEW b \in ButtonSets, IsrLeds(b) PROVE Channel!Post
  BY <1>1, <1>2 DEF IsrLeds, Channel!Post, WaitingReaders, Body, At
<1>3. ASSUME ~\E b \in ButtonSets : IsrLeds(b) PROVE UNCHANGED Channel!vars
  <2>1. interrupt_flag' = interrupt_flag
    BY <1>3 DEF IsrStep, IsrEnter, IsrWake, IsrState
  <2> QED
    BY <1>1, <2>1, ChannelStutter DEF Body, At
<1> QED
  BY <1>2, <1>3 DEF Channel!Next

(* Every step of the driver is a step of the channel or a stutter. *)
LEMMA ChannelNext == IInv /\ [Next]_vars => [Channel!Next]_(Channel!vars)
<1> SUFFICES ASSUME IInv, [Next]_vars PROVE [Channel!Next]_(Channel!vars)
  OBVIOUS
<1>1. ASSUME NEW t \in Threads, Acquire(t) PROVE [Channel!Next]_(Channel!vars)
  BY <1>1, AcquireStep
<1>2. ASSUME NEW t \in Threads, (\E c \in Calls : Enter(t, c)) \/ Run(t) \/ Signal(t)
      PROVE  [Channel!Next]_(Channel!vars)
  BY <1>2, OtherCalls, WaitSteps, ChannelSteps DEF Run, Local, BusStep, Signal
<1>3. CASE IsrStep
  BY <1>3, HandlerSteps
<1>4. CASE Environment
  BY <1>4, ChannelStutter DEF Environment, HwClk, ConfigStore, threadVars, irqVars,
     Body, At
<1>5. CASE UNCHANGED vars
  BY <1>5, ChannelStutter DEF vars, threadVars, irqVars, Body, At
<1> QED
  BY <1>1, <1>2, <1>3, <1>4, <1>5 DEF Next

(* read() with its wait queue, its two locks and the handler implements    *)
(* the one-place event channel, for any number of threads and under all    *)
(* other calls and signals.                                                *)
THEOREM ChannelImplemented == Spec => ImplementsChannel
BY ChannelInit, ChannelNext, Invariance, PTL DEF Spec, ImplementsChannel, Channel!Spec
=============================================================================
