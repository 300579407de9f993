--------------------------- MODULE BalanceProofs ---------------------------
(***************************************************************************)
(* The statistics of the misc driver: open_count and release_count account *)
(* for the open files, for any number of threads and any counter width.    *)
(* Both counters wrap, so the argument is one about remainders; and the    *)
(* count moves when the semaphore is taken, the descriptor only later, so  *)
(* it is about files in transit too.                                       *)
(***************************************************************************)
EXTENDS BlinkerMiscProofs, FiniteSetTheorems

(* The open files, those in transit counted as what they are becoming. *)
Held ==
  (fds \cup {t \in Threads : Body(t, "open")}) \ {t \in Threads : Body(t, "release")}

(* From down_interruptible to the end of the call's body, an open is made  *)
(* by a thread without the file and every other call by one with it.       *)
CallFitsFile ==
  \A t \in Threads : pc[t] \in {"down", "body"} => (call[t] = "open" <=> t \notin fds)

(* What makes OpenReleaseBalance inductive, next to IInv: a thread counted *)
(* at line 62 was not counted before, one counted at line 79 was, and the  *)
(* files are finitely many, so that adding and removing one changes their  *)
(* number by one.                                                          *)
Balance == CallFitsFile /\ IsFiniteSet(Held) /\ OpenReleaseBalance

-----------------------------------------------------------------------------
(* Quotient and remainder. *)
LEMMA DivMod ==
  ASSUME NEW M \in Nat \ {0}, NEW x \in Nat
  PROVE  /\ x \div M \in Nat
         /\ x % M \in 0 .. M - 1
         /\ x = M * (x \div M) + (x % M)
OBVIOUS

(* They are unique. *)
LEMMA ModUnique ==
  ASSUME NEW M \in Nat \ {0}, NEW q \in Nat, NEW r \in 0 .. M - 1
  PROVE  (M * q + r) % M = r
OBVIOUS

(* A wrap of one summand does not show in the wrapped sum. *)
LEMMA ModSum ==
  ASSUME NEW M \in Nat \ {0}, NEW x \in Nat, NEW y \in Nat
  PROVE  ((x % M) + y) % M = (x + y) % M
<1> DEFINE q == x \div M
           r == x % M
           p == (r + y) \div M
           s == (r + y) % M
<1>1. q \in Nat /\ r \in 0 .. M - 1 /\ x = M * q + r
  BY DivMod
<1>2. r + y \in Nat
  BY <1>1
<1>3. p \in Nat /\ s \in 0 .. M - 1 /\ r + y = M * p + s
  BY <1>2, DivMod
<1> HIDE DEF q, r, p, s
<1>4. x + y = M * (q + p) + s
  BY <1>1, <1>3
<1>5. q + p \in Nat
  BY <1>1, <1>3
<1>6. (M * (q + p) + s) % M = s
  BY <1>3, <1>5, ModUnique
<1> QED
  BY <1>4, <1>6 DEF r, s

(* One more open file, counted by open_count (line 62) ... *)
LEMMA CountOpen ==
  ASSUME NEW M \in Nat \ {0}, NEW r \in Nat, NEW n \in Nat, NEW m \in Nat
  PROVE  (((r + n + m) % M) + 1) % M = (r + (n + 1) + m) % M
<1>1. r + n + m \in Nat /\ (r + n + m) + 1 = r + (n + 1) + m
  OBVIOUS
<1>2. (((r + n + m) % M) + 1) % M = ((r + n + m) + 1) % M
  BY <1>1, 1 \in Nat, ModSum
<1> QED
  BY <1>1, <1>2

(* ... one less, counted by release_count (line 79) ... *)
LEMMA CountRelease ==
  ASSUME NEW M \in Nat \ {0}, NEW r \in Nat, NEW n \in Nat \ {0}, NEW m \in Nat
  PROVE  (((r + 1) % M) + (n - 1) + m) % M = (r + n + m) % M
<1>1. /\ r + 1 \in Nat /\ (n - 1) + m \in Nat
      /\ (r + 1) + ((n - 1) + m) = r + n + m
  OBVIOUS
<1>2. (r + 1) % M \in Nat
  BY <1>1, DivMod
<1>3. ((r + 1) % M) + (n - 1) + m = ((r + 1) % M) + ((n - 1) + m)
  BY <1>2
<1>4. (((r + 1) % M) + ((n - 1) + m)) % M = ((r + 1) + ((n - 1) + m)) % M
  BY <1>1, ModSum
<1> QED
  BY <1>1, <1>3, <1>4

(* ... or by neither, when a signal ends the release (line 73). *)
LEMMA CountMissed ==
  ASSUME NEW M \in Nat \ {0}, NEW r \in Nat, NEW n \in Nat \ {0}, NEW m \in Nat
  PROVE  (r + (n - 1) + ((m + 1) % M)) % M = (r + n + m) % M
<1>1. /\ m + 1 \in Nat /\ r + (n - 1) \in Nat
      /\ (m + 1) + (r + (n - 1)) = r + n + m
  OBVIOUS
<1>2. (m + 1) % M \in Nat
  BY <1>1, DivMod
<1>3. r + (n - 1) + ((m + 1) % M) = ((m + 1) % M) + (r + (n - 1))
  BY <1>2
<1>4. (((m + 1) % M) + (r + (n - 1))) % M = ((m + 1) + (r + (n - 1))) % M
  BY <1>1, ModSum
<1> QED
  BY <1>1, <1>3, <1>4

-----------------------------------------------------------------------------
(* The balance, with the number of held files as a parameter. *)
Balanced(n) == counts["open"] = (counts["release"] + n + missed) % CountMod

LEMMA BalanceOfHeld ==
  /\ OpenReleaseBalance <=> Balanced(Cardinality(Held))
  /\ OpenReleaseBalance' <=> Balanced(Cardinality(Held))'
BY DEF OpenReleaseBalance, Held, Balanced

(* A step that counts nothing, opens and closes nothing, and takes no      *)
(* thread into a call or out of the body of an open or a release.          *)
Still ==
  /\ fds' = fds /\ missed' = missed
  /\ counts'["open"] = counts["open"] /\ counts'["release"] = counts["release"]
  /\ \A u \in Threads :
       pc'[u] \in {"down", "body"} => pc'[u] = pc[u] /\ call'[u] = call[u]
  /\ \A u \in Threads :
       Body(u, "open") \/ Body(u, "release") => pc'[u] = "body"

(* It leaves the balance alone. *)
LEMMA StillStep ==
  ASSUME Balance, Still
  PROVE  Balance'
<1>1. CallFitsFile'
  BY DEF Balance, CallFitsFile, Still
<1>2. Held' = Held
  BY DEF Held, Still, Body
<1>3. OpenReleaseBalance'
  BY <1>2, BalanceOfHeld DEF Balance, Balanced, Still
<1> QED
  BY <1>1, <1>2, <1>3 DEF Balance

(* All but five of the steps are such. *)
LEMMA StillSteps ==
  ASSUME TypeOK, NEW t \in Threads,
         \/ Up(t) \/ Reject(t) \/ ReadCopy(t) \/ ReadClear(t)
         \/ WaitDone(t) \/ WaitFirstCheck(t) \/ WaitPrepare(t) \/ WaitSleep(t)
         \/ WaitInterrupted(t) \/ WaitWoken(t) \/ WaitSignalled(t)
         \/ \E b \in ButtonSets : BusStep(t, b)
  PROVE  Still
<1> USE DEF TypeOK, Still, At, Body, Goto, history, irqVars, threadVars
<1>1. CASE Up(t)
  BY <1>1 DEF Up, Return
<1>2. CASE Reject(t)
  BY <1>2 DEF Reject
<1>3. CASE ReadCopy(t) \/ ReadClear(t)
  BY <1>3 DEF ReadCopy, ReadClear
<1>4. CASE WaitDone(t) \/ WaitFirstCheck(t) \/ WaitPrepare(t) \/ WaitSleep(t)
  BY <1>4 DEF WaitDone, WaitFirstCheck, WaitPrepare, WaitSleep
<1>5. CASE WaitInterrupted(t) \/ WaitWoken(t) \/ WaitSignalled(t)
  BY <1>5 DEF WaitInterrupted, WaitWoken, WaitSignalled
<1>6. ASSUME NEW b \in ButtonSets, BusStep(t, b) PROVE Still
  <2>1. CASE SetSpeed(t, b) \/ RmwRead(t, b) \/ RmwWrite(t, b)
    BY <2>1 DEF SetSpeed, RmwRead, RmwWrite, Bus, Edge, RmwCmds
  <2>2. CASE GetLeds(t, b) \/ GetConfig(t, b) \/ WriteConfig(t, b) \/ ReadFetch(t, b)
    BY <2>2 DEF GetLeds, GetConfig, WriteConfig, ReadFetch, Bus, Edge
  <2> QED
    BY <1>6, <2>1, <2>2 DEF BusStep
<1> QED
  BY <1>1, <1>2, <1>3, <1>4, <1>5, <1>6

(* So are those of the handler, of config_store and of the clock. *)
LEMMA OtherStillSteps ==
  ASSUME TypeOK, IsrStep \/ Environment \/ UNCHANGED vars
  PROVE  Still
<1> USE DEF TypeOK, Still, Body, history, irqVars, threadVars
<1>1. CASE IsrEnter \/ IsrWake
  BY <1>1 DEF IsrEnter, IsrWake
<1>2. ASSUME NEW b \in ButtonSets, IsrState(b) PROVE Still
  BY <1>2 DEF IsrState, Edge, Bump, Counters
<1>3. ASSUME NEW b \in ButtonSets, IsrLeds(b) \/ HwClk(b) PROVE Still
  BY <1>3 DEF IsrLeds, HwClk, Bus, Edge
<1>4. ASSUME NEW b \in ButtonSets, NEW c \in ConfigBytes, ConfigStore(b, c)
      PROVE  Still
  BY <1>4 DEF ConfigStore, Bus, Edge
<1>5. CASE UNCHANGED vars
  BY <1>5 DEF vars
<1> QED
  BY <1>1, <1>2, <1>3, <1>4, <1>5 DEF IsrStep, Environment

-----------------------------------------------------------------------------
(* The end of an open or a release: the file in transit has arrived. *)
LEMMA ArrivalSteps ==
  ASSUME IInv, Balance, NEW t \in Threads, Open(t) \/ Release(t)
  PROVE  Balance'
<1> USE DEF Body, Goto, At, history
<1>1. TypeOK
  BY DEF IInv
<1>2. /\ pc[t] = "body" /\ pc' = [pc EXCEPT ![t] = "up"]
      /\ call' = call /\ counts' = counts /\ missed' = missed
      /\ \A u \in Threads : u # t => (u \in fds' <=> u \in fds)
  BY <1>1 DEF Open, Release, TypeOK
<1>3. CallFitsFile'
  BY <1>1, <1>2 DEF Balance, CallFitsFile, TypeOK
<1>4. Held' = Held
  <2>1. CASE Open(t)
    BY <1>1, <1>2, <2>1 DEF Open, Held, TypeOK
  <2>2. CASE Release(t)
    BY <1>1, <1>2, <2>2 DEF Release, Held, TypeOK
  <2> QED
    BY <2>1, <2>2
<1>5. OpenReleaseBalance'
  BY <1>2, <1>4, BalanceOfHeld DEF Balance, Balanced
<1> QED
  BY <1>3, <1>4, <1>5 DEF Balance

(* A thread enters the driver: nothing is counted yet. *)
LEMMA EnterStep ==
  ASSUME IInv, Balance, NEW t \in Threads, NEW c \in Calls, Enter(t, c)
  PROVE  Balance'
<1> USE DEF Body, Goto, At, history
<1>1. TypeOK
  BY DEF IInv
<1>2. CallFitsFile'
  BY <1>1 DEF Balance, CallFitsFile, Enter, TypeOK
<1>3. Held' = Held
  BY <1>1 DEF Enter, Held, TypeOK
<1>4. OpenReleaseBalance'
  BY <1>3, BalanceOfHeld DEF Enter, Balance, Balanced
<1> QED
  BY <1>2, <1>3, <1>4 DEF Balance

(* The semaphore is taken and the call counted: an open adds a file that   *)
(* was not held, a release takes one away that was.                        *)
LEMMA AcquireStep ==
  ASSUME IInv, Balance, NEW t \in Threads, Acquire(t)
  PROVE  Balance'
<1> USE DEF Body, Goto, At, history
<1> DEFINE n == Cardinality(Held)
<1>1. TypeOK
  BY DEF IInv
<1>2. /\ pc[t] = "down" /\ pc' = [pc EXCEPT ![t] = "body"]
      /\ call' = call /\ fds' = fds /\ missed' = missed
      /\ counts' = [counts EXCEPT ![CounterOf(call[t])] = (@ + 1) % CountMod]
  BY DEF Acquire, Bump
<1>3. CallFitsFile'
  BY <1>1, <1>2 DEF Balance, CallFitsFile, TypeOK
<1>4. CountMod \in Nat \ {0} /\ counts["release"] \in Nat /\ missed \in Nat
  BY <1>1, CountAssumption DEF TypeOK, Counters
<1>5. n \in Nat /\ Balanced(n)
  BY FS_CardinalityType, BalanceOfHeld DEF Balance
<1>6. CASE call[t] = "open"
  <2>1. t \notin Held /\ Held' = Held \cup {t}
    BY <1>1, <1>2, <1>6 DEF Balance, CallFitsFile, Held, TypeOK
  <2>2. IsFiniteSet(Held') /\ Cardinality(Held') = n + 1
    BY <2>1, FS_AddElement DEF Balance
  <2>3. /\ counts'["open"] = (counts["open"] + 1) % CountMod
        /\ counts'["release"] = counts["release"]
    BY <1>1, <1>2, <1>6 DEF TypeOK, Counters, CounterOf, FileOps
  <2>4. OpenReleaseBalance'
    BY <1>2, <1>4, <1>5, <2>2, <2>3, BalanceOfHeld, CountOpen DEF Balanced
  <2> QED
    BY <1>3, <2>2, <2>4 DEF Balance
<1>7. CASE call[t] = "release"
  <2>1. t \in Held /\ Held' = Held \ {t}
    BY <1>1, <1>2, <1>7 DEF Balance, CallFitsFile, Held, TypeOK
  <2>2. IsFiniteSet(Held') /\ Cardinality(Held') = n - 1
    BY <2>1, FS_RemoveElement DEF Balance
  <2>3. n # 0
    BY <2>1, FS_EmptySet DEF Balance
  <2>4. /\ counts'["release"] = (counts["release"] + 1) % CountMod
        /\ counts'["open"] = counts["open"]
    BY <1>1, <1>2, <1>7 DEF TypeOK, Counters, CounterOf, FileOps
  <2>5. OpenReleaseBalance'
    BY <1>2, <1>4, <1>5, <2>2, <2>3, <2>4, BalanceOfHeld, CountRelease DEF Balanced
  <2> QED
    BY <1>3, <2>2, <2>5 DEF Balance
<1>8. CASE call[t] \notin {"open", "release"}
  <2>1. Held' = Held
    BY <1>1, <1>2, <1>8 DEF Held, TypeOK
  <2>2. /\ counts'["open"] = counts["open"]
        /\ counts'["release"] = counts["release"]
    BY <1>1, <1>2, <1>8 DEF TypeOK, Counters, CounterOf, FileOps
  <2>3. OpenReleaseBalance'
    BY <1>2, <1>5, <2>1, <2>2, BalanceOfHeld DEF Balanced
  <2> QED
    BY <1>3, <2>1, <2>3 DEF Balance
<1> QED
  BY <1>6, <1>7, <1>8

(* A signal at the semaphore: the file of a release is gone uncounted. *)
LEMMA InterruptedStep ==
  ASSUME IInv, Balance, NEW t \in Threads, DownInterrupted(t)
  PROVE  Balance'
<1> USE DEF Body, Goto, At, history
<1> DEFINE n == Cardinality(Held)
<1>1. TypeOK
  BY DEF IInv
<1>2. /\ pc[t] = "down" /\ pc' = [pc EXCEPT ![t] = "user"]
      /\ call' = [call EXCEPT ![t] = None] /\ counts' = counts
  BY DEF DownInterrupted, Return
<1>3. CountMod \in Nat \ {0} /\ counts["release"] \in Nat /\ missed \in Nat
  BY <1>1, CountAssumption DEF TypeOK, Counters
<1>4. n \in Nat /\ Balanced(n)
  BY FS_CardinalityType, BalanceOfHeld DEF Balance
<1>5. CASE call[t] = "release"
  <2>1. fds' = fds \ {t} /\ missed' = (missed + 1) % CountMod
    BY <1>5 DEF DownInterrupted
  <2>2. CallFitsFile'
    BY <1>1, <1>2, <2>1 DEF Balance, CallFitsFile, TypeOK
  <2>3. t \in Held /\ Held' = Held \ {t}
    BY <1>1, <1>2, <1>5, <2>1 DEF Balance, CallFitsFile, Held, TypeOK
  <2>4. IsFiniteSet(Held') /\ Cardinality(Held') = n - 1
    BY <2>3, FS_RemoveElement DEF Balance
  <2>5. n # 0
    BY <2>3, FS_EmptySet DEF Balance
  <2>6. counts["open"] =
          (counts["release"] + (n - 1) + ((missed + 1) % CountMod)) % CountMod
    <3> HIDE DEF n
    <3>1. counts["open"] = (counts["release"] + n + missed) % CountMod
      BY <1>4 DEF Balanced
    <3>2. (counts["release"] + (n - 1) + ((missed + 1) % CountMod)) % CountMod =
            (counts["release"] + n + missed) % CountMod
      <4>1. n \in Nat \ {0}
        BY <1>4, <2>5
      <4> QED
        BY <1>3, <4>1, CountMissed, Zenon
    <3> QED
      BY <3>1, <3>2
  <2>7. OpenReleaseBalance'
    BY <1>2, <2>1, <2>4, <2>6, BalanceOfHeld DEF Balanced
  <2> QED
    BY <2>2, <2>4, <2>7 DEF Balance
<1>6. CASE call[t] # "release"
  <2>1. fds' = fds /\ missed' = missed
    BY <1>6 DEF DownInterrupted
  <2>2. CallFitsFile'
    BY <1>1, <1>2, <2>1 DEF Balance, CallFitsFile, TypeOK
  <2>3. Held' = Held
    BY <1>1, <1>2, <2>1 DEF Held, TypeOK
  <2>4. OpenReleaseBalance'
    BY <1>2, <1>4, <2>1, <2>3, BalanceOfHeld DEF Balanced
  <2> QED
    BY <2>2, <2>3, <2>4 DEF Balance
<1> QED
  BY <1>5, <1>6

-----------------------------------------------------------------------------
(* After the probe nothing is open and nothing counted. *)
LEMMA BalanceInit == Init => Balance
<1> SUFFICES ASSUME Init PROVE Balance
  OBVIOUS
<1>1. CallFitsFile
  BY DEF Init, CallFitsFile
<1>2. Held = {}
  BY DEF Init, Held, Body
<1>3. IsFiniteSet(Held) /\ Cardinality(Held) = 0
  BY <1>2, FS_EmptySet
<1>4. 0 % CountMod = 0
  BY CountAssumption
<1>5. Balanced(0)
  BY <1>4 DEF Init, Balanced, Counters
<1> QED
  BY <1>1, <1>3, <1>5, BalanceOfHeld DEF Balance

(* Every step of the driver keeps the balance. *)
LEMMA BalanceNext == IInv /\ Balance /\ [Next]_vars => Balance'
<1> SUFFICES ASSUME IInv, Balance, [Next]_vars PROVE Balance'
  OBVIOUS
<1>1. TypeOK
  BY DEF IInv
<1>2. ASSUME NEW t \in Threads, (\E c \in Calls : Enter(t, c)) \/ Acquire(t)
      PROVE  Balance'
  BY <1>2, EnterStep, AcquireStep
<1>3. ASSUME NEW t \in Threads, Run(t) \/ Signal(t) PROVE Balance'
  <2>1. CASE Open(t) \/ Release(t)
    BY <2>1, ArrivalSteps
  <2>2. CASE DownInterrupted(t)
    BY <2>2, InterruptedStep
  <2> QED
    BY <1>1, <1>3, <2>1, <2>2, StillSteps, StillStep DEF Run, Local, Signal
<1>4. CASE IsrStep \/ Environment \/ UNCHANGED vars
  BY <1>1, <1>4, OtherStillSteps, StillStep
<1> QED
  BY <1>2, <1>3, <1>4 DEF Next

(* The counters of opens and releases, of whatever width, account for the  *)
(* open files except for the releases that a signal ended at line 73.      *)
THEOREM OpensAndReleasesBalance == Spec => []OpenReleaseBalance
<1>1. Balance => OpenReleaseBalance
  BY DEF Balance
<1> QED
  BY <1>1, BalanceInit, BalanceNext, Invariance, PTL DEF Spec
=============================================================================
