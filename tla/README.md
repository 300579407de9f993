# Verification of the DE1-SoC blinker system

TLA+ models, TLC runs and TLAPS proofs for the repository's own code: the
`blinker` peripheral in VHDL, the Linux drivers that expose it, and what
surrounds them. Paths below are relative to `src/`.

## 1. The system

The DE1-SoC board carries an ARM host and an FPGA. The FPGA holds a small
Avalon peripheral, `blinker`, that moves a light pattern over eight LEDs. Four
buttons change its speed and mode and raise an interrupt; the host reads and
writes its registers over the bus. Two Linux drivers and a few `/dev/mem` tools
use it. A boot script configures the FPGA through U-Boot, opens the bridges
between host and FPGA and starts Linux; the U-Boot code behind its commands is
modelled where the FPGA and the bridges depend on it. Everything else in the
repository (the rest of U-Boot, buildroot, generated hardware descriptions,
`hps.h`) is third-party or generated and out of scope.

| Component | State | Operations | Interacts with |
|---|---|---|---|
| Peripheral `DE1-SoC/ip/blinker/blinker.vhd` | `speed`, `mode`, `running`, `ena_irq`, `irq`, `count`, `position`; pulse shaper `cur_value`, `last_value` | clock edge, reset; SPEED/CONFIG write, LEDS/STATE read | bus master, buttons, interrupt controller |
| Misc driver `driver/blinker_misc_module/src/blinker_misc_module.c` | device semaphore, `g_irq_lock`, `interrupt_flag`, wait queue, counters | open, release, ioctl, read, write, interrupt handler, `config_store`, probe, remove | peripheral by registers and interrupt; user threads |
| Platform driver `driver/blinker_pd_module/src/blinker_pd_module.c` | `blinker_map_mem`, memory region, sysfs file, bound or not | init, probe with error paths, remove, exit, `leds_show` | driver core, sysfs readers |
| devmem tools `driver/blinker_devmem_test`, `driver/test`, `driver/gpio_test` | none that lasts | parse, validate, one register access | peripheral, behind the drivers' back |
| `displays_test.vhd`, `gpio_test.vhd` | a few registers | bus write, read | bus master |
| Boot: `DE1-SoC/boot.script`, `socfpga_common.h` | environment (`fdtimage`, `filesize`), memory at `$fpgadata`, `$loadaddr`, `$fdtaddr` | `bootcmd`, the six lines of the script, retry, prompt | SD card, FPGA manager, bridges |
| FPGA manager: `fpga_manager.c` of U-Boot | control register, DCLK counter, poll counters | `fpgamgr_program_fpga` | FPGA configuration logic, bridges |
| Bridges: `misc.c`, `reset_manager.c`, `system_manager.c`, `sdram.c`, `spl.c` of U-Boot | four registers: FPGAINTF, FPGAPORTRST, bridge reset, L3 remap | preloader, `bridge_enable_handoff`, `bridge_disable` | FPGA |
| `DE1_SoC_top.vhd`, `sdcard/make_sdimage_p3.py` | none | wiring; image layout | |

What is hard in it: several threads, an interrupt handler on another CPU and a
free-running peripheral touch the same registers; reading STATE is also the
acknowledgement of the interrupt; two different locks guard overlapping things;
`read()` sleeps with the semaphore held; signals cut waits short; probe can fail
at each step while programs already read the sysfs file; a load of the FPGA can
fail, time out or be cut off by the watchdog in every phase, and the script goes
on whatever a command returns. The full list, with source lines, is under `hazards` in `PROJECT.json`.

What makes the parts correct:

* peripheral: registers keep their widths, the pattern is a walk and never
  stalls, documented register layout and speed scale;
* misc driver: exclusion by the two locks, no lost wake-up, no stolen or lost
  event, no stale read-modify-write, speed stays on its scale, semaphore always
  given back, interrupts always served;
* platform driver: every way out gives back what was taken, running file
  operations have a mapping, probe and remove end, failure is reported;
* boot: a load that reports success has succeeded, whatever came before it;
  bridges are not open over an FPGA without a design; the kernel finds the
  peripherals its device tree names; the boot ends.

## 2. Modules

| Module | Models |
|---|---|
| `BlinkerRegs` | registers and interrupt logic of the peripheral; `Clk(b, bus)` is one clock edge with the buttons `b` at '1' and the transfer `bus` |
| `Blinker` | the whole peripheral: `BlinkerRegs` plus shift generation, leds manager and reset |
| `PulseShaper` | the sampling registers and the wire that bypasses them |
| `BlinkerMisc` | the misc driver composed with `BlinkerRegs`: threads, handler, `config_store`, buttons |
| `BlinkerPd` | the life cycle of the platform driver with concurrent `leds_show` |
| `EventChannel` | abstract specification of `read()`: one pending event, handed to exactly one reader |
| `FpgaManager` | `fpgamgr_program_fpga` against the configuration logic of the FPGA |
| `Boot` | preloader, `bootcmd`, boot script and resets; extends `FpgaManager` |
| `MC...` | values of the constants for TLC |
| `BlinkerRegsProofs`, `BlinkerProofs`, `BlinkerMiscProofs`, `EventChannelProofs`, `BalanceProofs`, `BlinkerPdProofs`, `BootProofs` | lemmas and theorems |

Definitions named `X_Something` after a definition `X` and introduced as "a
faulty variant" are not part of a specification: they are the bugs against
which the properties were tried.

### Correspondence to the code

**Peripheral.** A VHDL process becomes one operator with its name for the next
value of its register (`SpeedNext`, `ModeNext`, ...), in the order of its
`if`/`elsif` branches; `Clk` conjoins them. Bits are 0 and 1, vectors are
naturals with their width kept by `%`; a button vector is the set of bits at
'1'. `delay & X"00000"` is `Delay * TickScale` with `TickScale = 2^20` in the
hardware. The Avalon slave of `blinker_hw.tcl` has one read wait cycle: a read
occupies two edges and returns the value before the second one. The first edge
with the read asserted differs from an idle one only in clearing `irq`, and the
second clears or raises it again in the same way whatever the first did, so one
idle edge followed by one read edge has the same effect, and a read is one step.

**Misc driver.** `pc[t]` is the next statement of thread `t` that anyone else
can tell apart; the labels follow the source:

| Label | Statement |
|---|---|
| `down`, `up` | `down_interruptible`, `up` on the device semaphore |
| `body` | the first statement after the semaphore is taken |
| `rmw` | between `ioread8(STATE)` and `iowrite8(CONFIG)`, spinlock held |
| `prepare`, `check`, `sleep` | the loop of `wait_event_interruptible` |
| `clear`, `fetch`, `copy` | lines 279, 283, 285 of `read` |

The handler's labels are `spin` (entered, waiting for the lock), `leds` (STATE
read, lock held) and `wake` (flag set, lock released). A critical section with a
single access is one step that needs the lock to be free. `config[t]` is the byte
the read-modify-write will write, computed from `current_config` when it is read.
User memory is read when the code reads it, so its value and a fault are choices
of that step. `counts` holds the five statistics counters and `g_irq_count`,
modulo `CountMod` (2^32 in the code). `event`, `pressed` and `missed` are history
variables: the program never reads them. `event` follows a button event from the
edge that raises the interrupt over its acknowledgement by the handler to the
fetch by a reader; `pressed` collects the buttons seen while a read-modify-write
is under way. A file descriptor is a thread's
membership in `fds`; `private_data` is always the one device.
`down_interruptible` fails only when it would have to sleep.
`wait_event_interruptible` prefers the condition to a pending signal.
`IOC_GET_CONFIG` has a handler but no number in `blinker_module.h`, and
`IOC_SET_SPEED` is defined with a misspelt type; both are modelled as the
handlers read.

**Platform driver.** `at` is the next step of the driver core inside probe or
remove. `OtherDriver` is any driver that uses the same addresses, such as the misc
driver. `release_mem_region` goes by address, so a release frees the region
whoever requested it; `other` is what the other driver believes, `region` what the
kernel has. `driver_remove_file` hides the file and then waits for running
operations, as sysfs does. A `leds_show` without a mapping faults and never
returns. `ret` is tracked because its value decides whether the device is bound.

**Event channel.** `BlinkerMisc` implements `EventChannel` under the mapping
`Channel`: the pending event is `interrupt_flag`, a reader waits from the
semaphore to the clearing of the flag, and has taken the event from there to
the STATE fetch. `ImplementsChannel` says that each step of the driver is a step
of the channel or none: an event goes to one reader, and no reader returns
interrupted while an event is pending. The liveness of the channel, `Served`, is
the property `ReaderServed` of the driver.

**FPGA manager.** `fm` is the polling loop `fpgamgr_program_fpga` is in, `i` its
counter. The seven loops share `PollAgain`, `PollSeen` and `PollFails`; what
distinguishes them is in tables: what each waits for (`Seen`), what it clears or
sets afterwards (`CtrlAfter`, `DclkAfter`), and which come back to the mode after
the counter has run out (`InTime`). An error return leaves everything as it is.
The `Hw` actions are the configuration logic, external to the repository: they
are the phases the loops wait for, taken at any time or never. It enters reset
only by nCONFIG, and only a whole image raises CONF_DONE.

**Boot.** `at` is the next command. `fatload` either loads the file, leaves
memory as it was, or leaves a part of the file. `image` is what the first
`$filesize` bytes at `$fpgadata` are, where script and bit stream share the
memory; `source` and `run` work on copies. An empty file counts as a failed
`fatload` (`fs/fs.c`, `do_load`: `len_read <= 0` returns before `filesize` is set),
so `$filesize` is never 0 and `fpga load` always gets to `fpgamgr_program_fpga`. The bridges are a set of open paths:
the three AXI bridges, the peripheral signals, the SDRAM port and the L3 remap.
`WatchdogReset` stands for the watchdog and for a reboot of Linux, at any point and
any number of times: the registers
of the FPGA manager take their reset values, the FPGA keeps its configuration,
each bridge is closed or left, memory is kept or lost. The environment is the
default one after each reset. `hung` is `hang()` in the
preloader, an endless loop that only the watchdog ends. Two history variables:
`blind` records that the script opened the bridges after a failed load, until they
are all closed again, and `leftover` that what is at `$fdtaddr` was there before
the last reset.

### Abstractions

Messages and logging are left out. LED values read by `leds_show` and `GET_LEDS`
are not followed. The misc driver starts in the state a successful probe leaves,
with the peripheral after reset. `speed_store`, `state_show` and `leds_show` of
the misc driver have no body in the source.

## 3. Runs

| Run | Instance | Shows |
|---|---|---|
| `blinker_safety` | tick scale 2, each button alone and all four, all distinct transfers | widths; one lit LED; sweep is a walk; every running cycle brings the end of the round nearer |
| `blinker_live` | tick scale 1, speeds 0, 1, 15 and the slower and pause buttons | the running pattern never stalls |
| `misc_safety` | 2 threads, all calls, one button | exclusion, wake-ups, events, read-modify-writes; the interrupt enable is what the ioctls made it; the holder of the semaphore only goes forward; `read()` implements the event channel |
| `misc_limits` | 3 threads opening, closing and setting speeds, words around both bounds and around 256, faster and slower buttons, counters modulo 4 | speed stays on 1..15; counters account for open files and missed releases |
| `misc_live` | 2 threads, fairness | readers, interrupts and callers are served |
| `pd_lifecycle` | 3 readers, another owner of the region, 4 clock references, fairness | nothing leaks, no access without mapping, a connected device keeps what it has, the other's region is lost only to line 210 after a failed probe, probe and remove never go back and end |
| `boot` | 2 polls per loop, any number of resets, a handoff with something in each of the four registers, fairness | loads succeed when they say so, on a fresh FPGA; bridges and kernel meet a design unless the script ignored a failure; the boot ends or is reset again and again, and between resets takes a bounded number of steps |

Bounds. Two threads suffice for every pairwise race between file operations,
since the semaphore lets one through at a time; a third shows a queue behind
it. All buttons act alike on the interrupt; `CHANGE_MODE` is the one that also
changes a register carried by read-modify-writes. `UserWords` has low bytes
below, on and above each bound, some only after truncation. `CountMod = 4`
exceeds the number of threads and lets the counters wrap; where nothing depends
on the counters `CountMod = 1` removes them. In `pd_lifecycle` the deadlock check
is off, because the system really may stop: after a fault of `leds_show` in the
window of line 148 the removal of the file waits for ever. Two polls per loop (2^24 in the code) let
an answer come at the first poll, the last one, after it, and never. Resets are
not bounded: only that there was one is kept. The handoff of this board opens only `lwhps2fpga` and the
remap; the instance has more, so that each step of the preloader matters.

Fairness. `Blinker`: the clock runs (no reset any more). `BlinkerMisc`: strong
fairness for each thread inside the driver, for the semaphore and for the
handler, because the kernel semaphore and the ARM ticket spinlock are first come,
first served; nothing is assumed of users, signals, buttons or `config_store`.
`BlinkerPd`: weak fairness for a probe or remove that has begun and for a
running `leds_show`. `Boot`: weak fairness for the processor's own steps, and for
the watchdog in `hang()`, which does not service it (`s_init.c:66` starts it);
nothing for the FPGA, the card and the user. Elsewhere a reset may come or not. The
polls of a load do not service the watchdog either, so a silent FPGA can reset the
board in every boot; `BootEnds` therefore says that every boot ends, although the
FPGA may never answer, or resets recur for ever.

### Disagreements found

| Run | The code | The text |
|---|---|---|
| `blinker_max_speed` | speed 0 is accepted and faster than 15 | tool help: "15: max speed" |
| `blinker_config_bits` | bit 0 of CONFIG is the mode, bit 1 running | tool help: "000000ms" |
| `pulse_shaper` | a held button acts at every clock edge | "Pulse shaper" |
| `pd_failed_probe` | a failed probe returns 0 and stays bound | "blinker device connect FAILED" |
| `boot_bridge_disable` | `bridge_disable` writes 0 to the bridge reset register and so opens all three AXI bridges | "command to disable all bridges" |

STATE shows the mode in bit 1 and running in bit 0, as the tool help and the masks
of `blinker_module.h` have it; CONFIG takes them the other way round. So every
read-modify-write of the misc driver swaps mode and running, and
`IOC_SET_RUNNING` sets the mode.

## 4. Proofs

All theorems hold for every value of the constants under the named assumptions
of the modules: a positive `TickScale` and `CountMod`, a natural `MaxClks`,
inputs of the right type, and thread names distinct from `None` and `Isr`.

* `BlinkerProofs`: `TypeCorrect` is inductive by itself, from `ClkType` (one edge
  keeps the widths) and `ShiftType`. `SweepLights` follows from the range of
  `position`, `SweepWalks` from the table and the step of the position.
  `PatternKeepsPace` shows that `WrapWithin`, the cycles to the wrap at the
  slowest speed, falls with every running cycle: a reload adds at most what one
  position less takes away, whatever the speed register holds at that edge.
* `BlinkerMiscProofs`: the invariants are inductive only together. `IInv` is
  their conjunction in two parts, `Control` (locks, queue, flag, events) and
  `Registers` (bits of pending read-modify-writes, speed). `Ownership` is the
  strengthening: that one thread at most is past the semaphore gives
  `NoStolenInterrupt`; that the spinlock owner is the thread at `rmw` keeps
  `config_store` and other read-modify-writes out, and with `pressed` accounting
  for the buttons gives `NoStaleConfig`. The proof has one step per action and
  under it one per part. `IoctlsEnable` takes the commands that leave the
  enable alone from `NoStaleConfig`; for `ENA_INT` and `DIS_INT` it needs that the
  byte about to be written has the bit they set (`EnableCarried`), an induction of
  its own on top of `IInv`. `HoldersAdvance` is `StepsLeft` as a variant of the thread inside
  the semaphore; `IInv` gives that no other reader clears its flag.
* `EventChannelProofs`: `ChannelImplemented`, the refinement. Initial states map
  to initial states; the steps are sorted into those that leave the mapping alone
  and those that are a `Post`, `Arrive`, `GiveUp`, `Take` or `Look`. `IInv` is
  what makes `Arrive` find nobody and `Take` a pending event.
* `BalanceProofs`: `OpensAndReleasesBalance`. The counters wrap, so the argument
  is about remainders modulo `CountMod` (`ModSum` and the three lemmas after it,
  one for each way a file can come or go). `Held` is the set of open files, those
  in transit counted as what they are becoming. Next to `IInv` the induction
  needs that an open is made by a thread without the file and everything else by
  one with it (`CallFitsFile`), so that taking the semaphore changes `Held` by
  exactly one thread, and that `Held` is finite. The set of threads need not be:
  finiteness is carried along, from no file at all one at a time.
* `BlinkerPdProofs`: `PdInv` says for each step of probe and remove what the
  driver holds (`Phase`), and that a running `leds_show` has its file or is being
  waited for (`Shows`). The invariants speak of resting states only and are not
  inductive without it. `HoldsRegion` is the part about the other driver: a region
  requested while nobody else counted on it stays the driver's, since the other
  can neither request nor release it; `RegionsKept` uses it to show that only the
  remove after a failed probe breaks this. `TypeCorrect` comes from the same induction.
  `CleanupGoesOn` has `PhasesLeft` as its variant; while the removal of the file
  waits, no `leds_show` begins because `PdInv` has the file hidden there.
* `BootProofs`: `BootInv` is `TypeOK` with four parts: `Fpga` (what pins and data
  the FPGA has in its phases, whatever loads and resets did), `Phase` (what each
  loop of a running load knows of the FPGA, and that a successful load has let
  go of it), `Open` (which paths may be open at which command), and `Tree` (where the
  tree in memory comes from). `Phase` is needed because a failed load returns from the middle:
  the next one meets the FPGA in any phase, and only the two loops after nCONFIG
  establish what the rest relies on. The theorems hold for every timeout
  and handoff and any number of resets. `BootHasBound` gives the boot a variant,
  `BootLeft`: at most 7 * (TIMEOUT + 1) + 18 processor steps from a reset to
  Linux, the prompt or `hang()`, whatever the FPGA and the card do.

Only model-checked: the liveness properties `PatternAdvances`, `ReaderServed`,
`IrqServed`, `DownServed`, `LifecycleEnds` and `BootEnds`, because fairness and
`ENABLED` are out of the prover's reach. The half of them that needs no fairness
is proved: `PatternPaced`, `HolderAdvances`, `CleanupAdvances` and `BootBounded`
say that each step taken brings the end nearer and that nothing sends it away
again. What is left to the runs is that a next step is always possible and is
taken. Every invariant and every action property of a passing run, and the
refinement, is stated by a theorem.

## 5. Not modelled

* Probe, remove, init and exit of the misc driver, and the bodies of its
  `leds_show`, `state_show`, `speed_store`: large parts are dashed lines in the
  source, among them the steps between those shown and the labels the error
  paths jump to. `config_store` is modelled as far as it is there. Hazards the
  visible order shows are listed in `PROJECT.json` with a note.
* The methods of the platform driver whose files are never created.
* The devmem tools, `displays_test`, `gpio_test`: one register access per call,
  or registers that do not interact; no state or ordering to check. The tools'
  description of the registers is checked by two runs.
* Top-level wiring (no state), the image tool (drives `fdisk`, `dd`, `mkfs`), the
  build scripts.
* The rest of U-Boot, buildroot and the SDRAM sequencer: vendored code for many
  boards, and generated files. They make up nearly all lines of the repository.

## 6. Order of work

The peripheral and the misc driver came first, then the platform driver, the
event channel with its refinement, and the boot; the proofs followed in the same
order, the balance of the counters and the variants of the liveness properties
last. What remains open is the life cycle of the misc driver, once its source is
complete.
