# Verification of the i.MX6ULL drivers

TLA+ modules, TLC runs and TLAPS proofs for the Linux 4.9 drivers of this
repository: GPIO keys, an EEPROM and the I2C adapter below it, LEDs, a kernel
thread, and the character device helper most of them share. Line numbers below
are those of the files under `src/`.

1. [Inventory](#inventory)
2. [Modules and how they correspond to the code](#modules)
3. [Runs, bounds and fairness](#runs)
4. [What is proved](#proofs)
5. [What the checks found](#found)
6. [What is not modelled](#not-modelled)
7. [Plan](#plan)

<a id="inventory"></a>
## 1. Inventory

Each directory is one loadable module and, for some, a test application.

| component | code | state | operations |
|---|---|---|---|
| character device helper | `*/my_chr_dev.c` (seven copies) | `my_char_device_info`: number, cdev, class, device | `register_my_char_device`, `unregister_my_char_device` |
| dynamic character device | `dyn_chr_dev/dyn_chr_dev.c` | one `mydev_info` | init, exit |
| key drivers that read | `my_gpio_key_read` (timer), `_tasklet`, `_workqueue` | `g_key_pressed`, `g_key_status_updated`, wait queue, `g_gpio_key_infos` | interrupt, bottom half, read, probe, remove, init, exit |
| key driver with poll | `my_gpio_key_poll` | the same globals | interrupt, poll, read, probe, remove, init, exit |
| key driver with SIGIO | `my_gpio_key_sig` | the same globals and `g_fasync` | interrupt, fasync, read, probe, remove, init, exit |
| key driver that logs | `my_gpio_key` | `g_gpio_key_infos` | interrupt, probe, remove, init, exit |
| EEPROM driver | `my_eeprom` | `g_client`; in the chip: the bytes, an address counter, a write cycle | ioctl READ and WRITE, probe, remove |
| LED by registers | `my_led` | three mapped registers | open, write, init, exit |
| LED by device tree | `my_led_dtree_and_pdriver` | `my_led_gpio`, `my_led_state` | show, store, probe, remove |
| kernel thread | `kthread_module` | `thread` | thread function, init, exit |
| reference driver i2c-imx | `my_i2c-gpio/reference source code`, `i2c-imx.c` (here "imx") | `imx_i2c_struct`, the registers of the controller, clock and runtime PM counts, DMA channels and mapping | transfer, interrupt, probe, remove, runtime suspend and resume, DMA callback |
| reference driver i2c-gpio | the same directory, `i2c-gpio.c`, `of_gpio.h` | - | hands two pins to an algorithm outside the repository |

How they interact, what is hard about it, and what makes each correct:

- **Keys to programs.** An interrupt handler (and, in three drivers, the bottom
  half it schedules) stores the status of a key and raises a flag; any number
  of threads sleep on the flag in `read` or `poll(2)`, lower it and copy the
  status. The two globals belong to all keys and all open files, and no lock
  protects them: every order of the accesses happens. Correct means: no
  wake-up is lost, the last update is never left behind, every update is
  consumed, the level at which a key comes to rest is read, and with SIGIO no
  update waits without a signal.
- **Coming and going.** init and exit, probe and remove (also through `bind`
  and `unbind` in sysfs) take and give back descriptors, interrupts, memory
  and a character device, while interrupts, timers, tasklets and work items
  strike in between, and any call may fail. Correct means: the kernel never
  holds a pointer into memory that is gone, an unbound driver holds nothing,
  and unloading ends.
- **Character devices.** Several modules make and remove theirs side by side
  out of one pool of numbers. Correct means: whole or absent, whatever fails,
  no object outlives those it rests on, and no number leads to two drivers.
- **EEPROM.** Several processes call the ioctl; the driver has no lock, only
  the I2C adapter has. After a write the chip is deaf for some milliseconds.
  Correct means: to its callers it is a memory, success means that the chip is
  through, a timeout has a cause, and every call comes back.
- **LEDs.** Registers changed by read-modify-write by everybody who has the
  device open, and shared with the GPIO driver; a device that can be opened
  before its registers are mapped; attribute files that exist before and after
  the descriptor they use. Correct means: each bit is what its owner made it,
  users find what they use, only the holder drives the pin, and a failed or
  ended binding leaves nothing behind.
- **The thread.** It runs in the text of its module; an error pointer is tested
  for NULL. Correct means: exit returns when the thread has, and not before.
- **The I2C adapter.** The EEPROM driver's transfers go through it. The driver
  starts a byte, an interrupt stores its end in `i2csr`, and a timeout gives it
  up; nothing ties the two together. Transfers come from when the adapter is
  registered until it is deleted, while the device is suspended, resumed, put
  to sleep, or removed. By DMA, a callback may come after the timeout. Correct
  means: the answer is true, the clock runs while registers are used, every
  transfer ends, what it uses is there, and everything is given back; and the
  bus is as fast as was asked for and no faster, although others change the
  clock.

The repository builds nothing from `my_i2c-gpio`; `i2c-imx.c` is modelled since
it is the largest piece of code in it and the lower half of the EEPROM driver's
bus.

`PROJECT.json` lists the hazards line by line, with the properties that cover
each one.

<a id="modules"></a>
## 2. Modules and how they correspond to the code

| module | models | kind |
|---|---|---|
| `KeyRead` | event path of the three drivers with a bottom half | detailed |
| `KeyMailbox` | what such a driver, and those of `KeyPoll`, promise: a mailbox of one slot | abstract |
| `KeyPoll` | event path of the poll and the SIGIO driver with their applications | detailed |
| `KeyLifecycle` | init, exit, probe, remove, bind and unbind of all six key drivers; uses `CharDev` | detailed, composed |
| `CharDev` | the character device helper, call by call, for several modules | detailed |
| `CharDevice` | what the helper promises: whole or absent | abstract |
| `EepromLifecycle` | loading, binding, probe and remove of the EEPROM driver, with open files; extends `CharDev` | detailed, composed |
| `Eeprom` | the ioctl, `wait_eeprom_ready`, the bus and the chip | detailed |
| `EepromMemory` | what the ioctl promises: a memory | abstract |
| `LedClass` | the LED by device tree: probe, remove, show, store | detailed |
| `LedRegisters` | the LED by registers: init, exit, open, write, access by access, and the GPIO driver | detailed |
| `KthreadModule` | init, exit and the function of the thread | detailed |
| `I2cImx` | one transfer of i2c-imx at a time, byte by byte, with interrupt, controller and slave | detailed |
| `I2cImxDevice` | probe, remove, runtime PM and system sleep of i2c-imx around its transfers | detailed |
| `I2cImxDma` | the DMA transfers of i2c-imx: buffer, mapping, engine, callback, completion | detailed |
| `I2cImxClock` | `i2c_imx_set_clk` and the registers it leads to: the divider and the delay, from transfer to transfer | detailed |
| `MC*` | constants and symmetry for TLC; `MCSmallModules` and `MCI2cImx` run three and four modules that do not interact, one at a time | - |
| `*Proofs` | theorems | - |

An action whose comment begins "Seeded bug" is not part of any specification:
it is a plausible mistake in the code next to it, kept to show that a property
notices it (`PROJECT.json`, "mutants").

**KeyRead.** `irq` is the interrupt latch of each key; `Defer` is
`my_gpio_key_irq`, in one variant per driver (`mod_timer`, `tasklet_schedule`,
`schedule_work`); the driver is one of `Deferrals`, chosen in `Init`. A bottom
half is taken off the list before it runs, so it may be scheduled again
meanwhile (`Start`); then each access of its function is an action: `GetValue`,
`StorePressed` (line 93), `StoreFlag` (94), `WakeUp` (95). A reader walks
through `my_chr_read`: the test for `O_NONBLOCK` (38), the loop of
`wait_event_interruptible` (42) unfolded into `FirstTest`, `Prepare`, `Test`,
`Awake` and `Interrupted`, then `Clear` (44) and `Copy` (45). `SMP` chooses
between one core and several; `InOrder` says whether the two plain stores of
the bottom half are seen in the order written, and everything else is
sequentially consistent. `posted` and `got` are history variables that number
the statuses modulo `Numbering`; `shown` is one, too: the key whose status is
stored, in a set, which a bottom half that cannot read the pin of that key
empties.

**KeyPoll.** The handler does it all: `Compare` (94) with the last status,
`StoreFlag` before `StorePressed` (95, 96), `WakeUp` (97) and, in the SIGIO
driver, `KillFasync`. The loop of `poll(2)` around `my_chr_poll` is external
and modelled by what it does: wait queue, question, sleep, question again. The
applications are those of the repository: one loops around `poll` and `read`,
the other reads in its signal handler, with SIGIO blocked meanwhile. They may
end and start again. `shown` is the set of keys that the stored status speaks
for: the one that stored it, and those that found their level there already and
were dropped in line 94. `Mailbox` maps the module to `KeyMailbox`: on one core
the first of the two stores is the post, since nobody looks before the second.

**KeyLifecycle.** `binder` is the next call of probe or remove, `loader` that
of init or exit; `idx_gpio` is the loop counter of both loops. Each call that
takes or gives back something is an action, and each that may fail has a second
one. `irq`, `ready`, `pending` and `running` are what the kernel may use of
each key; `health` records the first pointer that led nowhere, and `halfway`
that a probe failed after it had taken something. `driver` and `smp` choose the
driver and the kernel in `Init`, so that one run holds all of them. The
character device is an instance of `CharDev` on the same four variables.

**CharDev.** One action per kernel call of `my_chr_dev.c` and one per label
and failing call. Modules share the pool `DevNums`. `CharDevice` is its
refinement target. Every caller passes major 0, so that
`register_chrdev_region` (line 14) is never reached.

**EepromLifecycle.** `StartProbe` and `StartRemove` start the helper's two
functions, whose calls are the steps of `CharDev`; line 148, which sets
`g_client`, comes with the answer (`ProbeSucceeds`), so that the device file is
there before the pointer is. The callers open, call and close; a `Transfer`
needs the pointer, and `NullClient` is what happens without it. The other
members of `Devices` are modules that do nothing else, as `dyn_chr_dev`.

**Eeprom.** `pc` is where a process is: "ioctl" before its first transfer,
"copy" before `copy_to_user`, "poll" and "msleep" in `wait_eeprom_ready`. One
`i2c_transfer` is one action, since it holds the adapter's lock. `Exceeds` is
the check of lines 99-100 in 32-bit unsigned arithmetic (`U32`), `U8` the
truncation of the offset; the memory size of 256 is also the range of a `u8`,
so both are `Size`. The chip (external) stores in a circle, is busy for at most
`Cycle` milliseconds after it was given a byte, and acknowledges nothing
meanwhile; a byte of the readiness poll moves its address counter. `Tick` is a
millisecond; `msleep(1)` lasts at least one. A bus error may hit any transfer,
and may leave a first part of a write stored. `writer` and `disturbed` are
history variables. The page size of a real chip appears nowhere in the code
and is left out: the driver sends any number of bytes at once.

**LedClass.** `binder` is the next call of probe or remove, which share their
end (`RemoveFile` to `ClassUnregister` stand for the label, too); `file` and
`class` are what users see of it. A user in show or store reads the pointer
(`LoadPointer`), calls gpiolib (`SetValue`, `GetValue`) and stores the state
(`SetState`). gpiolib does nothing for NULL and may follow an error pointer
(`Oops`); sysfs waits for the users inside (`Drain`). `leaked` and `stored` are
history variables.

**LedRegisters.** `calls` counts the calls of init that were made; the mapping
of each register is "NULL", "mapped" or "stale". A register is the set of its
bits that are 1, and an open or a write is a sequence of changes, each of which
is read (`ReadRegister`), changed and written back (`WriteRegister`) in two
steps, as the C statements `|=` and `&=` on volatile pointers are. The GPIO
driver (external) owns another bit of the same two registers and changes it in
one step, since it shuts out interrupts and the chip has one core; it may write
what it remembers of the LED's bit, too. `hasty`, `behind`, `undone` and `taken`
are history variables: who came in before init was done, whose copy is
outdated, which registers were overwritten so, and where the GPIO driver has
the LED's bit.

**KthreadModule.** `kmod` is the module, `task` the thread, which looks at its
flag (line 12), runs the body and sleeps (14) in turn. `kthread_stop` sets the
flag, wakes the thread and waits (`KthreadStop`, `KthreadGone`); being woken
does not cut `msleep` short, and a thread that never ran before is stopped
without its function being called. `slept` is a history variable: how many
sleeps have ended since the flag was set. An error pointer passes the test of line 24,
and `wake_up_process` dies of it (`WakeUpProcess`).

**I2cImx.** `pc` walks through `i2c_imx_xfer` and what it calls; `msgs` is what
is left of the request. The registers I2CR and I2SR are sets of bits. The
controller and the slave (external) shift a byte and acknowledge it or not,
lose arbitration, and take or free the bus, or do nothing at all: each wait
(`TrxTimeout`, `BusBusy`) may end in a timeout. `Disable` is the end of
`i2c_imx_stop`, which resets the controller. `wire`, `whole` and `excuse` are
history variables: the acknowledge bits of this message, whether all finished
messages went over the wire as they should, and what has made the answer
unreliable. Whether the device tree allows bus recovery is chosen anew for each
transfer.

**I2cImxDevice.** `device` is the next call of probe or remove, labels
included (`Label` says where probe goes on when a call fails). The counts are
those of the kernel: `clocks` (clk_enable), `count` and `depth` (usage and
disable depth of runtime PM). `GetSync` and `GetSyncFails` are what
`pm_runtime_get_sync` does. The PM core (external) holds the device and
disables runtime PM for system sleep. A transfer is "get", then "pio" or "dma",
then "disable"; it enables runtime PM for itself if it finds it disabled
(`mine`, line imx 894). `i2c_del_adapter` waits for those who hold the adapter.
What is managed by the device is gone when it is unbound, also when remove
returns early (`lost`).

**I2cImxDma.** `op` walks through `i2c_imx_dma_write` or `_read` with
`i2c_imx_dma_xfer`; the number `nr` of a transfer stands for its buffer.
`EngineEnds` is the DMA engine (external), `Callback` runs later. `given_up`,
`late` and `twice` are history variables.

**I2cImxClock.** `set_clk` is where `i2c_imx_start` is. `NewClock` divides and
tests the ends of the table (lines imx 478-489), `Search` is one round of the
loop (490), `Store` the assignments after it (493-503), `WriteIFDR` line 522.
`RateChanges` is external: other drivers share the clock. Both tables of the
driver are in the module; a divisor's register value is modelled by the number
of its entry. What `clk_get_rate` and the device tree answer is in `Rates` and
`Bitrates`, and `I2cImxClockAssumption` says what they must be: the code divides
by the bit rate and by half the rate, and nothing in it refuses a bit rate of 0
in the device tree.

<a id="runs"></a>
## 3. Runs, bounds and fairness

| run | instance | shows |
|---|---|---|
| `read_smp` | tasklet, 2 keys, 2 readers, SMP, stores in either order, failing pins and copies, signals | `NoLostWakeup`, `StoredIsLevel` |
| `read_live` | timer and work queue, 1 key, 2 readers (one non-blocking), SMP, no faults | `ImplementsMailbox`, `SettledLevelRead`, `UpdateConsumed` |
| `read_nonblock` | timer, one core | violates `NonBlockNeverSleeps` |
| `lifecycle` | all 6 drivers, 2 GPIOs, one core and SMP, early edges, every call may fail | `DanglingHasCause`, `UnboundHoldsNothing`, `RemoveFindsAll`, `ModuleSettles` |
| `lifecycle_early` | timer, 1 GPIO | violates `TimerIsSetUp` |
| `poll_smp` | both drivers, 2 keys, 2 applications, SMP, failing pins and copies | `NoLostWakeup`, `SignalForUpdate`, `StoredIsLevel` |
| `poll_live` | both drivers, 1 key, 2 applications, one core, no faults | `ImplementsMailbox`, `SettledLevelRead` |
| `eeprom` | 2 processes, 3 bytes, 3 tries, cycles of up to 2 ms, failing copies and bus | `SuccessIsDone`, `TimeoutNeedsCompany`, `ImplementsMemory`, `CallEnds` |
| `eeprom_wrap` | 1 process, the largest offset | violates `AcceptedWriteFits` |
| `eeprom_lifecycle` | the EEPROM driver and 2 modules, 2 numbers, 2 callers, every call may fail | `RestsOn`, `OneDriverPerNumber`, `AllOrNothing`, `FileIsServed` |
| `small_modules` | `LedClass`, `LedRegisters` and `KthreadModule`, 2 users each, every call may fail | `UnboundHoldsLittle`, `DrivenByHolder`, `ComingAndGoingEnds`; `UsersFindRegisters`, `OpenedIsOutput`, `EveryBitItsOwner`; `StopFindsThread`, `StopEnds` |
| `i2c_imx` | `I2cImx` with 11 requests, `I2cImxDevice` with every call failing, `I2cImxDma` with 4 transfers, `I2cImxClock` with the table of the i.MX, 3 rates, 3 bit rates | `AnswerIsTrue`, `StaleHasCause`, `ReadBytesAcked`, `ClockRuns`, `TransferEnds`; `TransferIsServed`, `UnboundIsReleased`; `BufferIsReturned`; `BusIsNotTooFast`, `DelayIsAPeriod` |

Types are theorems (section 4) and no invariants of the runs. So are some
properties next to others that the runs do check: `NothingLeftBehind` (the
mailbox has it, and `ImplementsMailbox` maps it), `GotIsLevel` (it follows from
that and `StoredIsLevel`), `OffUntilStored`, `DeviceFollowsModule`,
`CallIsBounded`, `TransferIsBounded` (next to `CallEnds`, `TransferEnds`), and
`SearchStaysInTable` (TLC stops at an entry that the table does not have).

**Bounds.** Two readers are what it takes to compete for one update, two keys
to overwrite each other's status; a third adds no new relation, since the
globals do not tell keys or readers apart. Two GPIOs give the loops of probe
and remove a first turn and another, and a key that is set up while the next
one fails; the proofs are for any number. Three modules with two numbers
make the pool run dry while somebody gives a number back. Three bytes of memory
are the least for which a write of two bytes may fit in two places, hang over
the end, or start behind it; `Word` is 9 in place of 2^32: larger than `Size`, and
a multiple of it, as 2^32 is of 256, so that the largest offset is truncated to
the last cell. Two callers and two users are enough for one to be inside while
another comes, as the drivers do not tell them apart. Three tries against a
cycle of two milliseconds are exactly enough, as one try less shows.
In `LedRegisters` the GPIO driver writes the data register only (`Shared`),
where the LED's bit changes both ways; the proofs cover both. The requests of
`I2cImx` are those of the EEPROM driver and of the SMBus emulation, with blocks
with and without a checksum behind them, as the last message or not, and reads
of none to three bytes, which reach each branch of the loop of `i2c_imx_read`;
blocks announce lengths around the bounds 1 and `BlockMax`. `MaxUsage` and
`MaxCount` stop the usage count that a failed resume leaves increased, and
`Transfers` the number of DMA transfers, of which three are enough for a late
callback to meet a later one. The rates of `I2cImxClock` with its bit rates lead
to quotients below the table, inside it and behind it, with and without a
remainder; `UWord` is 2^31 - 1 in place of 2^32, since TLC's integers end there,
and the proofs are for any that the numbers fit in. `read_smp` looks at its states without
`got` (VIEW), which is written and never read. `Numbering` numbers the updates
modulo a small number: it may let a stale update pass for a fresh one, never the reverse, so it can hide an error of
TLC's runs but not cause one; the proofs hold for every `Numbering`. Keys,
readers and applications are symmetry sets in the runs without liveness only.

**Conditions.** Some properties hold under conditions only, which the runs and
the theorems share. They are facts about the code, not about the model:

- `NothingLeftBehind` in `KeyRead` needs the stores of lines 93 and 94 to be
  seen in order (a compiler and a CPU may swap them: there is no barrier), or
  else one core and a bottom half no reader can interrupt. It needs a
  `copy_to_user` that does not fail, as the flag is lowered before the copy.
- `ImplementsMailbox` also needs that no signal comes: the result of
  `wait_event_interruptible` is ignored, and a read that a signal ended hands
  out a status nobody posted.
- `NothingLeftBehind` and `ImplementsMailbox` in `KeyPoll` need the one core of
  the board: these two drivers raise the flag before they store the status, so that on two CPUs a
  reader can copy the old status and lower the flag of the new one.
- `StoredIsLevel` and `GotIsLevel` speak of the keys whose status is stored
  (`shown`), and of levels of which no newer news is on its way. A bottom half
  that cannot read its pin leaves a status that is out of date, so that its key
  is taken out of `shown`; `GotIsLevel` needs what `NothingLeftBehind` needs.
- `SettledLevelRead` is for a single key. With two, line 94 of the poll driver
  compares with the last status of either, and the press of one key while the
  other is held is not reported; and one key's status replaces another's.
- `SettledLevelRead` in `KeyPoll` is for updates that somebody listens to: an update from before the registration for SIGIO, or
  one whose signal died with its process, waits for the next edge.
- `DanglingHasCause` names the four causes of a dangling pointer that the code
  leaves in (a probe that failed half-way, the work queue driver, `del_timer` on
  several CPUs, a failed init) and says that there is no other;
  `UnboundHoldsNothing` excepts the first of them.
- `UsersFindRegisters` excepts users that came in while init was under way and
  an `ioremap` whose failure nobody looked at; `EveryBitItsOwner` excepts
  registers in which one side has overwritten the other, until it is written
  again.
- `AnswerIsTrue` excepts the four situations in which `i2c_imx_xfer` answers
  for something else (`excuse`): the flag of an earlier byte was left, arbitration
  was lost during a byte, a read asked for no byte, a block had a single one.
- `ReadBytesAcked` covers every read, also one that fails by a timeout or by lost
  arbitration, and one of several messages, but for what its definition names: a
  read of no byte clocks one and acknowledges it; a block whose length is not
  valid clocks one byte behind it, and acknowledges it; the only byte of a block
  of one may be acknowledged; and nothing is said where the flag of another byte
  was taken for the one awaited (left by an earlier transfer, or after a read of
  no byte that was not the last message).
- `StaleHasCause` says which transfers leave a
  byte behind for the next. `UnboundIsReleased` and `BufferIsReturned` name the
  causes of what is not given back, likewise.
- `ImplementsMemory` is for writes whose offset and count add up to no more
  than 2^32, and for counts within the buffer (`RequestsAssumption`).

**Fairness.** Nothing obliges a key to move, a signal to come, a module to be
loaded or a process to call. In `KeyRead` on several CPUs, latched interrupts,
scheduled bottom halves and readers are weakly fair: the kernel runs whatever
can run, and a reader's step once enabled stays enabled or is overtaken by the
update being consumed. Its liveness is checked without faults, the safety of
wake-ups with them: a read that fails after line 44, or that a signal ended,
consumes an update nobody gets. In `KeyPoll` and `KeyLifecycle` on one core,
every handler, timer and tasklet stops the processes for a while, so that they
are strongly fair: interrupts leave the processes some of the CPU. In `Eeprom`
time goes on and each process is weakly fair. In `LedClass` probe and remove go
on, as does a user inside the driver, and an exit unbinds. In
`KthreadModule` a woken thread runs and its sleep ends. In `I2cImx` the thread
that called goes on, and its waits end, by success or by their timeouts; the
controller and the slave owe nothing. The applications
call `read` or `poll` in a loop, as those of the repository do.

Deadlock is checked everywhere except in `lifecycle` and `lifecycle_early`,
where the kernel may follow a dangling pointer and stop, in `small_modules`,
where a thread that died of an error pointer keeps probe waiting, and in
`i2c_imx`, where an adapter whose clock has failed is of no use any more.

<a id="proofs"></a>
## 4. What is proved

For every value of the constants, with TLAPS:

| theorem | says | under |
|---|---|---|
| `KeyReadProofs.TypeCorrect` | types | - |
| `KeyReadProofs.WakeupNeverLost` | `[]NoLostWakeup` | - |
| `KeyReadProofs.UpdateNeverLeftBehind` | `[]NothingLeftBehind` | `StoresTogether`, no failing copy |
| `KeyReadProofs.LevelIsStored` | `[]StoredIsLevel` | - |
| `KeyReadProofs.LevelIsHandedOut` | `[]GotIsLevel` | `StoresTogether`, no failing copy |
| `KeyReadProofs.SoleReaderNeverSleeps` | `[]NonBlockNeverSleeps` | one reader |
| `KeyReadProofs.DriverImplementsMailbox` | `ImplementsMailbox` | stores in order, no failing copy, no signal |
| `KeyPollProofs.TypeCorrect` | types | - |
| `KeyPollProofs.WakeupNeverLost` | `[]NoLostWakeup` | - |
| `KeyPollProofs.UpdateNeverLeftBehind` | `[]NothingLeftBehind` | one core, no failing copy |
| `KeyPollProofs.UpdateIsSignalled` | `[]SignalForUpdate` | - |
| `KeyPollProofs.LevelIsStored` | `[]StoredIsLevel` | - |
| `KeyPollProofs.LevelIsHandedOut`, `DriverImplementsMailbox` | `[]GotIsLevel`, `ImplementsMailbox` | one core, no failing copy |
| `CharDevProofs.TypeCorrect`, `ObjectsRest`, `NumbersUnique` | `[]TypeOK`, `[]RestsOn`, `[]OneDriverPerNumber` | - |
| `CharDevProofs.DeviceWholeOrAbsent` | `AllOrNothing` | - |
| `KeyLifecycleProofs.TypeCorrect`, `RemoveIsSafe` | `[]TypeOK`, `[]RemoveFindsAll` | - |
| `KeyLifecycleProofs.NothingElseDangles`, `UnboundIsClean` | `[]DanglingHasCause`, `[]UnboundHoldsNothing` | - |
| `KeyLifecycleProofs.DeviceFollows` | `[]DeviceFollowsModule` | - |
| `EepromProofs.TypeCorrect`, `SuccessMeansDone` | `[]TypeOK`, `[]SuccessIsDone` | - |
| `EepromProofs.TimeoutsNeedCompany` | `[]TimeoutNeedsCompany` | `Cycle < Tries` |
| `EepromProofs.DriverIsMemory` | `ImplementsMemory` | no write ends past 2^32 (`EndsInWord`) |
| `EepromProofs.AcceptedWritesFit` | `[]AcceptedWriteFits` | no write ends past 2^32 (`EndsInWord`) |
| `EepromProofs.CallsAreBounded` | `CallIsBounded` | - |
| `EepromLifecycleProofs.DriverUsesCharDev`, `EepromWholeOrAbsent` | the driver and its neighbours implement `CharDev`, hence `AllOrNothing` | - |
| `EepromLifecycleProofs.OwnTypeCorrect`, `DriverBehindFile` | `[]OwnTypeOK`, `[]FileIsServed` | - |
| `SmallModulesProofs.TypeCorrect`, `UnboundIsClean`, `BoundIsOff`, `PinHasHolder` | `LedClass`: `[]TypeOK`, `[]UnboundHoldsLittle`, `[]OffUntilStored`, `DrivenByHolder` | - |
| `SmallModulesProofs.RegistersTypeCorrect`, `RegistersStay`, `OpensMakeOutput`, `BitsHaveOwners` | `LedRegisters`: `[]RegistersTypeOK`, `[]UsersFindRegisters`, `[]OpenedIsOutput`, `[]EveryBitItsOwner` | - |
| `SmallModulesProofs.KthreadTypeCorrect`, `ThreadOutlivesModule` | `[]KthreadTypeOK`, `[]StopFindsThread` | - |
| `I2cImxProofs.TypeCorrect`, `ClockWhileUsed`, `StaleIsExplained` | `I2cImx`: `[]TypeOK`, `[]ClockRuns`, `[]StaleHasCause` | - |
| `I2cImxProofs.AnswersAreTrue`, `BytesAreAcked` | `[]AnswerIsTrue`, `[]ReadBytesAcked` | - |
| `I2cImxProofs.TransfersAreBounded` | `TransferIsBounded` | - |
| `I2cImxProofs.DeviceTypeCorrect`, `TransfersAreServed`, `UnboundIsFree` | `I2cImxDevice`: `[]DeviceTypeOK`, `[]TransferIsServed`, `[]UnboundIsReleased` | - |
| `I2cImxProofs.DmaTypeCorrect`, `BuffersComeBack` | `I2cImxDma`: `[]TransferTypeOK`, `[]BufferIsReturned` | - |
| `I2cImxProofs.ClockTypeCorrect`, `SearchIsSafe`, `DividersAreRight`, `DelaysAreRight` | `I2cImxClock`: `[]ClockTypeOK`, `[]SearchStaysInTable`, `[]BusIsNotTooFast`, `[]DelayIsAPeriod` | - |

`OwnSpec`, `Spec`, `RegistersSpec`, `KthreadSpec`, `DeviceSpec`, `TransferSpec`
and `ClockSpec` are the specifications of the modules; the only assumptions are
the named `ASSUME`s on their constants, which TLC evaluates in the runs.

The arguments:

- *Wake-ups.* `NoLostWakeup` is inductive beside `TypeOK`: a reader joins the
  wait queue before it tests the flag, and a flag is only raised by a bottom
  half that has still to wake the queue.
- *Handshake.* `NothingLeftBehind` is not inductive: a store may be half done.
  The strengthening says that an early flag stands until its status is stored
  (`EarlyFlagStands`), which the order of stores or the single core guarantees.
- *Levels.* `StoredIsLevel` is inductive with `ReadIsLevel`: what a bottom half
  or a handler has read and not stored yet is the level of its key, or an edge
  has come since and will be served. With `NothingLeftBehind` it gives
  `GotIsLevel`: the safety part of `SettledLevelRead`, for any number of keys.
- *One non-blocking reader.* `SeenFlagStands`: nobody else lowers the flag that
  it has seen, so that it passes the wait. The violation of `read_nonblock`
  thus needs its second reader.
- *The mailbox with the flag first.* On one core one handler at most is under
  way (`OneHandler`), and since line 94 drops what is no news, the status that
  it has still to store is the other one than is there (`NewsDiffers`). That
  makes `Latest`, the update the first store stands for, a function of the
  state, and the second store a stutter.
- *Signals.* `SignalInv` replaces the condition "somebody listens" by the
  weaker "no signal was sent to nobody".
- *Character devices.* `CharDevInv` ties `held` and `ret` to the next call
  (`StepMatches`) and says that numbers in use differ. The refinement maps a
  call that makes or removes the last object, or whose answer is seen, to a
  step of `CharDevice`, and the rest to stutters.
- *Lifecycle.* `LifecycleInv` says, for each point of the loops of probe and
  remove, which keys must be held (`ProbeHolds`, `RemoveHolds`), and that what
  waits has a handler or a timer of its own (`WaitingHasHandler`). `SafeInv`
  adds the converse, what may be held at most, as long as no probe failed
  half-way and the kernel is well (`CleanInv`); the part about what waits to
  run is needed for the drivers that cancel it only (`Cancels`).
- *Lifecycle and character device.* `FollowInv` ties the state of the loader to
  the step of the helper, and uses the invariant of `CharDevProofs`, through an
  instance with this one module, for the helper's half: a call that has
  answered success has made all four objects, and any other none.
- *EEPROM.* `WriterInv`: the chip has a writer only while it is busy.
  `WaitInv`: in an undisturbed wait every failed try found the chip at work for
  this very write and was followed by a millisecond, so that the tries and the
  time left fit into one cycle. The refinement needs that the check of the
  bounds in 32-bit arithmetic equals the plain one (`ExceedsIsPlain`), and that
  what is stored in a circle from a truncated offset is what was asked for
  (`StoredInPlace`). The same fact about the check gives `AcceptedWriteFits`:
  the hole that `eeprom_wrap` shows is the wrap-around and nothing else.
- *Bounded calls.* `CallIsBounded` needs the bounds of `retries` only:
  `StepsLeft` counts two steps for each try. `TransferIsBounded` has a rank of
  five numbers, compared like words of a dictionary: the part of the transfer,
  with one recovery at most (lines imx 905-909), the messages left, where the
  message is, its bytes, and the steps for one byte. The third is needed since a
  slave makes a message longer when it announces the length of a block (821-833),
  which it does once (`PlaceInv`).
- *EEPROM, coming and going.* `OwnInv` ties `binder` to the step of the helper:
  an unbound driver has no objects, a bound one has all. Hence a file is only
  opened while bound or about to be, and since an open file keeps the module,
  no reload resets the pointer behind it.
- *LED by device tree.* `LedInv` says at each point of probe and remove what is
  registered, held and open to users, that nobody is inside without a file, and
  that before the first store no user is on the way to the pin.
- *LED by registers.* `InsideInv`: what is mapped at each point of init and
  exit, and that who is inside keeps the module or is hasty. `OpenInv`: once
  an open has cleared the pad, nothing is in it, nor in a copy of it, but what
  opens set, and as long as they are not through one is left that will set it.
  `CopyInv`: a copy that is not outdated agrees with the register in the bits
  of the other side.
- *The thread.* `KthreadInv`: a new thread has not been woken and its flag is
  not set, so that it cannot return before the exit sets it; and once a sleep
  has ended with the flag set, the thread is past it, and the next look returns.
- *I2C transfers.* Layers, each on top of those before. `TypeInv`: a call has
  its messages, its clock and its usage count. `PlaceInv`, `TagInv` and
  `LostInv`: what `pc` tells about the loop and what `excuse` tells about the
  controller, which is no master any more once arbitration is lost.
  `FlightInv`: as long as nothing cast doubt on the answer, one byte is in
  flight while it is awaited and none otherwise; without it the interrupt could
  end a wait for another byte. `TxakInv`: TXAK is set for the last byte of a
  read and for no other. `ExactInv`: how many bytes went over the wire follows
  from where the driver is. `ReadInv`: so do the acknowledge bits of a read
  and, at its end, what is still on the wire; it needs an upper bound of the
  bytes only, which is why it holds after lost arbitration and timeouts, too.
  `AckInv` and `WireInv`: with nothing in doubt, all that is finished went over
  the wire and was taken.
- *I2C device.* `AdapterInv` (who holds the adapter finds the driver, or has
  missed it for ever), `ChannelInv` (two channels or none), `CountInv` and
  `DepthInv` (the usage count and the disable depth are sums over those who
  hold and disable), `ClockInv` (the clock is on if the device is active, from
  when runtime PM is enabled until it is disabled). The property needs all
  five: that remove does not take the clock from a transfer follows from the
  count, and that it waits for it from the adapter.
- *I2C by DMA.* `TransferInv`: as long as no callback was late, what is mapped
  or on its way belongs to this transfer or to one that timed out.
- *I2C clock.* A quotient rounded up exceeds a divisor exactly if the divisor
  makes the bus too fast (`RoundedUp`, from `Quotient`), and one rounded up is
  at least what it should be and less than one too large (`RoundedUpTwice`).
  No sum wraps around (`FitsInWord`). `SearchInv`: the entries passed are too
  fast, and, since the table is sorted and its last entry is not smaller than
  `div`, the search ends inside. `KeptInv`: what is kept was chosen for
  `cur_clk`, from when it is stored until the next store.

With TLC only: liveness (`UpdateConsumed`, `SettledLevelRead`, `ModuleSettles`,
`CallEnds`, `ComingAndGoingEnds`, `StopEnds`, `TransferEnds`), which is out of
the prover's reach. Of three of these the part that needs no fairness is proved: `GotIsLevel` of
`SettledLevelRead`, `CallIsBounded` of `CallEnds`, `TransferIsBounded` of
`TransferEnds`. What is left to TLC is that the kernel lets the driver go on.
`TimerIsSetUp` and, for several readers, `NonBlockNeverSleeps` are false.

<a id="found"></a>
## 5. What the checks found

Three runs show a disagreement of the code with what is said of it:

- `read_nonblock`: the test for `O_NONBLOCK` (line 38) and the wait (line 42)
  look at the flag one after the other, so that a non-blocking read sleeps when
  another reader takes the update in between.
- `lifecycle_early`: probe installs the handler (line 147) before it sets up
  the timer (158-161); a key touched in between starts a timer that is all
  zero.
- `eeprom_wrap`: `offset + count - 1` and `256 - offset` wrap around for an
  offset just below 2^32: a write of two bytes at `0xffffffff` passes both
  tests and changes the last and the first byte of the memory.

What else came to light while the conditions of section 3 were found, without
a statement in the repository that it contradicts:

- In all six drivers an init that fails after `platform_driver_register`
  (line 217) leaves the driver registered while its text is discarded.
- A probe that fails half-way takes nothing back: handlers and descriptors
  stay, and with them pointers into a block that nobody frees.
- The work queue driver removes a key without cancelling its work item, which
  then runs on freed memory.
- `del_timer` (line 180) does not wait for a timer function that is running;
  on several CPUs it may outlive the block.
- A reader after `POLLIN` sleeps when another application took the update.
- An interrupt between lines 50 and 51 of the poll driver makes `poll` answer
  `POLLIN` for a status that the read at hand already copies.
- The LED driver's probe leaves the descriptor behind when
  `gpiod_direction_output` fails (lines 131-147), so that every later probe
  fails, too; an error pointer of line 122 may be followed by a user before the
  file is gone; and in remove a store may drive the pin after `gpiod_put`.
- `my_led_state` need not be the state of the pin when users come at the same
  time; nothing in the driver reads it.
- The file of the EEPROM driver is there before line 148 sets `g_client`: an
  ioctl in between follows NULL. A file that outlives an unbind goes on with
  the client of a device that is no longer bound.
- A write of all 256 bytes is put together, behind its offset byte, in a
  buffer of 256.
- `my_led` can be opened before its registers are mapped (lines 105-117), and
  an open then writes through NULL; a failing init leaves those inside without
  the module; and a user that writes back an old copy undoes what the GPIO
  driver changed meanwhile.
- A failed `kthread_create` is taken for a thread (line 24): init dies and the
  module stays for good.
- In i2c-imx, `i2csr` is not reset when a transfer begins: the end of a byte
  that was given up passes for the first byte of the next transfer. Arbitration
  lost during a byte is only noticed by the next `i2c_imx_bus_busy`. A read of
  no bytes clocks one and acknowledges it. A block whose announced length is not
  valid clocks one byte more and acknowledges it, although line imx 841 sets out
  to end a read without an acknowledge. The only byte of a block of one may be
  acknowledged, too, since it is under way before its length is known.
- A resume of i2c-imx that fails leaves the usage count increased, and makes
  remove return early with everything still in place. So does a transfer that
  is begun in system sleep and ends after it: it disables runtime PM that
  others rely on.
- After a timeout of a DMA transfer its buffer stays mapped, and its callback,
  if it comes, unmaps and completes what belongs to the next.

<a id="not-modelled"></a>
## 6. What is not modelled

- Open files: a descriptor keeps the module in use, but not the device bound;
  `KeyLifecycle` and the event path are checked apart from each other.
- The deadline of the debounce timer: a timer that is scheduled may fire at
  once, and being scheduled again only postpones it.
- Memory order beyond the two stores of the bottom half.
- In `KeyPoll`, signals other than SIGIO.
- The count of a read (one byte or four are copied whatever was asked for).
- In `EepromLifecycle`, what a transfer does (that is `Eeprom`), and the
  reference counts of a `cdev` that is made anew under an open file.
- The file operations of `dyn_chr_dev` are empty; `worker_thread` in it is never
  used.
- In `LedRegisters`, commands that are refused, and what a module that was
  discarded under its users does to the next load.
- In i2c-imx: the pins that recovery and sleep switch; the differences between
  the chips, but for their tables of divisors; the data bytes; the values that
  the divisors have in IFDR, and what a rate that changes during a transfer does
  to that transfer, which the driver does not notice. A bit rate of 0 in the
  device tree, or a clock below 2 Hz, makes line 484 or 502 divide by zero: they
  are excluded by `I2cImxClockAssumption`.
  A device that was lost by an early return of remove is not bound again.
  Whether the memory of `dma` outlives `i2c_del_adapter`, and an interrupt
  before the wait queue is initialised (1113-1121), depend on the kernel and the
  boot loader.
- `i2c-gpio.c` and `of_gpio.h`: the algorithm they feed, which does all the
  work, is not in the repository; what is left takes two pins and registers.
- The composition of `Eeprom` with `I2cImx`: `Eeprom` takes a transfer as one
  step, which the lock of the adapter justifies, and lets it fail in every way
  `I2cImx` does.
- Messages, formatting and argument handling of the applications.

<a id="plan"></a>
## 7. Plan

Done, in this order: `KeyRead` with `KeyMailbox`; `CharDev` with `CharDevice`;
`KeyLifecycle` on top of `CharDev`; `KeyPoll`; `Eeprom` with `EepromMemory`;
`EepromLifecycle`; `LedClass`; `LedRegisters`; `KthreadModule`; `I2cImx`,
`I2cImxDevice`, `I2cImxDma`; the proofs of each; then the level of a key, the
refinement of `KeyMailbox` by `KeyPoll`, the bounds of calls and transfers, the
device that follows its module, and `I2cImxClock`.

Left:

1. Open files in `KeyLifecycle`, and its composition with `KeyRead`: a reader
   that sleeps while its device is unbound.
2. `Eeprom` under `EepromLifecycle` and on top of `I2cImx`: an ioctl under way
   while its device goes, and a transfer that is not one step.
3. A measure for the loops of probe and remove in `KeyLifecycle` and for the
   coming and going of `LedClass`, as there is one for the EEPROM's calls and the
   adapter's transfers.
