---------------------------- MODULE I2cImxDevice ----------------------------
(***************************************************************************)
(* The life of an adapter of i2c-imx, the reference source: probe, remove, *)
(* runtime power management, system sleep, and the transfers of those that *)
(* hold the adapter, which come at any time.  A transfer is one of I2cImx; *)
(* what matters here is what it needs while it is under way.               *)
(*                                                                         *)
(* What is managed by the device (the registers' mapping, the driver's     *)
(* memory, the handler) goes when the device is unbound, whatever remove   *)
(* returns; the driver core does not look at that.                         *)
(***************************************************************************)
EXTENDS Integers

CONSTANTS
  DeviceFaults,  \* the calls that may fail
  MaxCount       \* bound of the usage count, to which failed resumes add

ASSUME I2cImxDeviceAssumption == MaxCount \in Nat

VARIABLES
  device,    \* the next call of probe or remove, or "unbound" or "bound"
  handler,   \* the interrupt is requested
  adapter,   \* "none", "registered", or "dying": unregistered but held
  held,      \* somebody holds the adapter
  lost,      \* the adapter is registered and the driver's memory is gone
  clocks,    \* the enable count of the clock
  active,    \* runtime PM: the device is RPM_ACTIVE
  depth,     \* runtime PM: how often it is disabled
  count,     \* runtime PM: the usage count
  broken,    \* runtime PM: a resume has failed
  asleep,    \* the system is between suspend_late and resume_early
  strange,   \* history: a transfer "spanned" the end of sleep, or was "refused"
  channels,  \* the DMA channels that are held
  dma,       \* i2c_imx->dma: "null", "set", or "ready" with its completion
  xfer,      \* i2c_imx_xfer: "none", "get", "pio", "dma" or "disable"
  mine       \* enable_runtime_pm of that call

probeVars == <<device, handler, adapter, held, lost>>
rpmVars == <<clocks, active, depth, count, broken>>
sleepVars == <<asleep, strange>>
dmaVars == <<channels, dma>>
xferVars == <<xfer, mine>>
deviceVars == <<probeVars, rpmVars, sleepVars, dmaVars, xferVars>>

Probing == {"clk_prepare_enable", "request_irq", "pm_runtime_enable",
            "pm_runtime_get_sync", "set_up_registers", "init_recovery",
            "add_adapter", "put_autosuspend", "dma_tx", "dma_rx",
            "dma_config", "init_completion"}
Labels == {"fail_rx", "fail_tx", "rpm_disable", "clk_disable"}
Removing == {"remove", "del_adapter", "dma_free", "reset_registers",
             "clk_disable_unprepare", "pm_runtime_disable"}

DeviceTypeOK ==
  /\ device \in {"unbound", "bound"} \cup Probing \cup Labels \cup Removing
  /\ handler \in BOOLEAN /\ held \in BOOLEAN /\ lost \in BOOLEAN
  /\ adapter \in {"none", "registered", "dying"}
  /\ clocks \in 0 .. 1 /\ depth \in 0 .. 2 /\ count \in Nat
  /\ active \in BOOLEAN /\ broken \in BOOLEAN
  /\ asleep \in BOOLEAN /\ strange \subseteq {"spanned", "refused"}
  /\ channels \subseteq {"tx", "rx"} /\ dma \in {"null", "set", "ready"}
  /\ xfer \in {"none", "get", "pio", "dma", "disable"} /\ mine \in BOOLEAN

DeviceInit ==
  /\ device = "unbound" /\ handler = FALSE
  /\ adapter = "none" /\ held = FALSE /\ lost = FALSE
  /\ clocks = 0 /\ active = FALSE /\ depth = 1 /\ count = 0 /\ broken = FALSE
  /\ asleep = FALSE /\ strange = {}
  /\ channels = {} /\ dma = "null"
  /\ xfer = "none" /\ mine = FALSE

Proceed(from, to) == device = from /\ device' = to

-----------------------------------------------------------------------------
(* Runtime power management, as the kernel provides it.                    *)

Usable == active /\ (depth = 0 \/ (depth = 1 /\ asleep))
MustResume == ~active /\ depth = 0

\* pm_runtime_get_sync finds the device active, or resumes it.
GetSync ==
  /\ ~broken
  /\ \/ Usable /\ UNCHANGED clocks
     \/ MustResume /\ clocks' = clocks + 1
  /\ active' = TRUE /\ count' = count + 1
  /\ UNCHANGED <<depth, broken>>

\* It may not resume, or i2c_imx_runtime_resume cannot enable the clock, which
\* is remembered.  The usage count is increased all the same.
GetSyncFails ==
  /\ \/ (broken \/ ~(Usable \/ MustResume)) /\ UNCHANGED broken
     \/ MustResume /\ "resume" \in DeviceFaults /\ broken' = TRUE
  /\ count' = count + 1
  /\ UNCHANGED <<clocks, active, depth>>

\* i2c_imx_runtime_suspend, a while after the count was put.
RuntimeIdle ==
  /\ active /\ depth = 0 /\ count = 0 /\ ~broken
  /\ device # "pm_runtime_get_sync"
  /\ clocks' = clocks - 1 /\ active' = FALSE
  /\ UNCHANGED <<probeVars, depth, count, broken, sleepVars, dmaVars, xferVars>>

\* The system goes to sleep and wakes up: the PM core holds the device and
\* disables runtime PM.  To enable what is enabled has no effect.
FallAsleep ==
  /\ device = "bound" /\ ~asleep
  /\ asleep' = TRUE
  /\ depth' = depth + 1 /\ count' = count + 1
  /\ UNCHANGED <<probeVars, clocks, active, broken, strange, dmaVars, xferVars>>

WakeUpAgain ==
  /\ asleep
  /\ asleep' = FALSE
  /\ depth' = IF depth = 0 THEN 0 ELSE depth - 1
  /\ count' = count - 1
  /\ strange' = IF mine THEN strange \cup {"spanned"} ELSE strange
  /\ UNCHANGED <<probeVars, clocks, active, broken, dmaVars, xferVars>>

-----------------------------------------------------------------------------
(* i2c_imx_xfer, called by one of those that hold the adapter at a time.   *)

HoldAdapter ==
  /\ adapter = "registered" /\ ~lost
  /\ held' = TRUE
  /\ UNCHANGED <<device, handler, adapter, lost, rpmVars, sleepVars, dmaVars,
                 xferVars>>

LetGo ==
  /\ held /\ xfer = "none"
  /\ held' = FALSE
  /\ UNCHANGED <<device, handler, adapter, lost, rpmVars, sleepVars, dmaVars,
                 xferVars>>

\* Runtime PM is enabled for the transfer if it is disabled.
XferBegins ==
  /\ held /\ ~lost /\ xfer = "none" /\ count + 1 < MaxCount
  /\ xfer' = "get"
  /\ mine' = (depth > 0)
  /\ depth' = IF depth > 0 THEN depth - 1 ELSE depth
  /\ UNCHANGED <<probeVars, clocks, active, count, broken, sleepVars, dmaVars>>

XferIsOn ==
  /\ xfer = "get"
  /\ GetSync
  /\ xfer' \in {"pio"} \cup IF dma = "null" THEN {} ELSE {"dma"}
  /\ UNCHANGED <<probeVars, sleepVars, dmaVars, mine>>

XferHasNoClock ==
  /\ xfer = "get"
  /\ GetSyncFails
  /\ xfer' = "disable"
  /\ strange' = strange \cup {"refused"}
  /\ UNCHANGED <<probeVars, asleep, dmaVars, mine>>

XferPut ==
  /\ xfer \in {"pio", "dma"}
  /\ xfer' = "disable"
  /\ count' = count - 1
  /\ UNCHANGED <<probeVars, clocks, active, depth, broken, sleepVars, dmaVars,
                 mine>>

XferEnds ==
  /\ xfer = "disable"
  /\ xfer' = "none" /\ mine' = FALSE
  /\ depth' = IF mine THEN depth + 1 ELSE depth
  /\ UNCHANGED <<probeVars, clocks, active, count, broken, sleepVars, dmaVars>>

-----------------------------------------------------------------------------
(* i2c_imx_probe, and i2c_imx_dma_request.                                 *)

\* What comes before the clock is managed by the device.  A device that has
\* left its adapter behind is not bound again.
Probe ==
  /\ Proceed("unbound", "clk_prepare_enable") /\ ~lost
  /\ dma' = "null"
  /\ UNCHANGED <<handler, adapter, held, lost, rpmVars, sleepVars, channels,
                 xferVars>>

ClkEnable ==
  /\ Proceed("clk_prepare_enable", "request_irq")
  /\ clocks' = clocks + 1
  /\ UNCHANGED <<handler, adapter, held, lost, active, depth, count, broken,
                 sleepVars, dmaVars, xferVars>>

RequestHandler ==
  /\ Proceed("request_irq", "pm_runtime_enable")
  /\ handler' = TRUE
  /\ UNCHANGED <<adapter, held, lost, rpmVars, sleepVars, dmaVars, xferVars>>

\* pm_runtime_set_active clears an error, too.
RpmEnable ==
  /\ Proceed("pm_runtime_enable", "pm_runtime_get_sync")
  /\ active' = TRUE /\ depth' = depth - 1 /\ broken' = FALSE
  /\ UNCHANGED <<handler, adapter, held, lost, clocks, count, sleepVars,
                 dmaVars, xferVars>>

\* The device is active, but runtime PM may be disabled once more than it was
\* enabled.
ProbeGet ==
  /\ \/ Proceed("pm_runtime_get_sync", "set_up_registers") /\ GetSync
     \/ Proceed("pm_runtime_get_sync", "rpm_disable") /\ GetSyncFails
  /\ UNCHANGED <<handler, adapter, held, lost, sleepVars, dmaVars, xferVars>>

SetUpRegisters ==
  /\ \/ Proceed("set_up_registers", "init_recovery")
     \/ Proceed("init_recovery", "add_adapter")
  /\ UNCHANGED <<handler, adapter, held, lost, rpmVars, sleepVars, dmaVars,
                 xferVars>>

\* From here on transfers come.
AddAdapter ==
  /\ Proceed("add_adapter", "put_autosuspend")
  /\ adapter' = "registered"
  /\ UNCHANGED <<handler, held, lost, rpmVars, sleepVars, dmaVars, xferVars>>

PutAutosuspend ==
  /\ Proceed("put_autosuspend", "dma_tx")
  /\ count' = count - 1
  /\ UNCHANGED <<handler, adapter, held, lost, clocks, active, depth, broken,
                 sleepVars, dmaVars, xferVars>>

RequestChannels ==
  /\ \/ Proceed("dma_tx", "dma_rx") /\ channels' = channels \cup {"tx"}
     \/ Proceed("dma_rx", "dma_config") /\ channels' = channels \cup {"rx"}
  /\ UNCHANGED <<handler, adapter, held, lost, rpmVars, sleepVars, dma,
                 xferVars>>

\* The pointer is set before the completion behind it is set up.
SetUpDma ==
  /\ \/ Proceed("dma_config", "init_completion") /\ dma' = "set"
     \/ Proceed("init_completion", "bound") /\ dma' = "ready"
  /\ UNCHANGED <<handler, adapter, held, lost, rpmVars, sleepVars, channels,
                 xferVars>>

\* Seeded bug: a channel that cannot be configured is not released.
LabelTooFar ==
  [call \in {"clk_prepare_enable", "request_irq", "init_recovery",
             "add_adapter", "dma_tx", "dma_rx", "dma_config"} |->
    CASE call = "clk_prepare_enable" -> "unbound"
      [] call = "request_irq" -> "clk_disable"
      [] call \in {"init_recovery", "add_adapter"} -> "rpm_disable"
      [] call = "dma_tx" -> "bound"
      [] call \in {"dma_rx", "dma_config"} -> "fail_tx"]

\* Where probe goes on when a call fails; without DMA it does without.
Label ==
  [call \in {"clk_prepare_enable", "request_irq", "init_recovery",
             "add_adapter", "dma_tx", "dma_rx", "dma_config"} |->
    CASE call = "clk_prepare_enable" -> "unbound"
      [] call = "request_irq" -> "clk_disable"
      [] call \in {"init_recovery", "add_adapter"} -> "rpm_disable"
      [] call = "dma_tx" -> "bound"
      [] call = "dma_rx" -> "fail_tx"
      [] call = "dma_config" -> "fail_rx"]

CallFails ==
  /\ device \in DeviceFaults \cap DOMAIN Label
  /\ device' = Label[device]
  /\ UNCHANGED <<handler, adapter, held, lost, rpmVars, sleepVars, dmaVars,
                 xferVars>>

ReleaseChannels ==
  /\ \/ Proceed("fail_rx", "fail_tx") /\ channels' = channels \ {"rx"}
     \/ Proceed("fail_tx", "bound") /\ channels' = channels \ {"tx"}
  /\ UNCHANGED <<handler, adapter, held, lost, rpmVars, sleepVars, dma,
                 xferVars>>

\* The usage count is put before runtime PM is disabled, and there is no time
\* for a suspend in between.
RpmDisable ==
  /\ Proceed("rpm_disable", "clk_disable")
  /\ count' = count - 1 /\ depth' = depth + 1 /\ active' = FALSE
  /\ UNCHANGED <<handler, adapter, held, lost, clocks, broken, sleepVars,
                 dmaVars, xferVars>>

ClkDisable ==
  /\ Proceed("clk_disable", "unbound")
  /\ clocks' = clocks - 1
  /\ handler' = FALSE
  /\ UNCHANGED <<adapter, held, lost, active, depth, count, broken, sleepVars,
                 dmaVars, xferVars>>

-----------------------------------------------------------------------------
(* i2c_imx_remove.                                                         *)

StartRemove ==
  /\ Proceed("bound", "remove") /\ ~asleep
  /\ UNCHANGED <<handler, adapter, held, lost, rpmVars, sleepVars, dmaVars,
                 xferVars>>

\* Seeded bug: remove holds the device, but does not resume it.
RemoveGetNoResume ==
  /\ Proceed("remove", "del_adapter")
  /\ count' = count + 1
  /\ UNCHANGED <<handler, adapter, held, lost, clocks, active, depth, broken,
                 sleepVars, dmaVars, xferVars>>

RemoveGet ==
  /\ Proceed("remove", "del_adapter")
  /\ GetSync
  /\ UNCHANGED <<handler, adapter, held, lost, sleepVars, dmaVars, xferVars>>

\* remove returns early, and the device is unbound all the same.
RemoveReturns ==
  /\ Proceed("remove", "unbound")
  /\ GetSyncFails
  /\ handler' = FALSE /\ lost' = TRUE
  /\ UNCHANGED <<adapter, held, sleepVars, dmaVars, xferVars>>

\* i2c_del_adapter waits until nobody holds the adapter any more.
DelAdapter ==
  /\ device = "del_adapter"
  /\ \/ /\ adapter = "registered"
        /\ adapter' = "dying" /\ UNCHANGED device
     \/ /\ adapter = "dying" /\ ~held
        /\ adapter' = "none" /\ device' = "dma_free"
  /\ UNCHANGED <<handler, held, lost, rpmVars, sleepVars, dmaVars, xferVars>>

DmaFree ==
  /\ Proceed("dma_free", "reset_registers")
  /\ channels' = IF dma = "null" THEN channels ELSE {}
  /\ UNCHANGED <<handler, adapter, held, lost, rpmVars, sleepVars, dma,
                 xferVars>>

ResetRegisters ==
  /\ Proceed("reset_registers", "clk_disable_unprepare")
  /\ UNCHANGED <<handler, adapter, held, lost, rpmVars, sleepVars, dmaVars,
                 xferVars>>

ClkDisableUnprepare ==
  /\ Proceed("clk_disable_unprepare", "pm_runtime_disable")
  /\ clocks' = clocks - 1
  /\ UNCHANGED <<handler, adapter, held, lost, active, depth, count, broken,
                 sleepVars, dmaVars, xferVars>>

\* The device is not active any more for the driver core, either.
RemoveRpm ==
  /\ Proceed("pm_runtime_disable", "unbound")
  /\ count' = count - 1 /\ depth' = depth + 1
  /\ active' = FALSE /\ handler' = FALSE
  /\ UNCHANGED <<adapter, held, lost, clocks, broken, sleepVars, dmaVars,
                 xferVars>>

-----------------------------------------------------------------------------

DeviceNext ==
  \/ RuntimeIdle \/ FallAsleep \/ WakeUpAgain
  \/ HoldAdapter \/ LetGo
  \/ XferBegins \/ XferIsOn \/ XferHasNoClock \/ XferPut \/ XferEnds
  \/ Probe \/ ClkEnable \/ RequestHandler \/ RpmEnable \/ ProbeGet
  \/ SetUpRegisters \/ AddAdapter \/ PutAutosuspend
  \/ RequestChannels \/ SetUpDma \/ CallFails \/ ReleaseChannels
  \/ RpmDisable \/ ClkDisable
  \/ StartRemove \/ RemoveGet \/ RemoveReturns \/ DelAdapter \/ DmaFree
  \/ ResetRegisters \/ ClkDisableUnprepare \/ RemoveRpm

DeviceSpec == DeviceInit /\ [][DeviceNext]_deviceVars

-----------------------------------------------------------------------------

\* A transfer is served to its end, however it falls in with probe, remove,
\* suspends and sleep: its clock is on, its handler installed, its adapter
\* there and, if it goes by DMA, there are channels and a completion, but for
\* the moment in which i2c_imx->dma is set and its completion is not (329-330).
\* And probe and remove access the registers with the clock on (1141, 1204).
TransferIsServed ==
  /\ xfer \in {"pio", "dma"} =>
       /\ clocks = 1 /\ handler /\ adapter # "none"
       /\ xfer = "dma" =>
            /\ channels = {"tx", "rx"}
            /\ dma = "ready" \/ device = "init_completion"
  /\ device \in {"set_up_registers", "reset_registers"} => clocks = 1

\* What probe takes a failed probe and remove give back: clock, channels,
\* adapter, the usage count, if no transfer has kept it (899), and runtime PM,
\* if no transfer enabled it asleep and disabled it awake (894, 970).  remove
\* does not if it cannot resume the device (1191), which takes such a transfer,
\* or a clock that failed once.
UnboundIsReleased ==
  device = "unbound" =>
    IF lost THEN broken \/ "spanned" \in strange
            ELSE /\ clocks = 0 /\ channels = {} /\ adapter = "none"
                 /\ "refused" \notin strange => count = 0
                 /\ "spanned" \notin strange => depth = 1
=============================================================================
