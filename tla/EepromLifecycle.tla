-------------------------- MODULE EepromLifecycle ---------------------------
(***************************************************************************)
(* How my_eeprom comes and goes: loading, binding through sysfs, probe and *)
(* remove with the character device of CharDev, and processes that open    *)
(* the device file and call ioctl at any moment.  Other modules make and   *)
(* remove their devices at the same time.                                  *)
(*                                                                         *)
(* What an ioctl does is the subject of Eeprom.  Here only g_client        *)
(* matters, the pointer through which it does it: probe sets it after the  *)
(* device file has appeared, and remove leaves it as it is.  An open file  *)
(* keeps the module loaded; it does not keep the device bound.             *)
(***************************************************************************)
EXTENDS CharDev

CONSTANTS
  Eeprom,  \* the device of this driver
  Callers  \* the processes that use it

ASSUME EepromLifecycleAssumption == Eeprom \in Devices

VARIABLES
  loader,    \* the module: "out", "in" or "leaving"
  binder,    \* the device: "unbound", "probing", "bound" or "removing"
  g_client,  \* the pointer is set
  fd         \* the file of each caller; "dead" after a NULL pointer

ownVars == <<loader, binder, g_client, fd>>
allVars == <<vars, ownVars>>

OwnTypeOK ==
  /\ TypeOK
  /\ loader \in {"out", "in", "leaving"}
  /\ binder \in {"unbound", "probing", "bound", "removing"}
  /\ g_client \in BOOLEAN
  /\ fd \in [Callers -> {"closed", "open", "ioctl", "dead"}]

OwnInit ==
  /\ Init
  /\ loader = "out"
  /\ binder = "unbound"
  /\ g_client = FALSE
  /\ fd = [c \in Callers |-> "closed"]

-----------------------------------------------------------------------------
(* The driver.                                                             *)

\* my_i2c_eeprom_probe begins with register_my_char_device.
StartProbe ==
  /\ binder = "unbound"
  /\ binder' = "probing"
  /\ Register(Eeprom)

\* i2c_add_driver probes the device at once; the module's globals are new.
Load ==
  /\ loader = "out"
  /\ StartProbe
  /\ loader' = "in"
  /\ g_client' = FALSE
  /\ UNCHANGED fd

Bind ==
  /\ loader = "in"
  /\ StartProbe
  /\ UNCHANGED <<loader, g_client, fd>>

ProbeSucceeds ==
  /\ binder = "probing"
  /\ step[Eeprom] = "idle" /\ ret[Eeprom] = "ok"
  /\ binder' = "bound"
  /\ g_client' = TRUE
  /\ UNCHANGED <<vars, loader, fd>>

ProbeFails ==
  /\ binder = "probing"
  /\ step[Eeprom] = "idle" /\ ret[Eeprom] = "error"
  /\ binder' = "unbound"
  /\ UNCHANGED <<vars, loader, g_client, fd>>

\* By sysfs, or by i2c_del_driver.
StartRemove ==
  /\ binder = "bound"
  /\ binder' = "removing"
  /\ Unregister(Eeprom)
  /\ UNCHANGED <<loader, g_client, fd>>

\* Seeded bug: g_client is reset, for all the files that are still open.
RemoveAndReset ==
  /\ binder = "removing"
  /\ step[Eeprom] = "idle"
  /\ binder' = "unbound"
  /\ g_client' = FALSE
  /\ UNCHANGED <<vars, loader, fd>>

\* my_i2c_eeprom_remove leaves g_client as it is.
EndRemove ==
  /\ binder = "removing"
  /\ step[Eeprom] = "idle"
  /\ binder' = "unbound"
  /\ UNCHANGED <<vars, loader, g_client, fd>>

IsOpen(c) == fd[c] \in {"open", "ioctl"}

\* A module in use cannot be unloaded: .owner = THIS_MODULE.
Leave ==
  /\ loader = "in"
  /\ \A c \in Callers : ~IsOpen(c)
  /\ loader' = "leaving"
  /\ UNCHANGED <<vars, binder, g_client, fd>>

Gone ==
  /\ loader = "leaving"
  /\ binder = "unbound"
  /\ loader' = "out"
  /\ UNCHANGED <<vars, binder, g_client, fd>>

\* A call inside register_my_char_device or unregister_my_char_device.
DeviceStep == Step(Eeprom) /\ UNCHANGED ownVars

-----------------------------------------------------------------------------
(* The callers.                                                            *)

OpenFile(c) ==
  /\ fd[c] = "closed"
  /\ {"device", "cdev"} \subseteq held[Eeprom]
  /\ loader = "in"
  /\ fd' = [fd EXCEPT ![c] = "open"]
  /\ UNCHANGED <<vars, loader, binder, g_client>>

CallIoctl(c) ==
  /\ fd[c] = "open"
  /\ fd' = [fd EXCEPT ![c] = "ioctl"]
  /\ UNCHANGED <<vars, loader, binder, g_client>>

\* The transfer goes through g_client, whether or not it is bound.
Transfer(c) ==
  /\ fd[c] = "ioctl"
  /\ g_client
  /\ fd' = [fd EXCEPT ![c] = "open"]
  /\ UNCHANGED <<vars, loader, binder, g_client>>

\* The kernel kills the process, and closes its file.
NullClient(c) ==
  /\ fd[c] = "ioctl"
  /\ ~g_client
  /\ fd' = [fd EXCEPT ![c] = "dead"]
  /\ UNCHANGED <<vars, loader, binder, g_client>>

CloseFile(c) ==
  /\ fd[c] = "open"
  /\ fd' = [fd EXCEPT ![c] = "closed"]
  /\ UNCHANGED <<vars, loader, binder, g_client>>

Caller(c) ==
  \/ OpenFile(c) \/ CallIoctl(c) \/ Transfer(c) \/ NullClient(c)
  \/ CloseFile(c)

-----------------------------------------------------------------------------

Others ==
  /\ \E d \in Devices \ {Eeprom} : Register(d) \/ Unregister(d) \/ Step(d)
  /\ UNCHANGED ownVars

Driver ==
  \/ Load \/ Bind \/ ProbeSucceeds \/ ProbeFails
  \/ StartRemove \/ EndRemove \/ Leave \/ Gone
  \/ DeviceStep

OwnNext == Driver \/ Others \/ \E c \in Callers : Caller(c)

OwnSpec == OwnInit /\ [][OwnNext]_allVars

-----------------------------------------------------------------------------

\* An open file finds g_client set, even one that outlived an unbind, but for
\* the moment between the file's appearance in probe and line 148: no earlier
\* probe can have left a file open without setting the pointer, and no reload
\* can have reset it (lines 132, 136-156).  It finds the text of the driver, and
\* the device file is there as long as the driver is bound.
FileIsServed ==
  /\ \A c \in Callers : IsOpen(c) =>
       loader = "in" /\ (g_client \/ binder = "probing")
  /\ binder = "bound" => loader # "out" /\ held[Eeprom] = Objects
=============================================================================
