---------------------------- MODULE SpankerDriver ----------------------------
(***************************************************************************)
(* The kernel module spanker.ko (src/driver): the insmod and rmmod paths   *)
(* of spanker_main.c, the PCI driver it registers, and the control device  *)
(* /dev/spankerctl with the ioctl dispatcher of spanker_ioctl.c.           *)
(*                                                                         *)
(* Actors that interleave: the task running insmod or rmmod (one label of  *)
(* spanker_init or spanker_exit per step), user processes that open, call  *)
(* and close the control device, and the PCI bus, where cards come and go. *)
(* The module loader, the VFS and the PCI core are the kernel's: only what *)
(* the driver relies on is modelled, and marked external.                  *)
(***************************************************************************)
EXTENDS FiniteSets, Naturals

CONSTANTS
  Users,     \* processes that use the control device
  Cards,     \* PCI slots that may hold a Sail
  Abis,      \* versions a build of the module may report
  CanFail,   \* kernel calls of spanker_init that may fail, by what they acquire
  Cmds,      \* ioctl commands user processes issue
  NoAbi, NoCall

\* What spanker_init acquires, one kernel object per stage.
Resources == {"region", "cdev", "class", "device", "pci"}

ASSUME CanFailAssumption == CanFail \subseteq Resources
ASSUME AbiAssumption == NoAbi \notin Abis

VARIABLES
  mod,    \* the loader's module state
  at,     \* the next statement of spanker_init or spanker_exit
  held,   \* the kernel objects the module owns
  abi,    \* the version compiled into the loaded module
  slot,   \* each card: absent, present, or bound to spanker_pci_driver
  file,   \* each user's file on the control device
  call,   \* each user's ioctl in flight
  reply   \* each user's last ioctl answer

modVars  == <<mod, at, held, abi>>
userVars == <<file, call, reply>>
vars     == <<modVars, slot, userVars>>

-----------------------------------------------------------------------------
(* The ioctl ABI (include/uapi/spanker_ioctl.h).                            *)

MAGIC == 227                             \* 0xE3
VERSION_SIZE == 8                        \* sizeof(struct spanker_version)

IO(type, nr)        == [dir |-> "none", type |-> type, nr |-> nr, size |-> 0]
IOR(type, nr, size) == [dir |-> "read", type |-> type, nr |-> nr, size |-> size]

PING        == IO(MAGIC, 1)
GET_VERSION == IOR(MAGIC, 2, VERSION_SIZE)

\* A command word decodes into these four fields, whoever built it.
Commands == [dir : {"none", "read"}, type : Nat, nr : Nat, size : Nat]
ASSUME CmdsAssumption == /\ Cmds \subseteq Commands
                         /\ {PING, GET_VERSION} \subseteq Cmds

\* A request: the command, and whether its argument is memory the caller may write.
Requests == [cmd : Cmds, writable : BOOLEAN]
\* An answer: the return value, the version copied out, and the bytes that took.
Answers  == [ret : {"0", "ENOTTY", "EFAULT"}, version : Abis \cup {NoAbi},
             copied : {0, VERSION_SIZE}]
NoAnswer == [ret |-> "none", version |-> NoAbi, copied |-> 0]
\* Freed code was entered: the kernel is broken and the caller may see anything.
Oops     == [ret |-> "oops", version |-> NoAbi, copied |-> 0]

Refuse(errno) == [ret |-> errno, version |-> NoAbi, copied |-> 0]
Succeed       == [ret |-> "0", version |-> NoAbi, copied |-> 0]
Bug_CopyBeyondStruct == [ret |-> "0", version |-> abi, copied |-> VERSION_SIZE + 4]
CopyVersion   == [ret |-> "0", version |-> abi, copied |-> VERSION_SIZE]

Bug_DispatchOnNumber(req) ==
  IF req.cmd.type # MAGIC THEN Refuse("ENOTTY")
  ELSE IF req.cmd.nr = PING.nr THEN Succeed
  ELSE IF req.cmd.nr # GET_VERSION.nr THEN Refuse("ENOTTY")
  ELSE IF req.writable THEN CopyVersion ELSE Refuse("EFAULT")

\* spanker_ctl_ioctl.
Dispatch(req) ==
  IF req.cmd.type # MAGIC THEN Refuse("ENOTTY")
  ELSE IF req.cmd = PING THEN Succeed
  ELSE IF req.cmd # GET_VERSION THEN Refuse("ENOTTY")
  ELSE IF req.writable THEN CopyVersion ELSE Refuse("EFAULT")

-----------------------------------------------------------------------------
(* The task that loads or unloads the module.                               *)

InitLabels == {"alloc_chrdev_region", "cdev_add", "class_create",
               "device_create", "pci_register_driver", "init_ok",
               "destroy_device", "destroy_class", "del_cdev",
               "unregister_region", "init_err"}
ExitLabels == {"exit_pci_unregister", "exit_device_destroy",
               "exit_class_destroy", "exit_cdev_del",
               "exit_unregister_region", "exit_done"}

\* A kernel call that acquires r: it succeeds, or fails and jumps to recover.
Acquire(here, r, next, recover) ==
  /\ at = here
  /\ \/ /\ held' = held \cup {r}
        /\ at' = next
     \/ /\ r \in CanFail
        /\ at' = recover
        /\ UNCHANGED held
  /\ UNCHANGED <<mod, abi, userVars>>

\* A kernel call that gives r back; it cannot fail.
Release(here, r, next) ==
  /\ at = here
  /\ held' = held \ {r}
  /\ at' = next
  /\ UNCHANGED <<mod, abi, userVars>>

\* spanker_init, in order.
AllocChrdevRegion ==
  /\ Acquire("alloc_chrdev_region", "region", "cdev_add", "init_err")
  /\ UNCHANGED slot
Bug_CdevAddReturnsErr ==
  /\ Acquire("cdev_add", "cdev", "class_create", "init_err")
  /\ UNCHANGED slot
CdevAdd ==
  /\ Acquire("cdev_add", "cdev", "class_create", "unregister_region")
  /\ UNCHANGED slot
ClassCreate ==
  /\ Acquire("class_create", "class", "device_create", "del_cdev")
  /\ UNCHANGED slot
Bug_DeviceErrorIgnored ==
  /\ Acquire("device_create", "device", "pci_register_driver",
             "pci_register_driver")
  /\ UNCHANGED slot
DeviceCreate ==
  /\ Acquire("device_create", "device", "pci_register_driver", "destroy_class")
  /\ UNCHANGED slot
Bug_PciErrorRetried ==
  /\ Acquire("pci_register_driver", "pci", "init_ok", "device_create")
  /\ slot' = IF "pci" \in held'
             THEN [c \in Cards |-> IF slot[c] = "present" THEN "bound" ELSE slot[c]]
             ELSE slot
\* Registration probes every card already present; spanker_pci_probe accepts all.
PciRegisterDriver ==
  /\ Acquire("pci_register_driver", "pci", "init_ok", "destroy_device")
  /\ slot' = IF "pci" \in held'
             THEN [c \in Cards |-> IF slot[c] = "present" THEN "bound" ELSE slot[c]]
             ELSE slot

\* The error path of spanker_init.
DestroyDevice ==
  Release("destroy_device", "device", "destroy_class") /\ UNCHANGED slot
DestroyClass ==
  Release("destroy_class", "class", "del_cdev") /\ UNCHANGED slot
DelCdev ==
  Release("del_cdev", "cdev", "unregister_region") /\ UNCHANGED slot
UnregisterRegion ==
  Release("unregister_region", "region", "init_err") /\ UNCHANGED slot

Bug_ExitKeepsPciDriver ==
  /\ at = "exit_pci_unregister"
  /\ at' = "exit_device_destroy"
  /\ UNCHANGED <<mod, held, abi, userVars, slot>>
\* spanker_exit, in order. Unregistering removes the driver from every card.
ExitPciUnregister ==
  /\ Release("exit_pci_unregister", "pci", "exit_device_destroy")
  /\ slot' = [c \in Cards |-> IF slot[c] = "bound" THEN "present" ELSE slot[c]]
Bug_ExitClassFirst ==
  Release("exit_device_destroy", "class", "exit_class_destroy") /\ UNCHANGED slot
ExitDeviceDestroy ==
  Release("exit_device_destroy", "device", "exit_class_destroy") /\ UNCHANGED slot
ExitClassDestroy ==
  Release("exit_class_destroy", "class", "exit_cdev_del") /\ UNCHANGED slot
ExitCdevDel ==
  Release("exit_cdev_del", "cdev", "exit_unregister_region") /\ UNCHANGED slot
ExitUnregisterRegion ==
  Release("exit_unregister_region", "region", "exit_done") /\ UNCHANGED slot

InitStep == \/ AllocChrdevRegion \/ CdevAdd \/ ClassCreate
            \/ DeviceCreate \/ PciRegisterDriver
            \/ DestroyDevice \/ DestroyClass \/ DelCdev \/ UnregisterRegion
ExitStep == \/ ExitPciUnregister \/ ExitDeviceDestroy \/ ExitClassDestroy
            \/ ExitCdevDel \/ ExitUnregisterRegion

-----------------------------------------------------------------------------
(* The module loader (external).                                            *)

Bug_OwnerNotSet == FALSE
\* A file pins the module because spanker_ctl_fops and the cdev name THIS_MODULE.
Pinned == \E u \in Users : file[u] = "open"

Insmod ==
  /\ mod = "Unloaded"
  /\ mod' = "Coming"
  /\ at' = "alloc_chrdev_region"
  /\ abi' \in Abis
  /\ UNCHANGED <<held, slot, userVars>>

LoadSucceeds ==
  /\ at = "init_ok"
  /\ mod' = "Live"
  /\ at' = "idle"
  /\ UNCHANGED <<held, abi, slot, userVars>>

\* delete_module refuses a module that is not live or is in use.
Rmmod ==
  /\ mod = "Live"
  /\ ~ Pinned
  /\ mod' = "Going"
  /\ at' = "exit_pci_unregister"
  /\ UNCHANGED <<held, abi, slot, userVars>>

\* The text and data of the module are freed. After a failed init nobody waits
\* for the references that opens took meanwhile: such a file is left dangling.
FreeModule ==
  /\ at \in {"init_err", "exit_done"}
  /\ mod' = "Unloaded"
  /\ at' = "idle"
  /\ abi' = NoAbi
  /\ file' = [u \in Users |-> IF file[u] = "open" THEN "dangling" ELSE file[u]]
  /\ UNCHANGED <<held, slot, call, reply>>

-----------------------------------------------------------------------------
(* The PCI bus: cards are plugged and pulled, and bound while registered.   *)

Bug_HotAddUnbound(c) ==
  /\ slot[c] = "absent"
  /\ slot' = [slot EXCEPT ![c] = "present"]
  /\ UNCHANGED <<modVars, userVars>>

HotAdd(c) ==
  /\ slot[c] = "absent"
  /\ slot' = [slot EXCEPT ![c] = IF "pci" \in held THEN "bound" ELSE "present"]
  /\ UNCHANGED <<modVars, userVars>>

HotRemove(c) ==
  /\ slot[c] # "absent"
  /\ slot' = [slot EXCEPT ![c] = "absent"]
  /\ UNCHANGED <<modVars, userVars>>

-----------------------------------------------------------------------------
(* User processes on /dev/spankerctl.                                       *)

Bug_OpenWhileGoing == {"device", "cdev"} \subseteq held
\* The node exists, its number leads to the cdev, and the module may be pinned.
Openable == {"device", "cdev"} \subseteq held /\ mod # "Going"

Open(u) ==
  /\ file[u] = "none"
  /\ Openable
  /\ file' = [file EXCEPT ![u] = "open"]
  /\ reply' = [reply EXCEPT ![u] = NoAnswer]
  /\ UNCHANGED <<modVars, slot, call>>

IoctlEnter(u, req) ==
  /\ file[u] = "open"
  /\ call[u] = NoCall
  /\ call' = [call EXCEPT ![u] = req]
  /\ UNCHANGED <<modVars, slot, file, reply>>

IoctlReturn(u) ==
  /\ file[u] = "open"
  /\ call[u] # NoCall
  /\ reply' = [reply EXCEPT ![u] = Dispatch(call[u])]
  /\ call' = [call EXCEPT ![u] = NoCall]
  /\ UNCHANGED <<modVars, slot, file>>

\* An ioctl, the rest of one, or a close on a file whose module has been freed:
\* every one goes through freed memory, so any outcome is possible.
UseDangling(u) ==
  /\ file[u] = "dangling"
  /\ \E a \in Answers \cup {Oops} : reply' = [reply EXCEPT ![u] = a]
  /\ call' = [call EXCEPT ![u] = NoCall]
  /\ \E f \in {"dangling", "none"} : file' = [file EXCEPT ![u] = f]
  /\ UNCHANGED <<modVars, slot>>

\* close(2) waits for the caller's ioctl.
Close(u) ==
  /\ file[u] = "open"
  /\ call[u] = NoCall
  /\ file' = [file EXCEPT ![u] = "none"]
  /\ reply' = [reply EXCEPT ![u] = NoAnswer]
  /\ UNCHANGED <<modVars, slot, call>>

-----------------------------------------------------------------------------
Init ==
  /\ mod = "Unloaded"
  /\ at = "idle"
  /\ held = {}
  /\ abi = NoAbi
  /\ slot \in [Cards -> {"absent", "present"}]
  /\ file = [u \in Users |-> "none"]
  /\ call = [u \in Users |-> NoCall]
  /\ reply = [u \in Users |-> NoAnswer]

LoaderStep == Insmod \/ LoadSucceeds \/ Rmmod \/ FreeModule
BusStep    == \E c \in Cards : HotAdd(c) \/ HotRemove(c)
UserStep   == \E u \in Users :
                \/ Open(u) \/ IoctlReturn(u) \/ UseDangling(u) \/ Close(u)
                \/ \E req \in Requests : IoctlEnter(u, req)

Next == InitStep \/ ExitStep \/ LoaderStep \/ BusStep \/ UserStep

\* insmod and rmmod run to completion once started, and the dispatcher never
\* blocks for good. Nobody is obliged to load, unload, open, call or close.
Fairness ==
  /\ WF_vars(InitStep) /\ WF_vars(ExitStep)
  /\ WF_vars(LoadSucceeds) /\ WF_vars(FreeModule)
  /\ \A u \in Users : WF_vars(IoctlReturn(u))

Spec == Init /\ [][Next]_vars /\ Fairness

-----------------------------------------------------------------------------
(* Properties.                                                              *)

TypeOK ==
  /\ mod \in {"Unloaded", "Coming", "Live", "Going"}
  /\ at \in {"idle"} \cup InitLabels \cup ExitLabels
  /\ held \subseteq Resources
  /\ abi \in Abis \cup {NoAbi}
  /\ slot \in [Cards -> {"absent", "present", "bound"}]
  /\ file \in [Users -> {"none", "open", "dangling"}]
  /\ call \in [Users -> Requests \cup {NoCall}]
  /\ reply \in [Users -> Answers \cup {NoAnswer, Oops}]

\* Whatever call of spanker_init failed, and after every spanker_exit, an
\* unloaded module owns nothing and drives no card.
NoLeak ==
  mod = "Unloaded" => held = {} /\ \A c \in Cards : slot[c] # "bound"

\* A module the loader made live owns everything: no failure is swallowed.
LiveOwnsAll == mod = "Live" => held = Resources

\* No object outlives one it is built on: along init, its error path and exit,
\* the device has its class, the class its cdev, the cdev its number.
LastInFirstOut ==
  /\ "pci" \in held => "device" \in held
  /\ "device" \in held => "class" \in held
  /\ "class" \in held => "cdev" \in held
  /\ "cdev" \in held => "region" \in held

\* A card is bound only while the control device is there to be asked about it.
BoundNeedsControl ==
  (\E c \in Cards : slot[c] = "bound") => held = Resources

\* A live module drives every card, plugged before the load or after it.
LiveDrivesEveryCard ==
  mod = "Live" => \A c \in Cards : slot[c] # "present"

\* spanker_exit runs alone: no file is open when it starts and none gets opened
\* while the node still exists.
ExitIsAlone == mod = "Going" => \A u \in Users : file[u] # "open"

\* Only a failed spanker_init can take the code away under an open file;
\* rmmod never does.
DanglingOnlyByFailedInit ==
  [][\A u \in Users : file[u] = "open" /\ file'[u] = "dangling"
                        => at = "init_err"]_vars

\* The last acquisition is the only dangerous one: when pci_register_driver
\* cannot fail, no file is ever left on freed code, since every other failure
\* comes before the node can be opened.
NoUseAfterFree ==
  "pci" \notin CanFail => \A u \in Users : file[u] # "dangling" /\ reply[u] # Oops

\* What the header promises of PING: a caller that was told 0, and has kept the
\* device open since, does not see the load of the module come to nothing.
PingMeansLoaded ==
  [][\A u \in Users :
       file[u] = "open" /\ reply[u] = Succeed => mod' # "Unloaded"]_vars

\* The dispatcher writes no more than the size encoded in the caller's command,
\* and only to memory the caller may write, whatever header the caller has.
CopyFitsRequest ==
  [][\A u \in Users :
       file[u] = "open" /\ call[u] # NoCall /\ call'[u] = NoCall =>
         /\ reply'[u].copied <= call[u].cmd.size
         /\ reply'[u].copied > 0 => call[u].writable]_vars

\* insmod and rmmod end, on whichever path.
LoaderSettles == (at # "idle") ~> (at = "idle")
=============================================================================
