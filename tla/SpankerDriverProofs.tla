------------------------- MODULE SpankerDriverProofs -------------------------
(***************************************************************************)
(* What holds of spanker.ko for any number of users and cards, any set of  *)
(* versions and commands, and any set of kernel calls that may fail.       *)
(*                                                                         *)
(* The safety properties of SpankerDriver are not inductive: whether a     *)
(* release is the right one depends on the label the task is at.  IInv     *)
(* says, for each kernel object, at which labels the module owns it, and   *)
(* at which labels a file can be open.                                     *)
(***************************************************************************)
EXTENDS SpankerDriver, TLAPS

\* The loader's state and the label agree.
LabelInv ==
  /\ mod = "Coming" <=> at \in InitLabels
  /\ mod = "Going" <=> at \in ExitLabels

\* The labels at which an object is owned, besides all of a live module's life.
HoldsInv(r, labels) == r \in held <=> mod = "Live" \/ at \in labels

DeviceLabels == {"pci_register_driver", "init_ok", "destroy_device",
                 "exit_pci_unregister", "exit_device_destroy"}
ClassLabels  == DeviceLabels \cup {"device_create", "destroy_class", "exit_class_destroy"}
CdevLabels   == ClassLabels \cup {"class_create", "del_cdev", "exit_cdev_del"}
RegionLabels == CdevLabels \cup {"cdev_add", "unregister_region",
                                 "exit_unregister_region"}

HeldInv ==
  /\ HoldsInv("pci", {"init_ok", "exit_pci_unregister"})
  /\ HoldsInv("device", DeviceLabels)
  /\ HoldsInv("class", ClassLabels)
  /\ HoldsInv("cdev", CdevLabels)
  /\ HoldsInv("region", RegionLabels)

\* The PCI core binds every card as long as the driver is registered.
SlotInv ==
  \A c \in Cards : /\ "pci" \in held => slot[c] # "present"
                   /\ "pci" \notin held => slot[c] # "bound"

\* A file is opened only once the node exists. While the task is on the error
\* path, or in exit, an open file stems from a failed PCI registration.
FileInv ==
  \A u \in Users : file[u] = "open" =>
    \/ mod = "Live"
    \/ at \in {"pci_register_driver", "init_ok"}
    \/ mod = "Coming" /\ "pci" \in CanFail

\* Where pci_register_driver cannot fail, destroy_device is never reached, and
\* the later labels of the error path are reached with no file open.
DanglingInv ==
  "pci" \notin CanFail =>
    /\ at # "destroy_device"
    /\ NoUseAfterFree

IInv == TypeOK /\ LabelInv /\ HeldInv /\ SlotInv /\ FileInv /\ DanglingInv

-----------------------------------------------------------------------------
\* What the dispatcher answers is an answer: every return of spanker_ctl_ioctl
\* yields a declared errno, and copies a whole version or nothing.
LEMMA DispatchType ==
  ASSUME TypeOK, abi \in Abis \cup {NoAbi}, NEW req \in Requests
  PROVE  Dispatch(req) \in Answers
BY DEF Dispatch, Answers, Refuse, Succeed, CopyVersion

\* The dispatcher compares whole command words, so what it copies has the size
\* the caller's word announces.
LEMMA DispatchFits ==
  ASSUME NEW req \in Requests
  PROVE  /\ Dispatch(req).copied <= req.cmd.size
         /\ Dispatch(req).copied > 0 => req.writable
<1>1. req.cmd.size \in Nat
  BY CmdsAssumption DEF Requests, Commands
<1>2. CASE req.cmd = GET_VERSION /\ req.writable
  BY <1>2 DEF Dispatch, GET_VERSION, IOR, PING, IO, CopyVersion, VERSION_SIZE
<1>3. CASE ~ (req.cmd = GET_VERSION /\ req.writable)
  <2>1. Dispatch(req).copied = 0
    BY <1>3 DEF Dispatch, Refuse, Succeed
  <2> QED
    BY <1>1, <2>1
<1> QED
  BY <1>2, <1>3

\* The loading or unloading task touches no file, call or answer.
LEMMA InitExitSpareUsers == InitStep \/ ExitStep => UNCHANGED userVars
BY DEF InitStep, ExitStep, AllocChrdevRegion, CdevAdd, ClassCreate, DeviceCreate,
       PciRegisterDriver, DestroyDevice, DestroyClass, DelCdev, UnregisterRegion,
       ExitPciUnregister, ExitDeviceDestroy, ExitClassDestroy, ExitCdevDel,
       ExitUnregisterRegion, Acquire, Release

\* One step of anything keeps the types.
LEMMA TypeStep == TypeOK /\ [Next]_vars => TypeOK'
<1> SUFFICES ASSUME TypeOK, [Next]_vars PROVE TypeOK'
  OBVIOUS
<1>1. CASE InitStep
  BY <1>1 DEF InitStep, AllocChrdevRegion, CdevAdd, ClassCreate, DeviceCreate,
     PciRegisterDriver, DestroyDevice, DestroyClass, DelCdev, UnregisterRegion,
     Acquire, Release, TypeOK, InitLabels, Resources, userVars
<1>2. CASE ExitStep
  BY <1>2 DEF ExitStep, ExitPciUnregister, ExitDeviceDestroy, ExitClassDestroy,
     ExitCdevDel, ExitUnregisterRegion, Release, TypeOK, ExitLabels, userVars
<1>3. CASE LoaderStep
  BY <1>3 DEF LoaderStep, Insmod, LoadSucceeds, Rmmod, FreeModule, TypeOK,
     InitLabels, ExitLabels, userVars
<1>4. CASE BusStep
  BY <1>4 DEF BusStep, HotAdd, HotRemove, TypeOK, modVars, userVars
<1>5. CASE UserStep
  <2> PICK u \in Users :
        \/ Open(u) \/ IoctlReturn(u) \/ UseDangling(u) \/ Close(u)
        \/ \E req \in Requests : IoctlEnter(u, req)
    BY <1>5 DEF UserStep
  <2>1. CASE Open(u) \/ Close(u) \/ UseDangling(u)
    BY <2>1 DEF Open, Close, UseDangling, TypeOK, modVars
  <2>2. CASE IoctlReturn(u)
    <3>1. call[u] \in Requests
      BY <2>2 DEF IoctlReturn, TypeOK
    <3>2. Dispatch(call[u]) \in Answers
      BY <3>1, DispatchType DEF TypeOK
    <3> QED
      BY <2>2, <3>2 DEF IoctlReturn, TypeOK, modVars
  <2>3. CASE \E req \in Requests : IoctlEnter(u, req)
    BY <2>3 DEF IoctlEnter, TypeOK, modVars
  <2> QED
    BY <2>1, <2>2, <2>3
<1>6. CASE UNCHANGED vars
  BY <1>6 DEF vars, modVars, userVars, TypeOK
<1> QED
  BY <1>1, <1>2, <1>3, <1>4, <1>5, <1>6 DEF Next

\* Each variable keeps its type through every step of the driver and its world.
THEOREM TypeCorrect == Spec => []TypeOK
<1>1. Init => TypeOK
  BY DEF Init, TypeOK
<1>2. TypeOK /\ [Next]_vars => TypeOK'
  BY TypeStep
<1> QED
  BY <1>1, <1>2, PTL DEF Spec

-----------------------------------------------------------------------------
\* Every step keeps the label, the objects owned, the cards bound and the files
\* open in the relation IInv describes.
LEMMA InductiveStep == IInv /\ [Next]_vars => IInv'
<1> SUFFICES ASSUME IInv, [Next]_vars PROVE IInv'
  OBVIOUS
<1>0. TypeOK'
  BY TypeStep DEF IInv
<1> USE DEF LabelInv, HeldInv, HoldsInv, SlotInv, FileInv, DanglingInv,
            InitLabels, ExitLabels, DeviceLabels, ClassLabels, CdevLabels,
            RegionLabels, NoUseAfterFree
<1>1. CASE InitStep
  <2> USE DEF Acquire, Release, userVars
  <2>1. CASE AllocChrdevRegion
    BY <1>0, <2>1 DEF IInv, AllocChrdevRegion
  <2>2. CASE CdevAdd
    BY <1>0, <2>2 DEF IInv, CdevAdd
  <2>3. CASE ClassCreate
    BY <1>0, <2>3 DEF IInv, ClassCreate
  <2>4. CASE DeviceCreate
    BY <1>0, <2>4 DEF IInv, DeviceCreate
  <2>5. CASE PciRegisterDriver
    <3>1. SlotInv'
      BY <2>5 DEF IInv, PciRegisterDriver, TypeOK
    <3> QED
      BY <1>0, <2>5, <3>1 DEF IInv, PciRegisterDriver
  <2>6. CASE DestroyDevice
    BY <1>0, <2>6 DEF IInv, DestroyDevice
  <2>7. CASE DestroyClass
    BY <1>0, <2>7 DEF IInv, DestroyClass
  <2>8. CASE DelCdev
    BY <1>0, <2>8 DEF IInv, DelCdev
  <2>9. CASE UnregisterRegion
    BY <1>0, <2>9 DEF IInv, UnregisterRegion
  <2> QED
    BY <1>1, <2>1, <2>2, <2>3, <2>4, <2>5, <2>6, <2>7, <2>8, <2>9 DEF InitStep
<1>2. CASE ExitStep
  <2> USE DEF Release, userVars
  <2>1. CASE ExitPciUnregister
    <3>1. SlotInv'
      BY <2>1 DEF IInv, ExitPciUnregister, TypeOK
    <3> QED
      BY <1>0, <2>1, <3>1 DEF IInv, ExitPciUnregister
  <2>2. CASE ExitDeviceDestroy
    BY <1>0, <2>2 DEF IInv, ExitDeviceDestroy
  <2>3. CASE ExitClassDestroy
    BY <1>0, <2>3 DEF IInv, ExitClassDestroy
  <2>4. CASE ExitCdevDel
    BY <1>0, <2>4 DEF IInv, ExitCdevDel
  <2>5. CASE ExitUnregisterRegion
    BY <1>0, <2>5 DEF IInv, ExitUnregisterRegion
  <2> QED
    BY <1>2, <2>1, <2>2, <2>3, <2>4, <2>5 DEF ExitStep
<1>3. CASE LoaderStep
  <2> USE DEF userVars
  <2>1. CASE Insmod
    BY <1>0, <2>1 DEF IInv, Insmod
  <2>2. CASE LoadSucceeds
    BY <1>0, <2>2 DEF IInv, LoadSucceeds
  <2>3. CASE Rmmod
    BY <1>0, <2>3 DEF IInv, Rmmod, Pinned
  <2>4. CASE FreeModule
    BY <1>0, <2>4 DEF IInv, FreeModule, TypeOK
  <2> QED
    BY <1>3, <2>1, <2>2, <2>3, <2>4 DEF LoaderStep
<1>4. CASE BusStep
  <2> USE DEF modVars, userVars
  <2>1. CASE \E c \in Cards : HotAdd(c)
    <3>1. SlotInv'
      BY <2>1 DEF IInv, HotAdd, TypeOK
    <3> QED
      BY <1>0, <2>1, <3>1 DEF IInv, HotAdd
  <2>2. CASE \E c \in Cards : HotRemove(c)
    <3>1. SlotInv'
      BY <2>2 DEF IInv, HotRemove, TypeOK
    <3> QED
      BY <1>0, <2>2, <3>1 DEF IInv, HotRemove
  <2> QED
    BY <1>4, <2>1, <2>2 DEF BusStep
<1>5. CASE UserStep
  <2> PICK u \in Users :
        \/ Open(u) \/ IoctlReturn(u) \/ UseDangling(u) \/ Close(u)
        \/ \E req \in Requests : IoctlEnter(u, req)
    BY <1>5 DEF UserStep
  <2> USE DEF modVars
  <2>1. CASE Open(u)
    BY <1>0, <2>1 DEF IInv, Open, Openable, TypeOK, NoAnswer, Oops
  <2>2. CASE IoctlReturn(u)
    <3>1. Dispatch(call[u]) # Oops
      <4>1. call[u] \in Requests
        BY <2>2 DEF IInv, IoctlReturn, TypeOK
      <4>2. Dispatch(call[u]) \in Answers
        BY <4>1, DispatchType DEF IInv, TypeOK
      <4> QED
        BY <4>2 DEF Answers, Oops
    <3> QED
      BY <1>0, <2>2, <3>1 DEF IInv, IoctlReturn, TypeOK
  <2>3. CASE UseDangling(u)
    BY <1>0, <2>3 DEF IInv, UseDangling, TypeOK
  <2>4. CASE Close(u)
    BY <1>0, <2>4 DEF IInv, Close, TypeOK, NoAnswer, Oops
  <2>5. CASE \E req \in Requests : IoctlEnter(u, req)
    BY <1>0, <2>5 DEF IInv, IoctlEnter
  <2> QED
    BY <2>1, <2>2, <2>3, <2>4, <2>5
<1>6. CASE UNCHANGED vars
  BY <1>0, <1>6 DEF IInv, vars, modVars, userVars
<1> QED
  BY <1>1, <1>2, <1>3, <1>4, <1>5, <1>6 DEF Next

LEMMA InitialInv == Init => IInv
  BY DEF Init, IInv, TypeOK, LabelInv, HeldInv, HoldsInv, SlotInv, FileInv,
         DanglingInv, NoUseAfterFree, InitLabels, ExitLabels, DeviceLabels,
         ClassLabels, CdevLabels, RegionLabels, NoAnswer, Oops

\* The inductive invariant holds of every behaviour of the module and its world.
THEOREM Invariance == Spec => []IInv
  BY InitialInv, InductiveStep, PTL DEF Spec

-----------------------------------------------------------------------------
\* Whatever subset of the kernel calls of spanker_init fails, in whatever order
\* loads, unloads, opens and hot-plugs come, an unloaded module has leaked nothing.
THEOREM NothingLeaked == Spec => []NoLeak
<1>1. IInv => NoLeak
  BY DEF IInv, TypeOK, LabelInv, HeldInv, HoldsInv, SlotInv, InitLabels, ExitLabels,
         DeviceLabels, ClassLabels, CdevLabels, RegionLabels, Resources, NoLeak
<1> QED
  BY <1>1, Invariance, PTL

\* No failure is swallowed: a module that was made live lacks nothing.
THEOREM NothingLacked == Spec => []LiveOwnsAll
<1>1. IInv => LiveOwnsAll
  BY DEF IInv, TypeOK, HeldInv, HoldsInv, Resources, LiveOwnsAll
<1> QED
  BY <1>1, Invariance, PTL

\* Kernel objects are given back in the reverse of the order they were taken,
\* by the error path of spanker_init and by spanker_exit alike.
THEOREM ReverseOrder == Spec => []LastInFirstOut
<1>1. IInv => LastInFirstOut
  BY DEF IInv, HeldInv, HoldsInv, DeviceLabels, ClassLabels, CdevLabels,
         RegionLabels, LastInFirstOut
<1> QED
  BY <1>1, Invariance, PTL

\* Cards are driven only while the whole module is there: no card is bound
\* without a control device.
THEOREM CardsFollowModule == Spec => []BoundNeedsControl
<1>1. IInv => BoundNeedsControl
  BY DEF IInv, TypeOK, LabelInv, HeldInv, HoldsInv, SlotInv, DeviceLabels,
         ClassLabels, CdevLabels, RegionLabels, Resources, BoundNeedsControl
<1> QED
  BY <1>1, Invariance, PTL

\* A live module leaves no card unbound, whenever it was plugged.
THEOREM NoCardIsMissed == Spec => []LiveDrivesEveryCard
<1>1. IInv => LiveDrivesEveryCard
  BY DEF IInv, HeldInv, HoldsInv, SlotInv, LiveDrivesEveryCard
<1> QED
  BY <1>1, Invariance, PTL

\* spanker_exit never runs beside an open control device.
THEOREM ExitRunsAlone == Spec => []ExitIsAlone
<1>1. IInv => ExitIsAlone
  BY DEF IInv, LabelInv, FileInv, InitLabels, ExitLabels, ExitIsAlone
<1> QED
  BY <1>1, Invariance, PTL

\* An open file loses its code only to the failure of spanker_init, never to rmmod.
THEOREM RmmodFreesNothingInUse == Spec => DanglingOnlyByFailedInit
<1>1. IInv /\ [Next]_vars =>
        [\A u \in Users : file[u] = "open" /\ file'[u] = "dangling"
                         => at = "init_err"]_vars
  <2> SUFFICES ASSUME IInv, Next, NEW u \in Users,
                      file[u] = "open", file'[u] = "dangling"
               PROVE  at = "init_err"
    OBVIOUS
  <2>1. CASE InitStep \/ ExitStep
    BY <2>1, InitExitSpareUsers DEF userVars
  <2>2. CASE LoaderStep
    BY <2>2 DEF LoaderStep, Insmod, LoadSucceeds, Rmmod, FreeModule, IInv,
       LabelInv, FileInv, ExitLabels, InitLabels, userVars
  <2>3. CASE BusStep
    BY <2>3 DEF BusStep, HotAdd, HotRemove, userVars
  <2>4. CASE UserStep
    <3> PICK v \in Users :
          \/ Open(v) \/ IoctlReturn(v) \/ UseDangling(v) \/ Close(v)
          \/ \E req \in Requests : IoctlEnter(v, req)
      BY <2>4 DEF UserStep
    <3> QED
      BY DEF IInv, TypeOK, Open, IoctlReturn, UseDangling, Close, IoctlEnter
  <2> QED
    BY <2>1, <2>2, <2>3, <2>4 DEF Next
<1> QED
  BY <1>1, Invariance, PTL DEF Spec, DanglingOnlyByFailedInit

\* A failing pci_register_driver is the one failure that can take the code away
\* under an open file: no failure of an earlier call can.
THEOREM OnlyPciFailureDangles == Spec => []NoUseAfterFree
<1>1. IInv => NoUseAfterFree
  BY DEF IInv, DanglingInv, NoUseAfterFree
<1> QED
  BY <1>1, Invariance, PTL

\* The statements before spanker_init or spanker_exit has returned and the loader
\* has taken note of it, on the longest way from this one.
StatementsLeft ==
  CASE at = "idle" -> 0
    [] at \in {"init_ok", "init_err", "exit_done"} -> 1
    [] at \in {"unregister_region", "exit_unregister_region"} -> 2
    [] at \in {"del_cdev", "exit_cdev_del"} -> 3
    [] at \in {"destroy_class", "exit_class_destroy"} -> 4
    [] at \in {"destroy_device", "exit_device_destroy"} -> 5
    [] at \in {"pci_register_driver", "exit_pci_unregister"} -> 6
    [] at = "device_create" -> 7
    [] at = "class_create" -> 8
    [] at = "cdev_add" -> 9
    [] at = "alloc_chrdev_region" -> 10

\* Once begun, a load or an unload comes closer to its end with every step of the
\* module, and neither cards nor users can set it back: ten statements are the most,
\* whichever of them fail.  It is what LoaderSettles rests on besides fairness.
THEOREM LoadsAreBounded ==
  Spec => [][at # "idle" => /\ StatementsLeft \in 1..10
                            /\ StatementsLeft' <= StatementsLeft
                            /\ modVars' # modVars => StatementsLeft' < StatementsLeft]_vars
<1>1. TypeOK /\ LabelInv /\ [Next]_vars =>
        [at # "idle" => /\ StatementsLeft \in 1..10
                        /\ StatementsLeft' <= StatementsLeft
                        /\ modVars' # modVars => StatementsLeft' < StatementsLeft]_vars
  <2> SUFFICES ASSUME TypeOK, LabelInv, Next, at # "idle"
               PROVE  /\ StatementsLeft \in 1..10
                      /\ StatementsLeft' <= StatementsLeft
                      /\ modVars' # modVars => StatementsLeft' < StatementsLeft
    OBVIOUS
  <2>1. at \in InitLabels \cup ExitLabels
    BY DEF TypeOK
  <2>2. StatementsLeft \in 1..10
    BY <2>1 DEF StatementsLeft, InitLabels, ExitLabels
  <2>3. CASE UNCHANGED modVars
    <3>1. StatementsLeft' = StatementsLeft
      BY <2>3 DEF StatementsLeft, modVars
    <3> QED
      BY <2>2, <2>3, <3>1
  <2>4. CASE InitStep
    <3>1. StatementsLeft' \in Nat /\ StatementsLeft' < StatementsLeft
      BY <2>4 DEF InitStep, AllocChrdevRegion, CdevAdd, ClassCreate, DeviceCreate,
         PciRegisterDriver, DestroyDevice, DestroyClass, DelCdev, UnregisterRegion,
         Acquire, Release, StatementsLeft
    <3> QED
      BY <2>2, <3>1
  <2>5. CASE ExitStep
    <3>1. StatementsLeft' \in Nat /\ StatementsLeft' < StatementsLeft
      BY <2>5 DEF ExitStep, ExitPciUnregister, ExitDeviceDestroy, ExitClassDestroy,
         ExitCdevDel, ExitUnregisterRegion, Release, StatementsLeft
    <3> QED
      BY <2>2, <3>1
  <2>6. CASE LoaderStep
    <3>1. ~ Insmod /\ ~ Rmmod
      BY <2>1 DEF Insmod, Rmmod, LabelInv, InitLabels, ExitLabels
    <3>2. StatementsLeft' = 0
      BY <2>6, <3>1 DEF LoaderStep, LoadSucceeds, FreeModule, StatementsLeft
    <3> QED
      BY <2>2, <3>2
  <2>7. CASE BusStep \/ UserStep
    <3>1. UNCHANGED modVars
      BY <2>7 DEF BusStep, HotAdd, HotRemove, UserStep, Open, IoctlEnter, IoctlReturn,
         UseDangling, Close
    <3> QED
      BY <2>3, <3>1
  <2> QED
    BY <2>4, <2>5, <2>6, <2>7 DEF Next
<1> QED
  BY <1>1, Invariance, PTL DEF Spec, IInv

\* The dispatcher never writes more bytes than the caller's command announces,
\* and never to memory the caller may not write.
THEOREM CopyIsBounded == Spec => CopyFitsRequest
<1>1. TypeOK /\ [Next]_vars =>
        [\A u \in Users :
           file[u] = "open" /\ call[u] # NoCall /\ call'[u] = NoCall =>
             /\ reply'[u].copied <= call[u].cmd.size
             /\ reply'[u].copied > 0 => call[u].writable]_vars
  <2> SUFFICES ASSUME TypeOK, Next, NEW u \in Users,
                      file[u] = "open", call[u] # NoCall, call'[u] = NoCall
               PROVE  /\ reply'[u].copied <= call[u].cmd.size
                      /\ reply'[u].copied > 0 => call[u].writable
    OBVIOUS
  <2>1. CASE InitStep \/ ExitStep
    BY <2>1, InitExitSpareUsers DEF userVars
  <2>2. CASE LoaderStep \/ BusStep
    BY <2>2 DEF LoaderStep, Insmod, LoadSucceeds, Rmmod, FreeModule, BusStep,
       HotAdd, HotRemove, userVars
  <2>3. CASE UserStep
    <3> PICK v \in Users :
          \/ Open(v) \/ IoctlReturn(v) \/ UseDangling(v) \/ Close(v)
          \/ \E req \in Requests : IoctlEnter(v, req)
      BY <2>3 DEF UserStep
    <3>1. IoctlReturn(u)
      BY DEF TypeOK, Open, IoctlReturn, UseDangling, Close, IoctlEnter
    <3>2. call[u] \in Requests
      BY <3>1 DEF IoctlReturn, TypeOK
    <3>3. reply'[u] = Dispatch(call[u])
      BY <3>1 DEF IoctlReturn, TypeOK
    <3> QED
      BY <3>2, <3>3, DispatchFits
  <2> QED
    BY <2>1, <2>2, <2>3 DEF Next
<1> QED
  BY <1>1, TypeCorrect, PTL DEF Spec, CopyFitsRequest
=============================================================================
