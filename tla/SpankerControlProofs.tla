------------------------ MODULE SpankerControlProofs ------------------------
(***************************************************************************)
(* What the runtime may rely on, for any number of processes, cards and    *)
(* versions: the properties of SpankerControl, and that kernel module and  *)
(* runtime together implement CtlDevice, step by step.                     *)
(*                                                                         *)
(* The inductive invariant of SpankerDriverProofs carries over, as every   *)
(* step of a process is a step of the driver or leaves it alone.  CInv     *)
(* adds what ties a handle, its call, its last Result and its SailMatmul   *)
(* to the file below.                                                      *)
(***************************************************************************)
EXTENDS SpankerControl, SpankerDriverProofs

\* A loaded module has a version.
AbiInv == mod # "Unloaded" => abi \in Abis

\* Calls in flight are calls of the runtime, through a handle it still owns.
CallInv ==
  \A u \in Users : call[u] # NoCall =>
    /\ handle[u] = "device" /\ sail[u] = "none"
    /\ \E op \in Ops : call[u] = RequestOf(op)

SailInv == \A u \in Users : sail[u] # "none" => handle[u] # NoHandle

\* On an open file every call has succeeded so far.
RetInv ==
  \A u \in Users : file[u] = "open" =>
    /\ ret[u].ok
    /\ ret[u].is \in Ops \cup {"Open"}
    /\ ret[u].version = IF ret[u].is = "GET_VERSION" THEN abi ELSE NoAbi

CInv == IInv /\ ControlTypeOK /\ AbiInv /\ CallInv /\ SailInv /\ RetInv

-----------------------------------------------------------------------------
\* The runtime's hand-kept copy of the ABI is the header's.
LEMMA CommandsAgree == spanker_ping = PING /\ spanker_get_version = GET_VERSION
  BY DEF spanker_ping, PING, spanker_get_version, GET_VERSION, IO, IOR,
         SPANKER_IOC_MAGIC, MAGIC, VERSION_RAW_SIZE, VERSION_SIZE

LEMMA RequestsAreRequests ==
  ASSUME NEW op \in Ops
  PROVE  RequestOf(op) \in Requests
  BY CommandsAgree, CmdsAssumption DEF RequestOf, Requests, Ops

\* The two calls of the runtime can be told apart.
LEMMA RequestsDiffer ==
  ASSUME NEW op \in Ops, NEW other \in Ops, RequestOf(op) = RequestOf(other)
  PROVE  op = other
<1>1. spanker_ping.dir = "none" /\ spanker_get_version.dir = "read"
  BY DEF spanker_ping, spanker_get_version, IO, IOR
<1>2. RequestOf("PING").cmd = spanker_ping /\ RequestOf("GET_VERSION").cmd = spanker_get_version
  BY DEF RequestOf
<1>3. RequestOf("PING") # RequestOf("GET_VERSION")
  BY <1>1, <1>2
<1> QED  BY <1>3 DEF Ops

\* The dispatcher answers what the runtime asks, with the version of the module.
LEMMA RuntimeIsAnswered ==
  ASSUME NEW op \in Ops
  PROVE  Dispatch(RequestOf(op)) = IF op = "PING" THEN Succeed ELSE CopyVersion
<1>1. PING # GET_VERSION /\ PING.type = MAGIC /\ GET_VERSION.type = MAGIC
  <2>1. PING.dir = "none" /\ GET_VERSION.dir = "read"
    BY DEF PING, GET_VERSION, IO, IOR
  <2> QED  BY <2>1 DEF PING, GET_VERSION, IO, IOR
<1>2. CASE op = "PING"
  <2>1. RequestOf(op).cmd = PING
    BY <1>2, CommandsAgree DEF RequestOf
  <2> QED  BY <1>1, <1>2, <2>1 DEF Dispatch
<1>3. CASE op = "GET_VERSION"
  <2>1. RequestOf(op).cmd = GET_VERSION /\ RequestOf(op).writable
    BY <1>3, CommandsAgree DEF RequestOf
  <2> QED  BY <1>1, <1>3, <2>1 DEF Dispatch
<1> QED  BY <1>2, <1>3 DEF Ops

LEMMA ResultIsDone ==
  ASSUME NEW op \in Ops
  PROVE  ResultOf(op, Dispatch(RequestOf(op)))
           = [ok |-> TRUE, is |-> op,
              version |-> IF op = "GET_VERSION" THEN abi ELSE NoAbi]
<1>1. CASE op = "PING"
  BY <1>1, RuntimeIsAnswered DEF ResultOf, Done, Succeed
<1>2. CASE op = "GET_VERSION"
  <2>1. Dispatch(RequestOf(op)) = CopyVersion
    BY <1>2, RuntimeIsAnswered
  <2>2. CopyVersion.ret = "0" /\ CopyVersion.version = abi
    BY DEF CopyVersion
  <2> QED  BY <1>2, <2>1, <2>2 DEF ResultOf, Done
<1> QED  BY <1>1, <1>2 DEF Ops

-----------------------------------------------------------------------------
\* A process does to the kernel what some user of the driver does, or nothing.
LEMMA StepIsDriverStep == [ControlNext]_allVars => [Next]_vars
<1> SUFFICES ASSUME ControlNext PROVE [Next]_vars
  BY DEF allVars
<1>1. CASE KernelStep
  BY <1>1 DEF KernelStep, Next
<1>2. CASE ProcessStep
  <2>1. PICK u \in Users :
          \/ OpenControl(u) \/ OpenFails(u) \/ OpenOther(u) \/ Drop(u)
          \/ SailMatmulNew(u) \/ MatmulQ4K(u)
          \/ \E op \in Ops : Begin(u, op) \/ Finish(u, op) \/ CallOther(u, op)
                             \/ CallDangling(u, op)
    BY <1>2 DEF ProcessStep
  <2>2. CASE OpenFails(u) \/ OpenOther(u) \/ SailMatmulNew(u) \/ MatmulQ4K(u)
    BY <2>2 DEF OpenFails, OpenOther, SailMatmulNew, MatmulQ4K
  <2>3. CASE OpenControl(u) \/ Drop(u)
    BY <2>3 DEF OpenControl, Drop, Next, UserStep
  <2>4. ASSUME NEW op \in Ops,
               Begin(u, op) \/ Finish(u, op) \/ CallOther(u, op) \/ CallDangling(u, op)
        PROVE  [Next]_vars
    <3>1. RequestOf(op) \in Requests
      BY RequestsAreRequests
    <3> QED
      BY <2>4, <3>1 DEF Begin, Finish, CallOther, CallDangling, Next, UserStep
  <2> QED  BY <2>1, <2>2, <2>3, <2>4
<1> QED  BY <1>1, <1>2 DEF ControlNext

LEMMA InitialStates == ControlInit => CInv
<1> SUFFICES ASSUME ControlInit PROVE CInv
  OBVIOUS
<1>1. IInv
  BY InitialInv DEF ControlInit
<1>2. ControlTypeOK
  <2>1. TypeOK
    BY <1>1 DEF IInv
  <2>2. NoRet \in [ok : BOOLEAN, is : Ops \cup {"none", "Open"},
                   version : Abis \cup {NoAbi}]
    BY DEF NoRet
  <2>3. \A u \in Users : handle[u] # "device" /\ file[u] = "none"
    BY ControlAssumption DEF ControlInit, Init
  <2> QED  BY <2>1, <2>2, <2>3 DEF ControlInit, ControlTypeOK
<1>3. AbiInv /\ CallInv /\ SailInv /\ RetInv
  BY DEF ControlInit, Init, AbiInv, CallInv, SailInv, RetInv
<1> QED  BY <1>1, <1>2, <1>3 DEF CInv

-----------------------------------------------------------------------------
(* CInv is inductive.                                                       *)

\* What an open file says about the module below it.
LEMMA OpenFileHasModule ==
  ASSUME IInv, NEW u \in Users, file[u] = "open"
  PROVE  mod \in {"Live", "Coming"}
  BY DEF IInv, LabelInv, FileInv, InitLabels

\* Versions change only where no file is open, or as files are left dangling.
LEMMA VersionStays ==
  ASSUME CInv, [Next]_vars, NEW u \in Users, file[u] = "open", file'[u] = "open"
  PROVE  abi' = abi
<1>1. mod # "Unloaded"
  BY OpenFileHasModule DEF CInv
<1>2. CASE InitStep \/ ExitStep
  BY <1>2 DEF InitStep, ExitStep, AllocChrdevRegion, CdevAdd, ClassCreate,
     DeviceCreate, PciRegisterDriver, DestroyDevice, DestroyClass, DelCdev,
     UnregisterRegion, ExitPciUnregister, ExitDeviceDestroy, ExitClassDestroy,
     ExitCdevDel, ExitUnregisterRegion, Acquire, Release
<1>3. CASE LoaderStep
  BY <1>1, <1>3 DEF LoaderStep, Insmod, LoadSucceeds, Rmmod, FreeModule
<1>4. CASE BusStep \/ UserStep
  BY <1>4 DEF BusStep, HotAdd, HotRemove, UserStep, Open, IoctlEnter, IoctlReturn,
     UseDangling, Close, modVars
<1> QED  BY <1>2, <1>3, <1>4 DEF Next, vars, modVars

LEMMA AbiStep == CInv /\ [Next]_vars => AbiInv'
<1> SUFFICES ASSUME CInv, [Next]_vars PROVE AbiInv'
  OBVIOUS
<1>1. CASE InitStep \/ ExitStep
  BY <1>1 DEF CInv, AbiInv, InitStep, ExitStep, AllocChrdevRegion, CdevAdd, ClassCreate,
     DeviceCreate, PciRegisterDriver, DestroyDevice, DestroyClass, DelCdev,
     UnregisterRegion, ExitPciUnregister, ExitDeviceDestroy, ExitClassDestroy,
     ExitCdevDel, ExitUnregisterRegion, Acquire, Release
<1>2. CASE LoaderStep
  <2>1. at \in {"init_ok"} \/ mod = "Live" => mod # "Unloaded"
    BY DEF CInv, IInv, LabelInv, InitLabels
  <2> QED
    BY <1>2, <2>1 DEF CInv, AbiInv, LoaderStep, Insmod, LoadSucceeds, Rmmod, FreeModule
<1>3. CASE BusStep \/ UserStep
  BY <1>3 DEF CInv, AbiInv, BusStep, HotAdd, HotRemove, UserStep, Open, IoctlEnter,
     IoctlReturn, UseDangling, Close, modVars
<1> QED  BY <1>1, <1>2, <1>3 DEF Next, vars, modVars, CInv, AbiInv

\* A step of the kernel leaves every process as it was, except that it may leave
\* its file dangling.
LEMMA KernelSparesUsers ==
  ASSUME TypeOK, InitStep \/ ExitStep \/ LoaderStep \/ BusStep
  PROVE  /\ call' = call
         /\ \A u \in Users : \/ file'[u] = file[u]
                             \/ file[u] = "open" /\ file'[u] = "dangling"
<1>1. CASE InitStep \/ ExitStep
  BY <1>1, InitExitSpareUsers DEF userVars
<1>2. CASE LoaderStep
  BY <1>2 DEF TypeOK, LoaderStep, Insmod, LoadSucceeds, Rmmod, FreeModule, userVars
<1>3. CASE BusStep
  BY <1>3 DEF BusStep, HotAdd, HotRemove, userVars
<1> QED  BY <1>1, <1>2, <1>3

RetTypes == [ok : BOOLEAN, is : Ops \cup {"none", "Open"}, version : Abis \cup {NoAbi}]

LEMMA ResultTypes ==
  /\ {NoRet, OpenError, Opened} \subseteq RetTypes
  /\ \A op \in Ops : IoctlError(op) \in RetTypes
  /\ \A op \in Ops, v \in Abis \cup {NoAbi} : Done(op, v) \in RetTypes
  BY DEF RetTypes, NoRet, OpenError, Opened, IoctlError, Done

LEMMA ResultOfType ==
  ASSUME NEW op \in Ops, NEW a \in Answers \cup {NoAnswer, Oops}
  PROVE  ResultOf(op, a) \in RetTypes
<1>1. a.version \in Abis \cup {NoAbi}
  BY DEF Answers, NoAnswer, Oops
<1> QED  BY <1>1, ResultTypes DEF ResultOf

\* What each process holds stays of its type and in step with its file.
LEMMA ProcessStepKeeps ==
  ASSUME CInv, TypeOK', AbiInv',
         NEW u \in Users,
         \/ OpenControl(u) \/ OpenFails(u) \/ OpenOther(u) \/ Drop(u)
         \/ SailMatmulNew(u) \/ MatmulQ4K(u)
         \/ \E op \in Ops : Begin(u, op) \/ Finish(u, op) \/ CallOther(u, op)
                            \/ CallDangling(u, op)
  PROVE  ControlTypeOK' /\ CallInv' /\ SailInv' /\ RetInv'
<1> USE DEF CInv, ControlTypeOK, CallInv, SailInv, RetInv
<1>0. ret \in [Users -> RetTypes]
  BY DEF RetTypes
<1>1. CASE OpenControl(u)
  <2>1. Opened \in RetTypes /\ Opened.ok /\ Opened.is = "Open" /\ Opened.version = NoAbi
    BY ResultTypes DEF Opened
  <2>2. ret' \in [Users -> RetTypes]
    BY <1>0, <1>1, <2>1 DEF OpenControl
  <2> QED
    BY <1>1, <2>1, <2>2, ControlAssumption
       DEF OpenControl, Open, TypeOK, modVars, vars, RetTypes
<1>2. CASE OpenFails(u) \/ OpenOther(u)
  <2>1. ret' \in [Users -> RetTypes]
    BY <1>0, <1>2, ResultTypes DEF OpenFails, OpenOther
  <2>2. file[u] = "none" /\ call[u] = NoCall /\ sail[u] = "none"
    BY <1>2, ControlAssumption DEF OpenFails, OpenOther, TypeOK
  <2>3. UNCHANGED <<file, call, abi, sail>>
    BY <1>2 DEF OpenFails, OpenOther, vars, modVars, userVars
  <2>4. /\ handle' \in [Users -> {NoHandle, "device", "other"}]
        /\ handle'[u] # "device"
        /\ \A v \in Users \ {u} : handle'[v] = handle[v] /\ ret'[v] = ret[v]
    BY <1>2, ControlAssumption DEF OpenFails, OpenOther
  <2>5. ControlTypeOK'
    BY <2>1, <2>2, <2>3, <2>4 DEF RetTypes
  <2>6. CallInv'
    BY <2>2, <2>3, <2>4
  <2>7. SailInv' /\ RetInv'
    BY <2>2, <2>3, <2>4
  <2> QED  BY <2>5, <2>6, <2>7
<1>3. CASE Drop(u)
  <2>1. ret' \in [Users -> RetTypes]
    BY <1>0, <1>3, ResultTypes DEF Drop
  <2>2. file'[u] # "open" /\ call'[u] = NoCall /\ file'[u] = "none" /\ abi' = abi
    BY <1>3 DEF Drop, Close, TypeOK, vars, modVars, userVars
  <2>3. \A v \in Users \ {u} : file'[v] = file[v] /\ call'[v] = call[v]
    BY <1>3 DEF Drop, Close, TypeOK, vars, modVars, userVars
  <2> QED
    BY <1>3, <2>1, <2>2, <2>3, ControlAssumption DEF Drop, RetTypes
<1>4. CASE SailMatmulNew(u) \/ MatmulQ4K(u)
  <2>1. UNCHANGED <<file, call, abi, handle, ret>>
    BY <1>4 DEF SailMatmulNew, MatmulQ4K, vars, modVars, userVars
  <2>2. CASE SailMatmulNew(u)
    BY <2>1, <2>2 DEF SailMatmulNew
  <2>3. CASE MatmulQ4K(u)
    BY <2>1, <2>3 DEF MatmulQ4K
  <2> QED
    BY <1>4, <2>2, <2>3
<1>5. ASSUME NEW op \in Ops, Begin(u, op)
      PROVE  ControlTypeOK' /\ CallInv' /\ SailInv' /\ RetInv'
  BY <1>5 DEF Begin, IoctlEnter, TypeOK, modVars, controlVars
<1>6. ASSUME NEW op \in Ops, Finish(u, op)
      PROVE  ControlTypeOK' /\ CallInv' /\ SailInv' /\ RetInv'
  <2>1. reply'[u] = Dispatch(RequestOf(op)) /\ abi' = abi
    BY <1>6 DEF Finish, IoctlReturn, TypeOK, modVars
  <2>2. ret'[u] = [ok |-> TRUE, is |-> op,
                   version |-> IF op = "GET_VERSION" THEN abi ELSE NoAbi]
    BY <1>6, <2>1, ResultIsDone DEF Finish
  <2>3. abi \in Abis \cup {NoAbi}
    BY DEF TypeOK
  <2>4. ret' \in [Users -> RetTypes]
    <3>1. Done(op, abi) \in RetTypes
      BY <2>3, ResultTypes
    <3>2. ret'[u] = Done(op, abi)
      BY <2>2 DEF Done, Ops
    <3> QED  BY <1>0, <1>6, <3>1, <3>2 DEF Finish
  <2> QED
    BY <1>6, <2>1, <2>2, <2>4 DEF Finish, IoctlReturn, TypeOK, modVars, RetTypes
<1>7. ASSUME NEW op \in Ops, CallOther(u, op)
      PROVE  ControlTypeOK' /\ CallInv' /\ SailInv' /\ RetInv'
  <2>1. ret' \in [Users -> RetTypes]
    BY <1>0, <1>7, ResultTypes DEF CallOther
  <2>2. file[u] = "none"
    BY <1>7 DEF CallOther, TypeOK
  <2> QED
    BY <1>7, <2>1, <2>2 DEF CallOther, vars, modVars, userVars, RetTypes, TypeOK
<1>8. ASSUME NEW op \in Ops, CallDangling(u, op)
      PROVE  ControlTypeOK' /\ CallInv' /\ SailInv' /\ RetInv'
  <2>1. reply'[u] \in Answers \cup {NoAnswer, Oops}
    BY DEF TypeOK
  <2>2. ret' \in [Users -> RetTypes]
    BY <1>0, <1>8, <2>1, ResultOfType DEF CallDangling
  <2>3. file'[u] \in {"dangling", "none"} /\ call'[u] = NoCall /\ abi' = abi
    BY <1>8 DEF CallDangling, UseDangling, TypeOK, modVars
  <2>4. \A v \in Users \ {u} : file'[v] = file[v] /\ call'[v] = call[v]
    BY <1>8 DEF CallDangling, UseDangling, TypeOK, modVars
  <2> QED
    BY <1>8, <2>2, <2>3, <2>4, ControlAssumption DEF CallDangling, RetTypes
<1> QED  BY <1>1, <1>2, <1>3, <1>4, <1>5, <1>6, <1>7, <1>8

LEMMA ControlInductive == CInv /\ [ControlNext]_allVars => CInv'
<1> SUFFICES ASSUME CInv, [ControlNext]_allVars PROVE CInv'
  OBVIOUS
<1>1. [Next]_vars
  BY StepIsDriverStep
<1>2. IInv' /\ TypeOK'
  BY <1>1, InductiveStep DEF CInv, IInv
<1>3. AbiInv'
  BY <1>1, AbiStep
<1>4. CASE KernelStep
  <2>1. /\ call' = call /\ UNCHANGED controlVars
        /\ \A u \in Users : \/ file'[u] = file[u]
                            \/ file[u] = "open" /\ file'[u] = "dangling"
    BY <1>4, KernelSparesUsers DEF KernelStep, CInv, IInv
  <2>2. ControlTypeOK' /\ CallInv' /\ SailInv'
    BY <1>2, <2>1 DEF CInv, ControlTypeOK, CallInv, SailInv, controlVars
  <2>3. RetInv'
    <3> SUFFICES ASSUME NEW u \in Users, file'[u] = "open"
                 PROVE  /\ ret'[u].ok
                        /\ ret'[u].is \in Ops \cup {"Open"}
                        /\ ret'[u].version = IF ret'[u].is = "GET_VERSION" THEN abi' ELSE NoAbi
      BY DEF RetInv
    <3>1. file[u] = "open"
      BY <2>1
    <3>2. abi' = abi
      BY <1>1, <3>1, VersionStays
    <3> QED  BY <2>1, <3>1, <3>2 DEF CInv, RetInv, controlVars
  <2> QED  BY <1>2, <1>3, <2>2, <2>3 DEF CInv
<1>5. CASE ProcessStep
  <2>1. PICK u \in Users :
          \/ OpenControl(u) \/ OpenFails(u) \/ OpenOther(u) \/ Drop(u)
          \/ SailMatmulNew(u) \/ MatmulQ4K(u)
          \/ \E op \in Ops : Begin(u, op) \/ Finish(u, op) \/ CallOther(u, op)
                             \/ CallDangling(u, op)
    BY <1>5 DEF ProcessStep
  <2>2. ControlTypeOK' /\ CallInv' /\ SailInv' /\ RetInv'
    BY <1>2, <1>3, <2>1, ProcessStepKeeps
  <2> QED  BY <1>2, <1>3, <2>2 DEF CInv
<1>6. CASE UNCHANGED allVars
  BY <1>2, <1>3, <1>6 DEF CInv, ControlTypeOK, CallInv, SailInv, RetInv, allVars,
     controlVars, vars, modVars, userVars
<1> QED  BY <1>4, <1>5, <1>6 DEF ControlNext

LEMMA ControlInvariant == ControlSpec => []CInv
  BY InitialStates, ControlInductive, PTL DEF ControlSpec

\* Types, and that exactly the handles on the control device have a file there.
THEOREM ControlTypes == ControlSpec => []ControlTypeOK
<1>1. CInv => ControlTypeOK
  BY DEF CInv
<1> QED  BY <1>1, ControlInvariant, PTL

\* ping and version never fail on a handle whose module is still there, whichever
\* kernel calls may fail in its spanker_init.
THEOREM AlwaysAnswered == ControlSpec => []OpenHandleAlwaysAnswered
<1>1. CInv => OpenHandleAlwaysAnswered
  BY DEF CInv, RetInv, OpenHandleAlwaysAnswered
<1> QED  BY <1>1, ControlInvariant, PTL

-----------------------------------------------------------------------------
(* What needs that pci_register_driver, the last call, cannot fail.         *)

\* Then a handle's file is open, and the module is there to be opened again.
LEMMA HandleIsOpen ==
  ASSUME "pci" \notin CanFail, CInv, NEW u \in Users
  PROVE  /\ file[u] # "dangling"
         /\ handle[u] = "device" <=> file[u] = "open"
         /\ file[u] = "open" => Openable
<1>1. file[u] # "dangling" /\ (handle[u] = "device" <=> file[u] = "open")
  BY DEF CInv, IInv, DanglingInv, NoUseAfterFree, ControlTypeOK, TypeOK
<1>2. ASSUME file[u] = "open" PROVE Openable
  <2>1. mod = "Live" \/ at \in {"pci_register_driver", "init_ok"}
    BY <1>2 DEF CInv, IInv, FileInv
  <2>2. mod # "Going"
    BY <1>2, OpenFileHasModule DEF CInv
  <2>3. "device" \in held /\ "cdev" \in held
    BY <2>1 DEF CInv, IInv, HeldInv, HoldsInv, DeviceLabels, ClassLabels, CdevLabels
  <2> QED  BY <2>2, <2>3 DEF Openable
<1> QED  BY <1>1, <1>2

\* The version one handle reported last is that of the module loaded now.
THEOREM OneAbi ==
  ASSUME "pci" \notin CanFail
  PROVE  ControlSpec => []HandleSeesOneAbi
<1>1. CInv => HandleSeesOneAbi
  BY HandleIsOpen DEF CInv, RetInv, HandleSeesOneAbi
<1> QED  BY <1>1, ControlInvariant, PTL

\* A SailMatmul keeps its module loaded, and nothing calls its handle any more.
THEOREM SailKeeps == ControlSpec => []SailKeepsModule
<1>1. CInv => SailKeepsModule
  <2> SUFFICES ASSUME CInv, NEW u \in Users, sail[u] # "none"
               PROVE  /\ handle[u] # NoHandle /\ call[u] = NoCall
                      /\ handle[u] = "device" /\ "pci" \notin CanFail =>
                           file[u] = "open" /\ mod \in {"Coming", "Live"}
    BY DEF SailKeepsModule
  <2>1. handle[u] # NoHandle /\ call[u] = NoCall
    BY DEF CInv, SailInv, CallInv
  <2>2. ASSUME handle[u] = "device", "pci" \notin CanFail
        PROVE  file[u] = "open" /\ mod \in {"Coming", "Live"}
    <3>1. file[u] = "open"
      BY <2>2, HandleIsOpen
    <3> QED  BY <3>1, OpenFileHasModule DEF CInv
  <2> QED  BY <2>1, <2>2
<1> QED  BY <1>1, ControlInvariant, PTL

-----------------------------------------------------------------------------
(* The refinement of CtlDevice.                                             *)

\* The question asked is the one the request in flight stands for.
LEMMA QuestionOf ==
  /\ OpOf(NoCall) = "none"
  /\ \A op \in Ops : OpOf(RequestOf(op)) = op
<1>1. ASSUME NEW op \in Ops PROVE OpOf(RequestOf(op)) = op
  BY RequestsDiffer, ControlAssumption DEF OpOf
<1> QED  BY <1>1 DEF OpOf

\* While the device can be opened, its module has a version.
LEMMA OpenableHasVersion ==
  CInv /\ Openable => mod # "Unloaded" /\ abi \in Abis /\ abi # NoAbi
<1> SUFFICES ASSUME CInv, Openable
             PROVE  mod # "Unloaded" /\ abi \in Abis /\ abi # NoAbi
  OBVIOUS
<1>1. mod # "Unloaded"
  BY DEF CInv, IInv, LabelInv, HeldInv, HoldsInv, Openable, DeviceLabels, ExitLabels,
     InitLabels
<1> QED  BY <1>1, AbiAssumption DEF CInv, AbiInv

\* While nobody's file, call or Result changes, the abstract users rest.
LEMMA UsersRest ==
  ASSUME UNCHANGED <<file, call, ret>>
  PROVE  UNCHANGED <<Session, Question, LastAnswer>>
  BY DEF Session, Question, LastAnswer

\* While a file is open, the node it was opened by can be opened.
NodeStays == \A u \in Users : file[u] = "open" => Openable

LEMMA OpenFileKeepsNode == CInv /\ "pci" \notin CanFail => NodeStays
  BY HandleIsOpen DEF NodeStays

LEMMA InitMaps == ControlInit => Device!Init
<1> SUFFICES ASSUME ControlInit PROVE Device!Init
  OBVIOUS
<1>1. Up = NoAbi
  BY DEF ControlInit, Init, Up, Openable
<1>2. Session = {} /\ Question = [u \in Users |-> "none"]
  BY QuestionOf DEF ControlInit, Init, Session, Question
<1>3. LastAnswer = [u \in Users |-> <<"none", NoAbi>>]
  BY DEF ControlInit, Init, LastAnswer
<1> QED  BY <1>1, <1>2, <1>3 DEF Device!Init, Device!Nothing

\* A step of the kernel makes the device appear, lets it vanish, or is not seen.
LEMMA KernelMaps ==
  ASSUME "pci" \notin CanFail, CInv, CInv', KernelStep
  PROVE  [Device!Next]_(Device!vars)
<1>1. UNCHANGED <<file, call, ret>>
  <2>1. call' = call /\ ret' = ret
        /\ \A u \in Users : \/ file'[u] = file[u]
                            \/ file[u] = "open" /\ file'[u] = "dangling"
    BY KernelSparesUsers DEF KernelStep, CInv, IInv, controlVars
  <2>2. \A u \in Users : file'[u] # "dangling"
    BY DEF CInv, IInv, DanglingInv, NoUseAfterFree
  <2>3. file \in [Users -> {"none", "open", "dangling"}]
        /\ file' \in [Users -> {"none", "open", "dangling"}]
    BY DEF CInv, IInv, TypeOK
  <2> QED  BY <2>1, <2>2, <2>3
<1>2. UNCHANGED <<Session, Question, LastAnswer>>
  BY <1>1, UsersRest
<1>3. Openable => Up = abi /\ mod # "Unloaded" /\ abi \in Abis /\ abi # NoAbi
  BY OpenableHasVersion DEF Up
<1>4. Openable' => Up' = abi' /\ mod' # "Unloaded" /\ abi' \in Abis /\ abi' # NoAbi
  <2>1. CInv' /\ Openable' => (mod # "Unloaded" /\ abi \in Abis /\ abi # NoAbi)'
    BY OpenableHasVersion, PTL
  <2> QED  BY <2>1 DEF Up
<1>5. CASE Openable /\ Openable'
  <2>1. abi' = abi
    <3>1. CASE InitStep \/ ExitStep
      BY <3>1 DEF InitStep, ExitStep, AllocChrdevRegion, CdevAdd, ClassCreate,
         DeviceCreate, PciRegisterDriver, DestroyDevice, DestroyClass, DelCdev,
         UnregisterRegion, ExitPciUnregister, ExitDeviceDestroy, ExitClassDestroy,
         ExitCdevDel, ExitUnregisterRegion, Acquire, Release
    <3>2. CASE LoaderStep
      BY <3>2, <1>3, <1>4, <1>5 DEF LoaderStep, Insmod, LoadSucceeds, Rmmod, FreeModule
    <3>3. CASE BusStep
      BY <3>3 DEF BusStep, HotAdd, HotRemove, modVars
    <3> QED  BY <3>1, <3>2, <3>3 DEF KernelStep
  <2> QED  BY <1>2, <1>3, <1>4, <1>5, <2>1 DEF Device!vars
<1>6. CASE ~ Openable /\ Openable'
  <2>1. Device!Appear(abi') /\ abi' \in Abis
    BY <1>2, <1>4, <1>6 DEF Device!Appear, Up
  <2> QED  BY <2>1 DEF Device!Next
<1>7. CASE Openable /\ ~ Openable'
  <2>1. Session = {}
    <3> SUFFICES ASSUME NEW u \in Users, file[u] = "open" PROVE FALSE
      BY DEF Session
    <3>1. file'[u] = "open"
      BY <1>1
    <3>2. CInv' /\ ("pci" \notin CanFail)' => NodeStays'
      BY OpenFileKeepsNode, PTL
    <3> QED  BY <1>7, <3>1, <3>2 DEF NodeStays
  <2>2. Device!Vanish
    BY <1>2, <1>3, <1>7, <2>1 DEF Device!Vanish, Up
  <2> QED  BY <2>2 DEF Device!Next
<1>8. CASE ~ Openable /\ ~ Openable'
  BY <1>2, <1>8 DEF Device!vars, Up
<1> QED  BY <1>5, <1>6, <1>7, <1>8

\* A process connects, asks, is told or leaves, or does what the device cannot see.
LEMMA ProcessMaps ==
  ASSUME "pci" \notin CanFail, CInv, NEW u \in Users,
         \/ OpenControl(u) \/ OpenFails(u) \/ OpenOther(u) \/ Drop(u)
         \/ SailMatmulNew(u) \/ MatmulQ4K(u)
         \/ \E op \in Ops : Begin(u, op) \/ Finish(u, op) \/ CallOther(u, op)
                            \/ CallDangling(u, op)
  PROVE  [Device!Next]_(Device!vars)
<1>0. /\ file \in [Users -> {"none", "open", "dangling"}]
      /\ call \in [Users -> Requests \cup {NoCall}]
      /\ ret \in [Users -> RetTypes]
  BY DEF CInv, IInv, TypeOK, ControlTypeOK, RetTypes
<1>1. ASSUME UNCHANGED modVars PROVE Up' = Up
  BY <1>1 DEF modVars, Up, Openable
<1>2. CASE OpenControl(u)
  <2>1. Openable /\ file[u] = "none" /\ UNCHANGED modVars
        /\ file' = [file EXCEPT ![u] = "open"] /\ call' = call
        /\ ret' = [ret EXCEPT ![u] = Opened]
    BY <1>2 DEF OpenControl, Open
  <2>2. Up # NoAbi /\ Up' = Up
    BY <1>1, <2>1, OpenableHasVersion DEF Up
  <2>3. u \notin Session /\ Session' = Session \cup {u} /\ Question' = Question
    BY <1>0, <2>1 DEF Session, Question
  <2>4. LastAnswer' = LastAnswer
    BY <1>0, <2>1 DEF LastAnswer, Opened, Ops
  <2>5. Device!Connect(u)
    BY <2>2, <2>3, <2>4 DEF Device!Connect
  <2> QED  BY <2>5 DEF Device!Next
<1>3. ASSUME UNCHANGED vars, ret' = [ret EXCEPT ![u] = ret'[u]], file[u] # "open"
      PROVE  UNCHANGED Device!vars
  <2>1. Up' = Up /\ Session' = Session /\ Question' = Question
    BY <1>1, <1>3 DEF vars, userVars, Session, Question
  <2>2. LastAnswer' = LastAnswer
    <3>1. file' = file /\ \A v \in Users \ {u} : ret'[v] = ret[v]
      BY <1>0, <1>3 DEF vars, userVars
    <3> QED  BY <1>3, <3>1 DEF LastAnswer
  <2> QED  BY <2>1, <2>2 DEF Device!vars
<1>4. CASE OpenFails(u) \/ OpenOther(u)
  <2>1. file[u] # "open"
    BY <1>4, ControlAssumption DEF OpenFails, OpenOther, CInv, ControlTypeOK, TypeOK
  <2> QED  BY <1>0, <1>3, <1>4, <2>1 DEF OpenFails, OpenOther
<1>5. CASE Drop(u)
  <2>1. CASE handle[u] = "device"
    <3>1. Close(u)
      BY <1>5, <2>1 DEF Drop
    <3>2. file[u] = "open" /\ call[u] = NoCall /\ UNCHANGED modVars /\ call' = call
          /\ file' = [file EXCEPT ![u] = "none"] /\ ret' = [ret EXCEPT ![u] = NoRet]
      BY <1>5, <3>1 DEF Drop, Close
    <3>3. u \in Session /\ Session' = Session \ {u} /\ Question[u] = "none"
          /\ Question' = Question
      BY <1>0, <3>2, QuestionOf DEF Session, Question
    <3>4. LastAnswer' = [LastAnswer EXCEPT ![u] = <<"none", NoAbi>>]
      BY <1>0, <3>2 DEF LastAnswer
    <3>5. Device!Leave(u)
      BY <1>1, <3>2, <3>3, <3>4 DEF Device!Leave, Device!Nothing
    <3> QED  BY <3>5 DEF Device!Next
  <2>2. CASE handle[u] # "device"
    <3>1. file[u] # "open"
      BY <2>2 DEF CInv, ControlTypeOK
    <3> QED  BY <1>0, <1>3, <1>5, <2>2, <3>1 DEF Drop
  <2> QED  BY <2>1, <2>2
<1>6. CASE SailMatmulNew(u) \/ MatmulQ4K(u)
  <2>1. UNCHANGED <<modVars, file, call, ret>>
    BY <1>6 DEF SailMatmulNew, MatmulQ4K, vars, userVars
  <2> QED  BY <1>1, <2>1, UsersRest DEF Device!vars
<1>7. ASSUME NEW op \in Ops, Begin(u, op) PROVE [Device!Next]_(Device!vars)
  <2>1. file[u] = "open" /\ call[u] = NoCall /\ UNCHANGED <<modVars, file, ret>>
        /\ call' = [call EXCEPT ![u] = RequestOf(op)]
    BY <1>7 DEF Begin, IoctlEnter, controlVars
  <2>2. u \in Session /\ Session' = Session /\ LastAnswer' = LastAnswer
    BY <2>1 DEF Session, LastAnswer
  <2>3. Question[u] = "none"
    BY <2>1, QuestionOf DEF Question
  <2>4. Question' = [Question EXCEPT ![u] = op]
    BY <1>0, <2>1, QuestionOf DEF Question
  <2>7. Device!Ask(u, op) /\ op \in Device!Questions
    BY <1>1, <2>1, <2>2, <2>3, <2>4 DEF Device!Ask, Device!Questions, Ops
  <2> QED  BY <2>7 DEF Device!Next
<1>8. ASSUME NEW op \in Ops, Finish(u, op) PROVE [Device!Next]_(Device!vars)
  <2>1. file[u] = "open" /\ call[u] = RequestOf(op) /\ call[u] # NoCall
        /\ UNCHANGED <<modVars, file>> /\ call' = [call EXCEPT ![u] = NoCall]
    BY <1>8 DEF Finish, IoctlReturn
  <2>2. reply'[u] = Dispatch(RequestOf(op))
    BY <1>8, <2>1 DEF Finish, IoctlReturn, CInv, IInv, TypeOK
  <2>3. ret'[u] = [ok |-> TRUE, is |-> op,
                   version |-> IF op = "GET_VERSION" THEN abi ELSE NoAbi]
        /\ \A v \in Users \ {u} : ret'[v] = ret[v]
    BY <1>0, <1>8, <2>2, ResultIsDone DEF Finish
  <2>4. Question[u] = op
    BY <2>1, QuestionOf DEF Question
  <2>5. Question' = [Question EXCEPT ![u] = "none"]
    BY <1>0, <2>1, QuestionOf DEF Question
  <2>6. Up = abi /\ Up' = Up /\ Session' = Session
    BY <1>1, <2>1, HandleIsOpen DEF Up, Session
  <2>7. LastAnswer' = [LastAnswer EXCEPT ![u] =
                         <<op, IF op = "PING" THEN NoAbi ELSE Up>>]
    <3>1. ret'[u].ok /\ ret'[u].is \in Ops /\ ret'[u].is = op
          /\ ret'[u].version = IF op = "PING" THEN NoAbi ELSE Up
      BY <2>3, <2>6 DEF Ops
    <3> QED  BY <2>1, <2>3, <3>1 DEF LastAnswer
  <2>8. Device!Tell(u)
    BY <2>4, <2>5, <2>6, <2>7 DEF Device!Tell, Ops
  <2> QED  BY <2>8 DEF Device!Next
<1>9. ASSUME NEW op \in Ops, CallOther(u, op) PROVE [Device!Next]_(Device!vars)
  <2>1. file[u] # "open"
    BY <1>9 DEF CallOther, CInv, ControlTypeOK, TypeOK
  <2> QED  BY <1>0, <1>3, <1>9, <2>1 DEF CallOther
<1>10. ASSUME NEW op \in Ops, CallDangling(u, op) PROVE FALSE
  BY <1>10, HandleIsOpen DEF CallDangling, UseDangling
<1> QED  BY <1>2, <1>4, <1>5, <1>6, <1>7, <1>8, <1>9, <1>10

\* Where registering the PCI driver cannot fail, kernel module and runtime together
\* only do what the control device of CtlDevice may do: it never goes away under a
\* process that holds it, and every answer is that of the module that is loaded.
THEOREM StepsOfCtlDevice ==
  ASSUME "pci" \notin CanFail
  PROVE  ControlSpec => Device!Init /\ [][Device!Next]_(Device!vars)
<1>1. CInv /\ CInv' /\ [ControlNext]_allVars => [Device!Next]_(Device!vars)
  <2> SUFFICES ASSUME CInv, CInv', [ControlNext]_allVars
               PROVE  [Device!Next]_(Device!vars)
    OBVIOUS
  <2>1. CASE ProcessStep
    BY <2>1, ProcessMaps DEF ProcessStep
  <2>2. CASE KernelStep
    BY <2>2, KernelMaps
  <2>3. CASE UNCHANGED allVars
    <3>1. UNCHANGED <<modVars, file, call, ret>>
      BY <2>3 DEF allVars, vars, userVars, controlVars
    <3> QED  BY <3>1, UsersRest DEF Device!vars, Up, Openable, modVars
  <2> QED  BY <2>1, <2>2, <2>3 DEF ControlNext
<1> QED  BY <1>1, InitMaps, ControlInvariant, PTL DEF ControlSpec
=============================================================================
