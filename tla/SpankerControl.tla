--------------------------- MODULE SpankerControl ---------------------------
(***************************************************************************)
(* The userspace runtime (src/runtime/src/lib.rs): processes that hold a   *)
(* SpankerControl and call ping and version on it, over the kernel module  *)
(* of SpankerDriver, or hand it to a SailMatmul, the device backend        *)
(* (src/backends/ggml/src/sail.rs).  Each user is a process with at most   *)
(* one handle.                                                             *)
(***************************************************************************)
EXTENDS SpankerDriver

CONSTANT NoHandle

VARIABLES
  handle,   \* what each user's SpankerControl wraps: the device or another file
  ret,      \* the Result of each user's last call on it
  sail      \* its SailMatmul: "none", "new", or the Result of matmul_q4_k

controlVars == <<handle, ret, sail>>
allVars     == <<vars, controlVars>>

-----------------------------------------------------------------------------
(* The runtime's own copy of the ABI, kept by hand beside the header.       *)

SPANKER_IOC_MAGIC == 227
VERSION_RAW_SIZE == 8                    \* size_of::<SpankerVersionRaw>()
ABI_VERSION_MAJOR == 0
ABI_VERSION_MINOR == 1

\* The command words nix's ioctl macros build.
spanker_ping == IO(SPANKER_IOC_MAGIC, 1)
Bug_RawStructGrown == IOR(SPANKER_IOC_MAGIC, 2, VERSION_RAW_SIZE + 4)
spanker_get_version == IOR(SPANKER_IOC_MAGIC, 2, VERSION_RAW_SIZE)

Ops == {"PING", "GET_VERSION"}
\* Both calls pass memory the runtime owns, or none.
RequestOf(op) ==
  [cmd |-> IF op = "PING" THEN spanker_ping ELSE spanker_get_version,
   writable |-> TRUE]

\* The model's own markers are none of the values they stand beside.
ASSUME ControlAssumption ==
  /\ NoHandle \notin {"device", "other"}
  /\ \A op \in Ops : RequestOf(op) # NoCall

NoRet          == [ok |-> FALSE, is |-> "none", version |-> NoAbi]
OpenError      == [ok |-> FALSE, is |-> "Open", version |-> NoAbi]
IoctlError(op) == [ok |-> FALSE, is |-> op, version |-> NoAbi]
Opened         == [ok |-> TRUE, is |-> "Open", version |-> NoAbi]
\* ping drops the value it is given; version repacks the struct the driver filled.
Done(op, v)    == [ok |-> TRUE, is |-> op,
                   version |-> IF op = "PING" THEN NoAbi ELSE v]

\* map and map_err on the result of the ioctl.
ResultOf(op, a) == IF a.ret = "0" THEN Done(op, a.version) ELSE IoctlError(op)

-----------------------------------------------------------------------------
\* open_path on the control device.
OpenControl(u) ==
  /\ handle[u] = NoHandle
  /\ Open(u)
  /\ handle' = [handle EXCEPT ![u] = "device"]
  /\ ret' = [ret EXCEPT ![u] = Opened]
  /\ UNCHANGED sail

\* open_path where the node is missing or its module cannot be pinned, or where the
\* process lacks permission or descriptors, whatever the node.
OpenFails(u) ==
  /\ handle[u] = NoHandle
  /\ ret' = [ret EXCEPT ![u] = OpenError]
  /\ UNCHANGED <<vars, handle, sail>>

\* open_path on some other file: nothing checks that it is a control device.
OpenOther(u) ==
  /\ handle[u] = NoHandle
  /\ handle' = [handle EXCEPT ![u] = "other"]
  /\ ret' = [ret EXCEPT ![u] = Opened]
  /\ UNCHANGED <<vars, sail>>

\* ping and version enter the kernel ...
Begin(u, op) ==
  /\ handle[u] = "device"
  /\ sail[u] = "none"
  /\ IoctlEnter(u, RequestOf(op))
  /\ UNCHANGED controlVars

\* ... and make a Result of what it answers.
Finish(u, op) ==
  /\ call[u] = RequestOf(op)
  /\ IoctlReturn(u)
  /\ ret' = [ret EXCEPT ![u] = ResultOf(op, reply'[u])]
  /\ UNCHANGED <<handle, sail>>

\* On a file without this dispatcher the kernel refuses the command itself.
CallOther(u, op) ==
  /\ handle[u] = "other"
  /\ sail[u] = "none"
  /\ ret' = [ret EXCEPT ![u] = IoctlError(op)]
  /\ UNCHANGED <<vars, handle, sail>>

\* On a dangling file whatever the freed module yields is taken for an answer. A
\* SailMatmul gets there only by being dropped.
CallDangling(u, op) ==
  /\ handle[u] = "device"
  /\ call[u] \in {NoCall, RequestOf(op)}
  /\ UseDangling(u)
  /\ sail[u] = "none" \/ file'[u] = "none"
  /\ ret' = [ret EXCEPT ![u] = ResultOf(op, reply'[u])]
  /\ handle' = [handle EXCEPT ![u] = IF file'[u] = "none" THEN NoHandle ELSE @]
  /\ sail' = [sail EXCEPT ![u] = IF file'[u] = "none" THEN "none" ELSE @]

Bug_DropForgetsFile(u) ==
  /\ handle[u] # NoHandle
  /\ handle' = [handle EXCEPT ![u] = NoHandle]
  /\ ret' = [ret EXCEPT ![u] = NoRet]
  /\ sail' = [sail EXCEPT ![u] = "none"]
  /\ UNCHANGED vars

\* Dropping the SpankerControl, or the SailMatmul around it, closes its File.
Drop(u) ==
  /\ handle[u] # NoHandle
  /\ IF handle[u] = "device" THEN Close(u) ELSE UNCHANGED vars
  /\ handle' = [handle EXCEPT ![u] = NoHandle]
  /\ ret' = [ret EXCEPT ![u] = NoRet]
  /\ sail' = [sail EXCEPT ![u] = "none"]

-----------------------------------------------------------------------------
(* SailMatmul.                                                              *)

Bug_NewKeepsOnlyFd(u) ==
  /\ handle[u] # NoHandle /\ call[u] = NoCall
  /\ sail[u] = "none"
  /\ sail' = [sail EXCEPT ![u] = "new"]
  /\ IF handle[u] = "device" THEN Close(u) ELSE UNCHANGED vars
  /\ UNCHANGED <<handle, ret>>
\* SailMatmul::new takes the SpankerControl over: from now on nothing calls it.
SailMatmulNew(u) ==
  /\ handle[u] # NoHandle /\ call[u] = NoCall
  /\ sail[u] = "none"
  /\ sail' = [sail EXCEPT ![u] = "new"]
  /\ UNCHANGED <<vars, handle, ret>>

\* matmul_q4_k looks at none of its arguments, and asks the driver nothing.
MatmulQ4K(u) ==
  /\ sail[u] # "none"
  /\ sail' = [sail EXCEPT ![u] = "NotImplemented"]
  /\ UNCHANGED <<vars, handle, ret>>

-----------------------------------------------------------------------------
ControlInit ==
  /\ Init
  /\ handle = [u \in Users |-> NoHandle]
  /\ ret = [u \in Users |-> NoRet]
  /\ sail = [u \in Users |-> "none"]

ProcessStep ==
  \E u \in Users :
    \/ OpenControl(u) \/ OpenFails(u) \/ OpenOther(u) \/ Drop(u)
    \/ SailMatmulNew(u) \/ MatmulQ4K(u)
    \/ \E op \in Ops : Begin(u, op) \/ Finish(u, op) \/ CallOther(u, op)
                       \/ CallDangling(u, op)

KernelStep == (InitStep \/ ExitStep \/ LoaderStep \/ BusStep) /\ UNCHANGED controlVars

ControlNext == ProcessStep \/ KernelStep

\* The dispatcher never blocks for good; insmod and rmmod may take for ever here.
ControlSpec ==
  /\ ControlInit /\ [][ControlNext]_allVars
  /\ \A u \in Users : WF_allVars(\E op \in Ops : Finish(u, op))

-----------------------------------------------------------------------------
(* Properties.                                                              *)

ControlTypeOK ==
  /\ TypeOK
  /\ handle \in [Users -> {NoHandle, "device", "other"}]
  /\ ret \in [Users -> [ok : BOOLEAN, is : Ops \cup {"none", "Open"},
                        version : Abis \cup {NoAbi}]]
  /\ sail \in [Users -> {"none", "new", "NotImplemented"}]
  /\ \A u \in Users : handle[u] = "device" <=> file[u] # "none"

\* ping and version never fail on a handle whose module is still there, not even
\* while the module is being loaded or its load is failing: the runtime's copy
\* of the command words and of the struct agrees with the driver's.
OpenHandleAlwaysAnswered ==
  \A u \in Users : file[u] = "open" => ret[u].ok

\* However modules of other versions come and go, the version one handle reported
\* last is that of the module that is loaded now: what a process has compared
\* before it hands the handle to a SailMatmul still holds afterwards.
HandleSeesOneAbi ==
  \A u \in Users :
    handle[u] = "device" /\ ret[u].is = "GET_VERSION" => ret[u].ok /\ ret[u].version = abi

\* A SailMatmul, which never asks the driver anything, keeps its module loaded all
\* the same, and has no call of the handle it took over still under way.
SailKeepsModule ==
  \A u \in Users :
    sail[u] # "none" =>
      /\ handle[u] # NoHandle /\ call[u] = NoCall
      /\ handle[u] = "device" /\ "pci" \notin CanFail =>
           file[u] = "open" /\ mod \in {"Coming", "Live"}

-----------------------------------------------------------------------------
(* The control device as the runtime sees it.                               *)

Up         == IF Openable THEN abi ELSE NoAbi
Session    == {u \in Users : file[u] = "open"}
OpOf(c)    == IF c = NoCall THEN "none" ELSE CHOOSE op \in Ops : RequestOf(op) = c
Question   == [u \in Users |-> OpOf(call[u])]
LastAnswer == [u \in Users |-> IF file[u] = "open" /\ ret[u].ok /\ ret[u].is \in Ops
                               THEN <<ret[u].is, ret[u].version>>
                               ELSE <<"none", NoAbi>>]

Device == INSTANCE CtlDevice WITH
  Versions <- Abis, NoVersion <- NoAbi,
  up <- Up, session <- Session, question <- Question, answer <- LastAnswer

\* Kernel module and runtime together keep the promise of the control device,
\* the promise that every question is answered included.
ImplementsCtlDevice == Device!Spec
=============================================================================
