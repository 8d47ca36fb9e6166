----------------------------- MODULE MCBlocking ------------------------------
(***************************************************************************)
(* Who waits for whom, and that every wait ends: processes for their       *)
(* children, buffers for the disk, writers for the UART, the host for the  *)
(* kernel.  The parts share no state; each is specified over what it uses  *)
(* of the others, so one run takes them in turn: a behaviour is one of the *)
(* part chosen by `part', under that part's fairness, and the others stay  *)
(* where they start.                                                       *)
(***************************************************************************)
EXTENDS ProcLife, VirtioDisk, Uart, Bridge

VARIABLE part

BlockingInit ==
  /\ part \in {"proc", "disk", "uart", "bridge"}
  /\ userinit /\ virtio_disk_init /\ UartInit /\ BridgeInit

ProcPart   == part = "proc" /\ ProcNext /\ UNCHANGED <<diskVars, uartVars, bridgeVars>>
DiskPart   == part = "disk" /\ DiskNext /\ UNCHANGED <<procVars, uartVars, bridgeVars>>
UartPart   == part = "uart" /\ UartNext /\ UNCHANGED <<procVars, diskVars, bridgeVars>>
BridgePart == part = "bridge" /\ BridgeNext /\ UNCHANGED <<procVars, diskVars, uartVars>>

BlockingNext ==
  /\ ProcPart \/ DiskPart \/ UartPart \/ BridgePart
  /\ UNCHANGED part

blockingVars == <<part, procVars, diskVars, uartVars, bridgeVars>>

(* The fairness of ProcSpec, DiskSpec, UartSpec and BridgeSpec, each for   *)
(* the behaviours of its own part.                                         *)
BlockingSpec ==
  /\ BlockingInit /\ [][BlockingNext]_blockingVars
  /\ WF_procVars(part = "proc" /\ InitStep)
  /\ WF_diskVars(part = "disk" /\ HandlerStep)
  /\ \A c \in Caller : /\ WF_diskVars(part = "disk" /\ ServesCaller(c))
                        /\ SF_diskVars(part = "disk" /\ Complete(c))
  /\ WF_uartVars(part = "uart" /\ DeviceSends)
  /\ WF_uartVars(part = "uart" /\ UartAck(FALSE))
  /\ WF_uartVars(part = "uart" /\ UartHandler)
  /\ \A t \in Task : WF_uartVars(part = "uart" /\ TaskStep(t))
  /\ WF_bridgeVars(part = "bridge" /\ HostStep)
=============================================================================
