-------------------------------- MODULE Uart --------------------------------
(***************************************************************************)
(* Console output: write() calls reach the UART through consolewrite() and *)
(* uartwrite(), which sleeps until an interrupt says that the last byte is *)
(* out.  The kernel's printf(), under pr.lock, and the echo of a typed     *)
(* character, by the interrupt handler and without that lock, write the    *)
(* same register by polling, and neither takes tx_lock.  The device is the *)
(* 16550 that uart.c programs: a FIFO, a status bit for "empty", and an    *)
(* interrupt raised when it becomes empty and withdrawn by reading ISR or  *)
(* by writing another byte.  The PLIC lets one handler run at a time.      *)
(***************************************************************************)
EXTENDS Integers, Sequences, FiniteSets

CONSTANTS
  Process,     \* processes that write() a message to the console
  Printer,     \* kernel threads that printf() a line
  Echo,        \* the handler, as the author of a byte
  NoTask,      \* nobody holds the lock
  Bytes,       \* length of a message and of a line
  Writes,      \* bound: write() calls per process
  MaxEcho      \* bound: bytes echoed

Task == Process \cup Printer

(* A message has a byte; NoTask is neither a task nor a byte of one.       *)
ASSUME UartAssumption ==
  /\ Process \cap Printer = {} /\ Echo \notin Task /\ NoTask \notin Task
  /\ NoTask \notin (Task \cup {Echo}) \X Nat \X Nat
  /\ Bytes \in Nat /\ Bytes > 0

VARIABLES
  conswr,      \* holder of conswr_lock
  pr,          \* holder of pr.lock
  tx_busy,
  fifo,        \* bytes in the device
  thri,        \* "transmitter empty" interrupt pending
  intr,        \* where uartintr() is, "none" between interrupts
  echoed,      \* bytes echoed
  task,        \* per task: pc and bytes written of the current message
  count,       \* per task: messages finished
  last,        \* history: the last byte sent of a write() and of a printf()
  torn         \* history: a message was interrupted by another of its kind

uartVars == <<conswr, pr, tx_busy, fifo, thri, intr, echoed, task, count, last, torn>>

UartInit ==
  /\ conswr = NoTask /\ pr = NoTask
  /\ tx_busy = FALSE
  /\ fifo = <<>> /\ thri = FALSE /\ intr = "none" /\ echoed = 0
  /\ task = [t \in Task |-> [pc |-> "idle", i |-> 0]]
  /\ count = [t \in Task |-> 0]
  /\ last = [kind \in {Process, Printer} |-> NoTask] /\ torn = FALSE

Pc(t, pc) == task[t].pc = pc
Proceeds(t, pc) == task' = [task EXCEPT ![t].pc = pc]

\* WriteReg(THR): the byte enters the device, the pending interrupt goes.
WriteThr(byte) ==
  /\ fifo' = Append(fifo, byte)
  /\ thri' = FALSE
ByteOf(t) == <<t, count[t], task[t].i>>

------------------------------------------------------------------------------
\* consolewrite(): conswr_lock from the first byte to the last.
consolewrite(p) ==
  /\ Pc(p, "idle") /\ count[p] < Writes
  /\ conswr = NoTask
  /\ conswr' = p
  /\ Proceeds(p, "send")
  /\ UNCHANGED <<pr, tx_busy, fifo, thri, intr, echoed, count, last, torn>>

\* uartwrite(), one byte under tx_lock: wait until the device is not busy.
SendByte(p) ==
  /\ p \in Process /\ Pc(p, "send") /\ task[p].i < Bytes
  /\ ~tx_busy
  /\ WriteThr(ByteOf(p))
  /\ tx_busy' = TRUE
  /\ task' = [task EXCEPT ![p].i = @ + 1]
  /\ UNCHANGED <<conswr, pr, intr, echoed, count, last, torn>>
SendSleep(p) ==
  /\ p \in Process /\ Pc(p, "send") /\ task[p].i < Bytes
  /\ tx_busy
  /\ Proceeds(p, "asleep")
  /\ UNCHANGED <<conswr, pr, tx_busy, fifo, thri, intr, echoed, count, last, torn>>
WriteDoneLocked(p) ==                                           \* mutant
  /\ p \in Process /\ Pc(p, "send") /\ task[p].i = Bytes
  /\ task' = [task EXCEPT ![p] = [pc |-> "idle", i |-> 0]]
  /\ count' = [count EXCEPT ![p] = @ + 1]
  /\ UNCHANGED <<conswr, pr, tx_busy, fifo, thri, intr, echoed, last, torn>>
WriteDone(p) ==
  /\ p \in Process /\ Pc(p, "send") /\ task[p].i = Bytes
  /\ conswr' = NoTask
  /\ task' = [task EXCEPT ![p] = [pc |-> "idle", i |-> 0]]
  /\ count' = [count EXCEPT ![p] = @ + 1]
  /\ UNCHANGED <<pr, tx_busy, fifo, thri, intr, echoed, last, torn>>

\* consolewrite(): either_copyin() fails, the write() ends where it is.
WriteFault(p) ==
  /\ Pc(p, "send") /\ task[p].i < Bytes
  /\ conswr' = NoTask
  /\ task' = [task EXCEPT ![p] = [pc |-> "idle", i |-> 0]]
  /\ count' = [count EXCEPT ![p] = @ + 1]
  /\ UNCHANGED <<pr, tx_busy, fifo, thri, intr, echoed, last, torn>>

\* printf(): pr.lock around the line; each byte by uartputc_sync(), which
\* polls the status register and then writes.
printf(t) ==
  /\ Pc(t, "idle") /\ count[t] = 0
  /\ pr = NoTask
  /\ pr' = t
  /\ Proceeds(t, "poll")
  /\ UNCHANGED <<conswr, tx_busy, fifo, thri, intr, echoed, count, last, torn>>
PollIdle(t) ==
  /\ Pc(t, "poll") /\ task[t].i < Bytes
  /\ fifo = <<>>
  /\ Proceeds(t, "put")
  /\ UNCHANGED <<conswr, pr, tx_busy, fifo, thri, intr, echoed, count, last, torn>>
PutByte(t) ==
  /\ Pc(t, "put")
  /\ WriteThr(ByteOf(t))
  /\ task' = [task EXCEPT ![t] = [pc |-> "poll", i |-> @.i + 1]]
  /\ UNCHANGED <<conswr, pr, tx_busy, intr, echoed, count, last, torn>>
PrintDone(t) ==
  /\ Pc(t, "poll") /\ task[t].i = Bytes
  /\ pr' = NoTask
  /\ task' = [task EXCEPT ![t] = [pc |-> "idle", i |-> 0]]
  /\ count' = [count EXCEPT ![t] = @ + 1]
  /\ UNCHANGED <<conswr, tx_busy, fifo, thri, intr, echoed, last, torn>>

\* The device: a byte leaves; the last one raises the interrupt.  Byte b
\* follows byte a of its kind if it goes on with a's message, or begins one.
Follows(a, b) == b[3] = 0 \/ (a # NoTask /\ b = <<a[1], a[2], a[3] + 1>>)
Kind(byte) == IF byte[1] \in Process THEN Process ELSE Printer
DeviceSends ==
  /\ fifo # <<>>
  /\ LET byte == Head(fifo) IN
     IF byte[1] = Echo THEN UNCHANGED <<last, torn>>
     ELSE /\ last' = [last EXCEPT ![Kind(byte)] = byte]
          /\ torn' = (torn \/ ~Follows(last[Kind(byte)], byte))
  /\ fifo' = Tail(fifo)
  /\ thri' = (Len(fifo) = 1)
  /\ UNCHANGED <<conswr, pr, tx_busy, intr, echoed, task, count>>

\* uartintr(): the acknowledgement withdraws the interrupt; then, under
\* tx_lock, the status register decides.  Input raises it too.
UartAck(typed) ==
  /\ intr = "none" /\ (thri \/ typed)
  /\ intr' = "acked"
  /\ thri' = FALSE
  /\ UNCHANGED <<conswr, pr, tx_busy, fifo, echoed, task, count, last, torn>>
WokenNone == task                                               \* mutant
WokenWriters == [t \in Task |-> IF Pc(t, "asleep") THEN [task[t] EXCEPT !.pc = "send"] ELSE task[t]]
uartintr ==
  /\ intr = "acked"
  /\ intr' = "input"
  /\ IF fifo = <<>> THEN tx_busy' = FALSE /\ task' = WokenWriters
     ELSE UNCHANGED <<tx_busy, task>>
  /\ UNCHANGED <<conswr, pr, fifo, thri, echoed, count, last, torn>>

\* Then each typed character goes to consoleintr(), which echoes it with
\* uartputc_sync() under cons.lock alone.
consoleintr ==
  /\ intr = "input" /\ echoed < MaxEcho
  /\ intr' = "poll"
  /\ UNCHANGED <<conswr, pr, tx_busy, fifo, thri, echoed, task, count, last, torn>>
EchoIdle ==
  /\ intr = "poll" /\ fifo = <<>>
  /\ intr' = "put"
  /\ UNCHANGED <<conswr, pr, tx_busy, fifo, thri, echoed, task, count, last, torn>>
EchoByte ==
  /\ intr = "put"
  /\ WriteThr(<<Echo, 0, 0>>)
  /\ echoed' = echoed + 1
  /\ intr' = "input"
  /\ UNCHANGED <<conswr, pr, tx_busy, task, count, last, torn>>
UartReturn ==
  /\ intr = "input"
  /\ intr' = "none"
  /\ UNCHANGED <<conswr, pr, tx_busy, fifo, thri, echoed, task, count, last, torn>>
UartHandler == uartintr \/ EchoIdle \/ EchoByte \/ UartReturn

TaskStep(t) ==
  \/ SendByte(t) \/ SendSleep(t) \/ WriteDone(t)
  \/ PollIdle(t) \/ PutByte(t) \/ PrintDone(t)

UartNext ==
  \/ \E p \in Process : consolewrite(p) \/ WriteFault(p)
  \/ \E t \in Printer : printf(t)
  \/ \E t \in Task : TaskStep(t)
  \/ DeviceSends
  \/ \E typed \in BOOLEAN : UartAck(typed)
  \/ UartHandler \/ consoleintr

\* The device sends, the PLIC delivers what it raises, the CPUs run.
UartFairness ==
  /\ WF_uartVars(DeviceSends) /\ WF_uartVars(UartAck(FALSE)) /\ WF_uartVars(UartHandler)
  /\ \A t \in Task : WF_uartVars(TaskStep(t))
UartSpec == UartInit /\ [][UartNext]_uartVars /\ UartFairness

------------------------------------------------------------------------------
(* Types; a sleeping writer, a polling printf and the polling echo, none   *)
(* of which heeds the others, together never put more than three bytes     *)
(* into the device's 16-byte FIFO (uartwrite, uartputc_sync).              *)
UartTypeOK ==
  /\ conswr \in Process \cup {NoTask} /\ pr \in Printer \cup {NoTask}
  /\ Len(fifo) <= 3
  /\ \A t \in Task : task[t].i \in 0 .. Bytes

(***************************************************************************)
(* A write() reaches the console in one piece as far as other write()s go, *)
(* and a printf() as far as other printf()s go (console.c:56,              *)
(* agentcmd.c:354), although bytes are queued, polled and sent by          *)
(* different hands; a write() whose buffer faults ends early.              *)
(***************************************************************************)
MessagesWhole == ~torn

(***************************************************************************)
(* A writer that sleeps is owed a wakeup: a byte is still in the device,   *)
(* its interrupt is pending, or the handler has yet to look (uart.c:86).   *)
(* Polled bytes in between withdraw the interrupt but bring their own.     *)
(***************************************************************************)
SleeperIsOwedInterrupt ==
  (\E p \in Process : Pc(p, "asleep")) => fifo # <<>> \/ thri \/ intr = "acked"

(***************************************************************************)
(* Every write() that has the console comes to its end.                    *)
(***************************************************************************)
ConsoleWriteReturns == \A p \in Process : (conswr = p) ~> (conswr # p)

(* What uart.c keeps although printf and the echo write the same register: *)
(* a write() prints its message whole, a writer asleep is owed an          *)
(* interrupt, and the FIFO never overflows.                                *)
UartInv == UartTypeOK /\ MessagesWhole /\ SleeperIsOwedInterrupt
=============================================================================
