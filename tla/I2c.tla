-------------------------------- MODULE I2c --------------------------------
(***************************************************************************)
(* fwk_i2c_transfer on the i.MX controller (drivers/i2c/imx-i2c.c): the    *)
(* messages of a transfer, byte by byte, with the error paths.  The mutex  *)
(* of the adapter lets one client in at a time.  The bus is external: it   *)
(* follows the master bit or is stuck, every byte is acknowledged or not,  *)
(* and the arbitration can be lost, upon which the controller leaves the   *)
(* master mode by itself.                                                  *)
(***************************************************************************)
EXTENDS Integers, Sequences

CONSTANTS
  Client,        \* threads that call fwk_i2c_transfer
  Lens,          \* bytes in a message
  NULL

ASSUME I2cAssumption == Lens \subseteq Nat /\ NULL \notin Client

VARIABLES
  lock,          \* the client in the mutex of the adapter, or NULL
  sgrt_msgs,     \* its messages
  pc, idx, count,
  clk,           \* the clock of the controller is on
  ien, msta,     \* bits of the control register: enable, master mode
  txak,          \* the answer to a byte that is read: TRUE = NACK
  ibb,           \* bus busy
  iif,           \* the byte on the bus is through: isr.icf and isr.iif are set
  retval,
  answers,       \* history: the answers to the bytes of the current read
  deaf           \* history: the last start found the bus dead

vars == <<lock, sgrt_msgs, pc, idx, count, clk, ien, msta, txak, ibb, iif,
          retval, answers, deaf>>
regs == <<clk, ien, msta>>
call == <<lock, sgrt_msgs, deaf>>

\* A write, or the write of a register address and a read (at24cxx.c,
\* ap3216c.c, tsc2007.c)
Transfers ==
  {<<[rd |-> FALSE, len |-> n]>> : n \in Lens} \cup
  {<<[rd |-> FALSE, len |-> 1], [rd |-> TRUE, len |-> n]>> : n \in Lens}

Init ==
  /\ lock = NULL /\ sgrt_msgs = <<>> /\ pc = "user" /\ idx = 0 /\ count = 0
  /\ clk = FALSE /\ ien = TRUE /\ msta = FALSE /\ txak = FALSE /\ ibb = FALSE
  /\ iif = FALSE /\ retval = 0 /\ answers = <<>> /\ deaf = TRUE

Msg == sgrt_msgs[idx]
is_lastMsgs == idx = Len(sgrt_msgs)

\* The message is through, whatever came of it.
Advance ==
  IF is_lastMsgs THEN pc' = "stop" /\ UNCHANGED idx
  ELSE pc' = "msg" /\ idx' = idx + 1

Fails == pc' = "stop" /\ retval' = -1 /\ UNCHANGED idx

-----------------------------------------------------------------------------
(* imx_i2c_adap_start *)

Start(t) ==
  /\ lock = NULL /\ lock' = t
  /\ sgrt_msgs' \in Transfers
  /\ idx' = 1 /\ count' = 0 /\ answers' = <<>> /\ retval' = 0
  /\ clk' = TRUE /\ ien' = TRUE /\ msta' = TRUE /\ iif' = FALSE
  /\ pc' = "start"
  /\ UNCHANGED <<txak, ibb, deaf>>

Started ==
  /\ pc = "start" /\ ibb
  /\ txak' = TRUE
  /\ pc' = "msg"
  /\ UNCHANGED <<call, idx, count, regs, ibb, iif, retval, answers>>

\* Bug: the clock is left on.
StartTimeout_KeepsClock ==
  /\ pc = "start" /\ ~ibb
  /\ retval' = -1 /\ deaf' = TRUE
  /\ lock' = NULL /\ pc' = "user"
  /\ UNCHANGED <<sgrt_msgs, idx, count, regs, txak, ibb, iif, answers>>

\* imx_i2c_adap_for_busy gives up after 500 ms: the clock goes off, the enable
\* and the master bit stay on.
StartTimeout ==
  /\ pc = "start" /\ ~ibb
  /\ clk' = FALSE
  /\ retval' = -1 /\ deaf' = TRUE
  /\ lock' = NULL /\ pc' = "user"
  /\ UNCHANGED <<sgrt_msgs, idx, count, ien, msta, txak, ibb, iif, answers>>

-----------------------------------------------------------------------------
(* imx_i2c_adap_xfer *)

\* All but the first message need a repeated start, and the master mode.
Message ==
  /\ pc = "msg"
  /\ \/ idx = 1 /\ pc' = "addr" /\ UNCHANGED <<idx, retval>>
     \/ idx > 1 /\ msta /\ pc' = "restart" /\ UNCHANGED <<idx, retval>>
     \/ idx > 1 /\ ~msta /\ Fails
  /\ UNCHANGED <<call, count, regs, txak, ibb, iif, answers>>

Restart ==
  /\ pc = "restart"
  /\ \/ ibb /\ pc' = "addr" /\ UNCHANGED <<idx, retval>>
     \/ ~ibb /\ Fails
  /\ UNCHANGED <<call, count, regs, txak, ibb, iif, answers>>

\* imx_i2c_adap_wait_complete asks for the byte again and again.  Its time-out
\* only limits each sleep between two questions, and the interrupt of the
\* controller is never enabled: nothing but the end of the byte ends the wait.
ByteWait == {"addr", "write", "read"}
WaitComplete == pc \in ByteWait /\ iif /\ iif' = FALSE

\* What imx_i2c_adap_check_ack finds behind a byte; with the arbitration the
\* master mode is lost.
Outcome == {"ack", "nack", "lost"}
After(o) == msta' = (msta /\ o # "lost")

\* The address: a write that fails is not reported (imx-i2c.c:565).
Address ==
  /\ pc = "addr" /\ WaitComplete
  /\ \E o \in Outcome :
       /\ After(o)
       /\ \/ /\ o = "ack" /\ Msg.len > 0
             /\ pc' = IF Msg.rd THEN "read" ELSE "write"
             /\ UNCHANGED <<idx, retval>>
          \/ /\ IF o = "ack" THEN Msg.len = 0 ELSE ~Msg.rd
             /\ Advance /\ UNCHANGED retval
          \/ o # "ack" /\ Msg.rd /\ Fails
       /\ txak' = IF o = "ack" /\ Msg.rd THEN Msg.len <= 1 ELSE txak
  /\ count' = 0
  /\ UNCHANGED <<call, clk, ien, ibb, answers>>

Write ==
  /\ pc = "write" /\ WaitComplete
  /\ \E o \in Outcome :
       /\ After(o)
       /\ IF o = "ack" /\ count + 1 < Msg.len
          THEN count' = count + 1 /\ UNCHANGED <<pc, idx>>
          ELSE Advance /\ UNCHANGED count
  /\ UNCHANGED <<call, clk, ien, txak, ibb, retval, answers>>

\* Bug: the answer changes one byte too late.
Read_Late ==
  /\ pc = "read" /\ WaitComplete
  /\ answers' = Append(answers, txak)
  /\ \/ /\ count = Msg.len - 1
        /\ IF is_lastMsgs THEN msta' = FALSE /\ pc' = "drain" /\ UNCHANGED idx
           ELSE Advance /\ UNCHANGED msta
        /\ UNCHANGED <<count, txak>>
     \/ /\ count < Msg.len - 1
        /\ txak' = (count = Msg.len - 1)
        /\ count' = count + 1
        /\ UNCHANGED <<pc, idx, msta>>
  /\ UNCHANGED <<call, clk, ien, ibb, retval>>

\* A byte has arrived and was answered; the answer to the next one is set.
\* With the last byte of the last message the master mode ends.
Read ==
  /\ pc = "read" /\ WaitComplete
  /\ answers' = Append(answers, txak)
  /\ \/ /\ count = Msg.len - 1
        /\ IF is_lastMsgs THEN msta' = FALSE /\ pc' = "drain" /\ UNCHANGED idx
           ELSE Advance /\ UNCHANGED msta
        /\ UNCHANGED <<count, txak>>
     \/ /\ count < Msg.len - 1
        /\ txak' = (count = Msg.len - 2)
        /\ count' = count + 1
        /\ UNCHANGED <<pc, idx, msta>>
  /\ UNCHANGED <<call, clk, ien, ibb, retval>>

\* Bug: no time-out.
Drain_Waits ==
  /\ pc = "drain" /\ ~ibb
  /\ Advance /\ UNCHANGED retval
  /\ UNCHANGED <<call, count, regs, txak, ibb, iif, answers>>

\* The bus becomes free, or not within 500 ms.
Drain ==
  /\ pc = "drain"
  /\ \/ ~ibb /\ Advance /\ UNCHANGED retval
     \/ ibb /\ Fails
  /\ UNCHANGED <<call, count, regs, txak, ibb, iif, answers>>

\* imx_i2c_adap_stop: here the time-out is not looked at.
Stop ==
  /\ pc = "stop"
  /\ msta' = FALSE /\ txak' = FALSE
  /\ pc' = "idle"
  /\ UNCHANGED <<call, idx, count, clk, ien, ibb, iif, retval, answers>>

Stopped ==
  /\ pc = "idle"
  /\ ien' = FALSE /\ clk' = FALSE
  /\ lock' = NULL /\ deaf' = FALSE
  /\ pc' = "user"
  /\ UNCHANGED <<sgrt_msgs, idx, count, msta, txak, ibb, iif, retval,
                 answers>>

-----------------------------------------------------------------------------
\* External: the bus follows the master bit, unless it is stuck.
Bus ==
  /\ clk /\ ibb # msta
  /\ ibb' = msta
  /\ UNCHANGED <<call, pc, idx, count, regs, txak, iif, retval, answers>>

\* External: the controller may finish the byte, or never do so.
ByteDone ==
  /\ pc \in ByteWait /\ ~iif
  /\ iif' = TRUE
  /\ UNCHANGED <<call, pc, idx, count, regs, txak, ibb, retval, answers>>

Transfer ==
  \/ Started \/ StartTimeout \/ Message \/ Restart \/ Address \/ Write \/ Read
  \/ Drain \/ Stop \/ Stopped

Next == (\E t \in Client : Start(t)) \/ Transfer \/ Bus \/ ByteDone

Spec == Init /\ [][Next]_vars

\* The thread in the mutex is given the core again and again, which it needs
\* the scheduler for (FreedAgain in Mutex.tla says when it is not).  Nothing is
\* asked of the controller, the bus or the slaves.
FairSpec == Spec /\ WF_vars(Transfer)
-----------------------------------------------------------------------------
(* Properties *)

Place == {"user", "start", "msg", "restart", "addr", "write", "read", "drain",
          "stop", "idle"}

TypeOK ==
  /\ lock \in Client \cup {NULL}
  /\ sgrt_msgs \in Transfers \cup {<<>>}
  /\ pc \in Place /\ idx \in Nat /\ count \in Nat /\ retval \in {0, -1}
  /\ clk \in BOOLEAN /\ ien \in BOOLEAN /\ msta \in BOOLEAN
  /\ txak \in BOOLEAN /\ ibb \in BOOLEAN /\ iif \in BOOLEAN
  /\ deaf \in BOOLEAN
  /\ answers \in Seq(BOOLEAN)

\* imx_i2c_adap_xfer: whichever way a transfer ends, it leaves the clock off
\* and, unless the bus never answered its start, the controller disabled and
\* out of the master mode; the clock is on as long as it lasts.
LeftClean ==
  /\ clk <=> lock # NULL
  /\ lock = NULL /\ ~deaf => ~ien /\ ~msta

\* imx_i2c_adap_read: a transfer that reports success has read every byte of
\* its last message, answered each with ACK and the last one with NACK, which
\* tells the slave to stop.
ReadAnswered ==
  pc = "idle" /\ retval = 0 /\ Msg.rd =>
    answers = [i \in 1..Msg.len |-> i = Msg.len]

\* A thread that gets the core gives the mutex of the adapter back however the
\* bus and the slaves behave, with one exception: a byte that the controller
\* never finishes holds it, and every later client, for ever, since the
\* time-out of imx_i2c_adap_wait_complete does not end the wait.
TransferEnds ==
  \/ []<>(lock = NULL)
  \/ <>[](pc \in ByteWait /\ ~iif)
=============================================================================
