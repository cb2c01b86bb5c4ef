----------------------------- MODULE I2cProofs -----------------------------
(***************************************************************************)
(* Safety of a transfer on the i2c bus, for any set of clients and any     *)
(* message lengths.  The inductive invariant has two parts: one about the  *)
(* mutex, the clock and the control register, which LeftClean follows      *)
(* from, and one about the progress of a read, from which ReadAnswered     *)
(* follows.                                                                *)
(***************************************************************************)
EXTENDS I2c, TLAPS

\* A transfer is under way exactly while its client is in the mutex, and the
\* clock is on exactly then; the master mode ends with the stop.
CleanInv ==
  /\ lock = NULL <=> pc = "user"
  /\ clk <=> lock # NULL
  /\ pc = "idle" => ~msta
  /\ lock = NULL /\ ~deaf => ~ien /\ ~msta

\* Message i of a transfer reads only if it is the last one.
ReadLast ==
  pc # "user" =>
    /\ sgrt_msgs \in Transfers
    /\ idx \in 1..Len(sgrt_msgs)
    /\ Msg.len \in Nat
    /\ Msg.rd \in BOOLEAN
    /\ Msg.rd => is_lastMsgs

\* The first n bytes were answered with ACK.
Acked(n) == Len(answers) >= n /\ \A i \in 1..n : ~answers[i]

\* Every byte of the read was answered, the last one with NACK.
Complete ==
  /\ Len(answers) = Msg.len
  /\ \A i \in 1..Msg.len : answers[i] <=> i = Msg.len

\* Before its read a transfer has answered nothing; in the read the answer to
\* the next byte is set already; behind it a success has answered them all.
ReadInv ==
  /\ pc \in {"start", "msg", "restart", "addr", "write"} => answers = <<>>
  /\ pc = "write" => ~Msg.rd /\ count < Msg.len
  /\ pc = "read" =>
       /\ Msg.rd /\ count < Msg.len
       /\ Len(answers) = count /\ Acked(count)
       /\ txak <=> count = Msg.len - 1
  /\ pc \in {"drain"} => Msg.rd /\ Complete
  /\ pc \in {"stop", "idle"} /\ retval = 0 /\ Msg.rd => Complete

IInv == TypeOK /\ CleanInv /\ ReadLast /\ ReadInv
-----------------------------------------------------------------------------
\* A transfer is a write, or a write and a read.
LEMMA TransferShape ==
  ASSUME NEW m \in Transfers
  PROVE  /\ Len(m) \in {1, 2}
         /\ \A i \in 1..Len(m) : /\ m[i].len \in Nat /\ m[i].rd \in BOOLEAN
                                 /\ m[i].rd => i = Len(m)
<1>1. CASE m \in {<<[rd |-> FALSE, len |-> n]>> : n \in Lens}
  <2> PICK n \in Lens : m = <<[rd |-> FALSE, len |-> n]>>
    BY <1>1
  <2>1. Len(m) = 1 /\ m[1].rd = FALSE /\ m[1].len = n
    OBVIOUS
  <2>2. n \in Nat /\ 1..1 = {1}
    BY I2cAssumption
  <2> QED  BY <2>1, <2>2
<1>2. CASE m \in {<<[rd |-> FALSE, len |-> 1], [rd |-> TRUE, len |-> n]>> :
                    n \in Lens}
  <2> PICK n \in Lens : m = <<[rd |-> FALSE, len |-> 1],
                              [rd |-> TRUE, len |-> n]>>
    BY <1>2
  <2>1. /\ Len(m) = 2 /\ m[1].rd = FALSE /\ m[1].len = 1
        /\ m[2].rd = TRUE /\ m[2].len = n
    OBVIOUS
  <2>2. n \in Nat /\ 1..2 = {1, 2}
    BY I2cAssumption
  <2>3. \A i \in 1..2 : m[i].len \in Nat /\ m[i].rd \in BOOLEAN
    <3>1. m[1].rd \in BOOLEAN /\ m[2].rd \in BOOLEAN
      BY <2>1, Zenon
    <3>2. m[1].len \in Nat /\ m[2].len \in Nat
      BY <2>1, <2>2
    <3> QED  BY <2>2, <3>1, <3>2, Zenon
  <2>4. \A i \in 1..2 : m[i].rd => i = 2
    BY <2>1, <2>2
  <2> QED  BY <2>1, <2>3, <2>4
<1> QED  BY <1>1, <1>2 DEF Transfers

LEMMA InitInv == Init => IInv
<1> SUFFICES ASSUME Init PROVE IInv
  OBVIOUS
<1>1. TypeOK
  <2>1. answers \in Seq(BOOLEAN)
    BY DEF Init
  <2>2. /\ lock \in Client \cup {NULL} /\ pc \in Place /\ idx \in Nat
        /\ count \in Nat /\ retval \in {0, -1}
    BY DEF Init, Place
  <2>3. sgrt_msgs \in Transfers \cup {<<>>}
    BY DEF Init
  <2>4. /\ clk \in BOOLEAN /\ ien \in BOOLEAN /\ msta \in BOOLEAN
        /\ txak \in BOOLEAN /\ ibb \in BOOLEAN /\ deaf \in BOOLEAN
        /\ iif \in BOOLEAN
    BY Zenon DEF Init
  <2> QED  BY <2>1, <2>2, <2>3, <2>4 DEF TypeOK
<1>2. CleanInv
  BY DEF Init, CleanInv
<1>3. ReadLast /\ ReadInv
  BY DEF Init, ReadLast, ReadInv
<1> QED  BY <1>1, <1>2, <1>3 DEF IInv

LEMMA StepInv == IInv /\ [Next]_vars => IInv'
<1> SUFFICES ASSUME IInv, [Next]_vars PROVE IInv'
  OBVIOUS
<1> USE I2cAssumption DEF IInv, TypeOK, Place, call, regs, WaitComplete
<1>0. iif' \in BOOLEAN
  <2>1. iif' = FALSE \/ iif' = TRUE \/ iif' = iif
    BY DEF Next, Transfer, Start, Started, StartTimeout, Message, Restart,
       Address, Write, Read, Drain, Stop, Stopped, Bus, ByteDone, vars
  <2> QED  BY <2>1, Zenon
<1>1. ASSUME NEW t \in Client, Start(t) PROVE IInv'
  <2>1. TypeOK' /\ CleanInv'
    BY <1>0, <1>1 DEF Start, CleanInv
  <2>2. ReadLast'
    <3>1. sgrt_msgs' \in Transfers /\ idx' = 1
      BY <1>1 DEF Start
    <3> DEFINE n == Len(sgrt_msgs')
    <3>2. n = 1 \/ n = 2
      BY <3>1, TransferShape, Zenon
    <3>3. 1 \in 1..1 /\ 1 \in 1..2
      OBVIOUS
    <3>4. 1 \in 1..n
      BY <3>2, <3>3, Zenon
    <3>5. /\ sgrt_msgs'[1].len \in Nat /\ sgrt_msgs'[1].rd \in BOOLEAN
          /\ sgrt_msgs'[1].rd => 1 = n
      BY <3>1, <3>4, TransferShape, Zenon
    <3> QED  BY <3>1, <3>4, <3>5 DEF ReadLast, Msg, is_lastMsgs
  <2> QED  BY <1>1, <2>1, <2>2 DEF Start, ReadInv
<1>2. CASE Started
  BY <1>2 DEF Started, CleanInv, ReadLast, ReadInv, Msg, is_lastMsgs
<1>3. CASE StartTimeout
  BY <1>3 DEF StartTimeout, CleanInv, ReadLast, ReadInv
<1>4. CASE Message
  BY <1>4 DEF Message, Fails, CleanInv, ReadLast, ReadInv, Msg, is_lastMsgs,
    Complete, Acked
<1>5. CASE Restart
  BY <1>5 DEF Restart, Fails, CleanInv, ReadLast, ReadInv, Msg, is_lastMsgs,
    Complete, Acked
<1>6. CASE Address
  <2>1. PICK o \in Outcome :
          /\ After(o)
          /\ \/ /\ o = "ack" /\ Msg.len > 0
                /\ pc' = IF Msg.rd THEN "read" ELSE "write"
                /\ UNCHANGED <<idx, retval>>
             \/ /\ IF o = "ack" THEN Msg.len = 0 ELSE ~Msg.rd
                /\ Advance /\ UNCHANGED retval
             \/ o # "ack" /\ Msg.rd /\ Fails
          /\ txak' = IF o = "ack" /\ Msg.rd THEN Msg.len <= 1 ELSE txak
    BY <1>6 DEF Address
  <2>2. msta' \in BOOLEAN /\ txak' \in BOOLEAN
    <3>1. txak \in BOOLEAN /\ (Msg.len <= 1) \in BOOLEAN
      OBVIOUS
    <3>2. msta' \in BOOLEAN
      BY <2>1, Zenon DEF After
    <3>3. txak' = (Msg.len <= 1) \/ txak' = txak
      BY <2>1, Zenon
    <3> QED  BY <3>1, <3>2, <3>3, Zenon
  <2>3. o = "ack" /\ Msg.rd => (txak' <=> Msg.len <= 1)
    BY <2>1
  <2>4. /\ pc = "addr" /\ count' = 0 /\ iif' = FALSE
        /\ UNCHANGED <<call, clk, ien, ibb, answers>>
    BY <1>6 DEF Address
  <2>5. TypeOK' /\ CleanInv'
    BY <1>0, <2>1, <2>2, <2>4 DEF Advance, Fails, CleanInv
  <2>6. ReadLast'
    BY <2>1, <2>4, TransferShape DEF Advance, Fails, ReadLast, Msg, is_lastMsgs
  <2>7. ReadInv'
    BY <2>1, <2>3, <2>4 DEF Advance, Fails, ReadLast, ReadInv, Msg,
      is_lastMsgs, Complete, Acked
  <2> QED  BY <2>5, <2>6, <2>7
<1>7. CASE Write
  BY <1>0, <1>7, TransferShape DEF Write, Outcome, After, Advance, CleanInv,
    ReadLast, ReadInv, Msg, is_lastMsgs, Complete, Acked
<1>8. CASE Read
  <2>1. /\ pc = "read" /\ answers' = Append(answers, txak) /\ iif' = FALSE
        /\ UNCHANGED <<call, clk, ien, ibb, retval>>
    BY <1>8 DEF Read
  <2>2. is_lastMsgs /\ Msg' = sgrt_msgs[idx']
    BY <2>1 DEF ReadLast, ReadInv, Msg
  <2>3. CASE count = Msg.len - 1
    <3>1. msta' = FALSE /\ pc' = "drain" /\ UNCHANGED <<idx, count, txak>>
      BY <1>8, <2>2, <2>3 DEF Read, ReadLast
    <3>2. answers' \in Seq(BOOLEAN)
      BY <2>1
    <3>3. TypeOK' /\ CleanInv'
      BY <1>0, <2>1, <3>1, <3>2 DEF CleanInv
    <3>4. ReadLast'
      BY <2>1, <3>1 DEF ReadLast, Msg, is_lastMsgs
    <3>5. Complete'
      BY <2>1, <2>3, <3>1 DEF Complete, ReadLast, ReadInv, Acked, Msg
    <3> QED  BY <2>1, <3>1, <3>3, <3>5, <3>4 DEF ReadInv, ReadLast, Msg
  <2>4. CASE count < Msg.len - 1
    <3>1. /\ txak' = (count = Msg.len - 2) /\ count' = count + 1
          /\ UNCHANGED <<pc, idx, msta>>
      BY <1>8, <2>1, <2>4 DEF Read, ReadLast
    <3>2. txak' \in BOOLEAN /\ (txak' <=> count = Msg.len - 2)
      BY <3>1, Zenon
    <3>3. TypeOK' /\ CleanInv' /\ ReadLast'
      BY <1>0, <2>1, <3>1, <3>2 DEF CleanInv, ReadLast, Msg, is_lastMsgs
    <3>4. /\ Len(answers') = count' /\ Acked(count)'
          /\ ~answers'[count + 1]
      BY <2>1, <2>4, <3>1 DEF ReadLast, ReadInv, Acked, Msg
    <3> QED
      BY <2>1, <2>4, <3>1, <3>2, <3>3, <3>4 DEF ReadLast, ReadInv, Acked, Msg
  <2> QED  BY <1>8, <2>3, <2>4 DEF Read
<1>9. CASE Drain
  BY <1>9 DEF Drain, Advance, Fails, CleanInv, ReadLast, ReadInv, Msg,
    is_lastMsgs, Complete, Acked
<1>10. CASE Stop
  BY <1>10 DEF Stop, CleanInv, ReadLast, ReadInv, Msg, is_lastMsgs, Complete
<1>11. CASE Stopped
  BY <1>11 DEF Stopped, CleanInv, ReadLast, ReadInv
<1>12. CASE Bus
  BY <1>12 DEF Bus, CleanInv, ReadLast, ReadInv, Msg, is_lastMsgs, Complete,
    Acked
<1>13. CASE ByteDone
  BY <1>13 DEF ByteDone, CleanInv, ReadLast, ReadInv, Msg, is_lastMsgs,
    Complete, Acked
<1>14. CASE UNCHANGED vars
  BY <1>14 DEF vars, CleanInv, ReadLast, ReadInv, Msg, is_lastMsgs, Complete,
    Acked
<1> QED  BY <1>1, <1>2, <1>3, <1>4, <1>5, <1>6, <1>7, <1>8, <1>9, <1>10,
            <1>11, <1>12, <1>13, <1>14 DEF Next, Transfer

\* The inductive invariant holds in every reachable state of a transfer.
THEOREM Invariance == Spec => []IInv
BY InitInv, StepInv, PTL DEF Spec

\* imx_i2c_adap_xfer: whichever way a transfer ends, the clock is off and,
\* unless the bus never answered its start, the controller is disabled and out
\* of the master mode.
THEOREM EndsClean == Spec => []LeftClean
<1>1. IInv => LeftClean
  BY DEF IInv, CleanInv, LeftClean
<1> QED  BY <1>1, Invariance, PTL

\* imx_i2c_adap_read: a success means that every byte of the last message was
\* read and answered with ACK, the last one with NACK, for messages of any
\* length.
THEOREM AllAnswered == Spec => []ReadAnswered
<1>1. ASSUME IInv PROVE ReadAnswered
  <2> SUFFICES ASSUME pc = "idle", retval = 0, Msg.rd
               PROVE  answers = [i \in 1..Msg.len |-> i = Msg.len]
    BY DEF ReadAnswered
  <2>1. Msg.len \in Nat /\ Complete /\ answers \in Seq(BOOLEAN)
    BY <1>1 DEF IInv, TypeOK, ReadLast, ReadInv
  <2>2. DOMAIN answers = 1..Msg.len
    BY <2>1 DEF Complete
  <2>3. answers = [i \in 1..Msg.len |-> answers[i]]
    BY <2>1, <2>2
  <2>4. ASSUME NEW i \in 1..Msg.len PROVE answers[i] = (i = Msg.len)
    <3>1. answers[i] \in BOOLEAN
      BY <2>1, <2>2
    <3>2. answers[i] <=> i = Msg.len
      BY <2>1 DEF Complete
    <3> QED  BY <3>1, <3>2, Zenon
  <2> QED  BY <2>3, <2>4, Zenon
<1> QED  BY <1>1, Invariance, PTL

-----------------------------------------------------------------------------
(* How much of a transfer is left: messages, then the stage of the message, *)
(* then its bytes.                                                          *)

Messages == Len(sgrt_msgs) - idx

Stage(p) ==
  IF p = "user" THEN 0 ELSE IF p = "idle" THEN 1 ELSE IF p = "stop" THEN 2
  ELSE IF p = "drain" THEN 3 ELSE IF p \in {"write", "read"} THEN 4
  ELSE IF p = "addr" THEN 5 ELSE IF p = "restart" THEN 6
  ELSE IF p = "msg" THEN 7 ELSE 8

Bytes == IF pc \in {"write", "read"} THEN Msg.len - count ELSE 0

\* Less is left: fewer messages, or an earlier end of this one.
Less ==
  \/ Messages' < Messages
  \/ Messages' = Messages /\ Stage(pc)' < Stage(pc)
  \/ Messages' = Messages /\ Stage(pc)' = Stage(pc) /\ Bytes' < Bytes

\* imx_i2c_adap_xfer cannot go round in circles: while a client is in the
\* mutex of the adapter, each step of its transfer leaves less to do, by a
\* measure in the natural numbers that no other step of the system changes,
\* whatever the slaves answer and wherever the arbitration is lost.
TransferShrinks ==
  [][/\ lock # NULL => Messages \in Nat /\ Stage(pc) \in Nat /\ Bytes \in Nat
     /\ Transfer => lock # NULL /\ Less
     /\ lock # NULL /\ ~Transfer => UNCHANGED <<Messages, Stage(pc), Bytes>>]_vars

\* The measure is one of natural numbers.
LEMMA MeasureNat ==
  ASSUME IInv, lock # NULL
  PROVE  Messages \in Nat /\ Stage(pc) \in Nat /\ Bytes \in Nat
<1>1. /\ pc # "user" /\ idx \in 1..Len(sgrt_msgs) /\ Msg.len \in Nat
      /\ sgrt_msgs \in Transfers /\ count \in Nat
      /\ pc \in {"write", "read"} => count < Msg.len
  BY DEF IInv, TypeOK, CleanInv, ReadLast, ReadInv
<1>2. Len(sgrt_msgs) \in Nat
  BY <1>1, TransferShape
<1>3. Messages \in Nat /\ Bytes \in Nat
  BY <1>1, <1>2 DEF Messages, Bytes
<1>4. Stage(pc) \in Nat
  BY DEF Stage
<1> QED  BY <1>3, <1>4

\* Where a message that is through leaves the transfer.
LEMMA AdvanceLess ==
  ASSUME IInv, lock # NULL, Advance, UNCHANGED sgrt_msgs, Stage(pc) > 2
  PROVE  Less
<1>1. /\ idx \in 1..Len(sgrt_msgs) /\ Len(sgrt_msgs) \in Nat
      /\ Stage(pc) \in Nat
  BY TransferShape, MeasureNat DEF IInv, CleanInv, ReadLast
<1>2. CASE is_lastMsgs
  <2>1. pc' = "stop" /\ idx' = idx
    BY <1>2 DEF Advance
  <2> QED  BY <1>1, <2>1 DEF Less, Messages, Stage
<1>3. CASE ~is_lastMsgs
  <2>1. idx' = idx + 1
    BY <1>3 DEF Advance
  <2> QED  BY <1>1, <2>1 DEF Less, Messages
<1> QED  BY <1>2, <1>3

\* Each step of a transfer leaves less of it.
LEMMA TransferLess ==
  ASSUME IInv, Transfer
  PROVE  lock # NULL /\ Less
<1>1. pc # "user" /\ lock # NULL
  BY DEF IInv, CleanInv, Transfer, Started, StartTimeout, Message, Restart,
     Address, Write, Read, Drain, Stop, Stopped
<1> SUFFICES Less
  BY <1>1
<1>2. /\ sgrt_msgs' = sgrt_msgs /\ Msg.len \in Nat /\ count \in Nat
      /\ idx \in 1..Len(sgrt_msgs) /\ Len(sgrt_msgs) \in Nat
  <2>1. sgrt_msgs' = sgrt_msgs
    BY DEF call, Transfer, Started, StartTimeout, Message, Restart,
       Address, Write, Read, Drain, Stop, Stopped
  <2> QED  BY <1>1, <2>1, TransferShape DEF IInv, TypeOK, ReadLast
<1>3. ASSUME idx' = idx PROVE Messages' = Messages
  BY <1>2, <1>3 DEF Messages
<1>4. ASSUME idx' = idx, Stage(pc)' < Stage(pc) PROVE Less
  BY <1>3, <1>4 DEF Less
<1>5. CASE Started \/ StartTimeout \/ Stop \/ Stopped
  <2>1. idx' = idx
    BY <1>5 DEF Started, StartTimeout, Stop, Stopped
  <2>2. Stage(pc)' < Stage(pc)
    BY <1>5 DEF Started, StartTimeout, Stop, Stopped, Stage
  <2> QED  BY <1>4, <2>1, <2>2
<1>6. CASE Message \/ Restart
  <2>1. idx' = idx
    BY <1>6 DEF Message, Restart, Fails
  <2>2. Stage(pc)' < Stage(pc)
    BY <1>6 DEF Message, Restart, Fails, Stage
  <2> QED  BY <1>4, <2>1, <2>2
<1>7. CASE Address
  <2>1. pc = "addr"
    BY <1>7 DEF Address
  <2>2. \/ pc' \in {"read", "write", "stop"} /\ idx' = idx
        \/ Advance
    BY <1>7 DEF Address, Fails
  <2>3. CASE Advance
    <3>1. Stage(pc) > 2
      BY <2>1 DEF Stage
    <3> QED  BY <1>1, <1>2, <2>3, <3>1, AdvanceLess
  <2>4. CASE pc' \in {"read", "write", "stop"} /\ idx' = idx
    <3>1. Stage(pc)' < Stage(pc)
      BY <2>1, <2>4 DEF Stage
    <3> QED  BY <1>4, <2>4, <3>1
  <2> QED  BY <2>2, <2>3, <2>4
<1>8. CASE Write \/ Read
  <2>1. pc \in {"write", "read"} /\ Stage(pc) > 2
    BY <1>8 DEF Write, Read, Stage
  <2>2. \/ count' = count + 1 /\ pc' = pc /\ idx' = idx
        \/ Advance
        \/ pc' = "drain" /\ idx' = idx
    BY <1>8 DEF Write, Read
  <2>3. CASE count' = count + 1 /\ pc' = pc /\ idx' = idx
    <3>1. Bytes' < Bytes
      BY <1>2, <2>1, <2>3 DEF Bytes, Msg
    <3>2. Stage(pc)' = Stage(pc)
      BY <2>3
    <3> QED  BY <1>3, <2>3, <3>1, <3>2 DEF Less
  <2>4. CASE Advance
    BY <1>1, <1>2, <2>1, <2>4, AdvanceLess
  <2>5. CASE pc' = "drain" /\ idx' = idx
    <3>1. Stage(pc)' < Stage(pc)
      BY <2>1, <2>5 DEF Stage
    <3> QED  BY <1>4, <2>5, <3>1
  <2> QED  BY <2>2, <2>3, <2>4, <2>5
<1>9. CASE Drain
  <2>1. pc = "drain" /\ Stage(pc) > 2
    BY <1>9 DEF Drain, Stage
  <2>2. Advance \/ (pc' = "stop" /\ idx' = idx)
    BY <1>9 DEF Drain, Fails
  <2>3. CASE pc' = "stop" /\ idx' = idx
    <3>1. Stage(pc)' < Stage(pc)
      BY <2>1, <2>3 DEF Stage
    <3> QED  BY <1>4, <2>3, <3>1
  <2> QED  BY <1>1, <1>2, <2>1, <2>2, <2>3, AdvanceLess
<1> QED  BY <1>1, <1>5, <1>6, <1>7, <1>8, <1>9 DEF Transfer

\* The safety half of TransferEnds, for messages of any length: a transfer is
\* a finite number of steps of its own, and nothing else adds to them; what may
\* last is only the wait before one of these steps.
THEOREM TransferFinite == Spec => TransferShrinks
<1>1. ASSUME IInv, [Next]_vars, lock # NULL, ~Transfer
      PROVE  UNCHANGED <<Messages, Stage(pc), Bytes>>
  <2>1. Bus \/ ByteDone \/ UNCHANGED vars
    BY <1>1 DEF Next, Start
  <2>2. UNCHANGED <<sgrt_msgs, idx, pc, count>>
    BY <2>1 DEF Bus, ByteDone, call, vars
  <2> QED  BY <2>2 DEF Messages, Bytes, Msg
<1>2. IInv /\ [Next]_vars =>
        [/\ lock # NULL => Messages \in Nat /\ Stage(pc) \in Nat /\ Bytes \in Nat
         /\ Transfer => lock # NULL /\ Less
         /\ lock # NULL /\ ~Transfer => UNCHANGED <<Messages, Stage(pc), Bytes>>]_vars
  BY <1>1, MeasureNat, TransferLess
<1> QED  BY <1>2, Invariance, PTL DEF Spec, TransferShrinks
=============================================================================
