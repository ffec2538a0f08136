------------------------------ MODULE SpiLink ------------------------------
(***************************************************************************)
(* The serial link of a vehicle: spi_transfer on the Raspberry Pi and      *)
(* spi_exchange, its interrupts and the watchdog on the ATmega.  Every     *)
(* 20 ms a command goes one way and the readings of the sensors the other, *)
(* byte for byte at the same time; the answer to a frame is in the next.   *)
(* The two sides share the slave select line and no clock, so a transfer   *)
(* may begin wherever the loop of the ATmega is.  A command is the number  *)
(* of its transfer; 0 is "a safe command (motor stopped ...)".             *)
(***************************************************************************)
EXTENDS Naturals, Sequences

CONSTANTS
  Size,        (* SPI_BUFFER_SIZE: bytes of a frame (27)                   *)
  Checked,     (* sizeof(spi_mosi_data_t): those with the command (12)     *)
  Attempts,    (* frames of a transfer at most (3)                         *)
  Transfers,   (* bound: transfers                                         *)
  Faults       (* bound: frames that are disturbed                         *)

(* The fields of the command are some of the bytes; an acknowledgement     *)
(* takes two frames, and the third is there for one that is disturbed.     *)
ASSUME SizeAssumption == Size \in Nat \ {0} /\ Checked \in 1 .. Size
ASSUME AttemptsAssumption == Attempts \in Nat /\ Attempts >= 3
ASSUME BoundAssumption == Transfers \in Nat /\ Faults \in Nat

VARIABLES
  pi,                   (* "idle", "transmit" or "check"                   *)
  select,               (* the slave select line is low                    *)
  command, attempt,     (* number of the transfer, and of its frame        *)
  sent, answer,         (* bytes of this frame sent; bytes received        *)
  outcome,              (* transmission_successful, and the readings       *)
  main,                 (* where the loop of the ATmega is                 *)
  SPDR,                 (* the byte that goes out next                     *)
  spi_buffer_index, mosi_buffer,
  miso_buffer,          (* "right" or "wrong": miso_correct_CRC, _wrong_CRC *)
  readings,             (* spi_miso_data: the transfer they were taken after *)
  prepared,             (* the readings in the two buffers                 *)
  received, applied,    (* spi_mosi_data, and what motor and servo do      *)
  safe_mode_flag,
  faults, disturbed,    (* frames disturbed so far; those of this transfer *)
  steady,               (* history: the latest transfers in a row that     *)
                        (* began while the ATmega waited for them, with    *)
                        (* the watchdog quiet                              *)
  delivered             (* history: last command copied from mosi_buffer   *)

raspberry == <<pi, select, command, attempt, sent, answer, outcome>>
interrupts == <<SPDR, spi_buffer_index, mosi_buffer>>
loop == <<main, miso_buffer, readings, prepared, received, applied, delivered>>
noise == <<faults, disturbed>>
vars == <<raspberry, interrupts, loop, safe_mode_flag, noise, steady>>

Number == 0 .. Transfers
Position == 0 .. Size - 1
Command == [command : 1 .. Transfers, position : Position]
Reading == [buffer : {"right", "wrong"}, readings : Number, position : Position]
Garbage == [position |-> Size]

TypeOK ==
  /\ pi \in {"idle", "transmit", "check"} /\ select \in BOOLEAN
  /\ command \in Number /\ attempt \in 0 .. Attempts
  /\ sent \in 0 .. Size
  /\ answer \in Seq(Reading \cup {Garbage}) /\ Len(answer) = sent
  /\ outcome \in [status : {"none", "failed", "successful"}, readings : Number]
  /\ main \in {"top", "fill", "begin", "wait", "active", "validate", "sensors", "apply"}
  /\ SPDR \in Reading \cup {Garbage}
  /\ spi_buffer_index \in Nat
  /\ mosi_buffer \in [Position -> Command \cup {Garbage}]
  /\ miso_buffer \in {"right", "wrong"}
  /\ {readings, prepared, received, applied, delivered} \subseteq Number
  /\ safe_mode_flag \in BOOLEAN /\ steady \in Number
  /\ faults \in 0 .. Faults /\ disturbed \in 0 .. faults

(* After watchdog_reset in main, before the first transfer.                *)
Init ==
  /\ pi = "idle" /\ select = FALSE
  /\ command = 0 /\ attempt = 0 /\ sent = 0 /\ answer = <<>>
  /\ outcome = [status |-> "none", readings |-> 0]
  /\ main = "top" /\ SPDR = Garbage
  /\ spi_buffer_index = 0 /\ mosi_buffer = [i \in Position |-> Garbage]
  /\ miso_buffer = "wrong"
  /\ readings = 0 /\ prepared = 0 /\ received = 0 /\ applied = 0 /\ delivered = 0
  /\ safe_mode_flag = FALSE
  /\ faults = 0 /\ disturbed = 0 /\ steady = 0

-----------------------------------------------------------------------------
(* The Raspberry Pi: spi_transfer                                          *)

(* "CS low => transmission start".                                         *)
BeginTransfer ==
  /\ pi = "idle" /\ command < Transfers
  /\ pi' = "transmit" /\ select' = TRUE
  /\ command' = command + 1
  /\ attempt' = 1 /\ sent' = 0 /\ answer' = <<>>
  /\ outcome' = [status |-> "none", readings |-> 0]
  /\ disturbed' = 0
  /\ steady' = IF main = "wait" /\ ~safe_mode_flag THEN steady + 1 ELSE 0
  /\ UNCHANGED <<interrupts, loop, safe_mode_flag, faults>>

(* The waiting loops around a frame give the ATmega the time for a pass of *)
(* its own loop, when that is what it does.                                *)
CaughtUp == main \notin {"wait", "validate"} /\ (main = "active" => spi_buffer_index < Size)

(* The byte at a position of the buffer that goes out; what lies behind    *)
(* the buffer is not modelled.                                             *)
Outgoing(buffer, position) ==
  IF position < Size
  THEN [buffer |-> buffer, readings |-> prepared, position |-> position] ELSE Garbage

(* ISR(SPI_STC_vect): a write behind mosi_buffer is left out.              *)
TransferInterrupt(byte) ==
  /\ mosi_buffer' = [i \in Position |-> IF i = spi_buffer_index THEN byte ELSE mosi_buffer[i]]
  /\ spi_buffer_index' = spi_buffer_index + 1
  /\ SPDR' = Outgoing(miso_buffer, spi_buffer_index + 1)

(* bcm2835_spi_transfer exchanges one byte.  A disturbed frame has a wrong *)
(* byte, in one direction or in both.                                      *)
TransferByte ==
  /\ pi = "transmit" /\ sent < Size
  /\ sent = 0 => CaughtUp
  /\ LET byte == [command |-> command, position |-> sent]
     IN \/ /\ answer' = Append(answer, SPDR)
           /\ TransferInterrupt(byte)
           /\ UNCHANGED noise
        \/ /\ faults < Faults /\ sent = 0
           /\ faults' = faults + 1 /\ disturbed' = disturbed + 1
           /\ \E out, in \in BOOLEAN :
                /\ out \/ in
                /\ TransferInterrupt(IF out THEN Garbage ELSE byte)
                /\ answer' = Append(answer, IF in THEN Garbage ELSE SPDR)
  /\ sent' = sent + 1
  /\ pi' = IF sent' = Size THEN "check" ELSE "transmit"
  /\ UNCHANGED <<select, command, attempt, outcome, loop, safe_mode_flag, steady>>

(* check_CRC_miso: all bytes of one packet, each in its place.             *)
IsPacket(frame, buffer) ==
  \E n \in Number : \A i \in 1 .. Size :
    frame[i] = [buffer |-> buffer, readings |-> n, position |-> i - 1]

(* Mutant: one frame more.                                                 *)
OneFrameMore == attempt > Attempts
LastFrame == attempt = Attempts

(* The end of a frame: another attempt, or "CS high => transmission end",  *)
(* whose interrupt on the ATmega is PCINT0_vect.                           *)
CheckFrame ==
  /\ pi = "check" /\ CaughtUp
  /\ IF IsPacket(answer, "right") \/ LastFrame
     THEN /\ pi' = "idle" /\ select' = FALSE
          /\ outcome' = IF IsPacket(answer, "right")
                        THEN [status |-> "successful", readings |-> answer[1].readings]
                        ELSE [status |-> "failed", readings |-> 0]
          /\ safe_mode_flag' = FALSE                (* watchdog_reset *)
          /\ UNCHANGED attempt
     ELSE /\ pi' = "transmit" /\ attempt' = attempt + 1
          /\ UNCHANGED <<select, outcome, safe_mode_flag>>
  /\ sent' = 0 /\ answer' = <<>>
  /\ UNCHANGED <<command, interrupts, loop, noise, steady>>

-----------------------------------------------------------------------------
(* The ATmega: the loop of main, with spi_exchange                         *)

(* Mutant: the command of the last pass is kept.                           *)
TopKeeps ==
  /\ main = "top"
  /\ main' = IF safe_mode_flag THEN "sensors" ELSE "fill"
  /\ UNCHANGED <<raspberry, interrupts, miso_buffer, readings, prepared, received, applied,
                 delivered, safe_mode_flag, noise, steady>>

(* "All zeros is a safe command".                                          *)
Top ==
  /\ main = "top"
  /\ received' = 0
  /\ main' = IF safe_mode_flag THEN "sensors" ELSE "fill"
  /\ UNCHANGED <<raspberry, interrupts, miso_buffer, readings, prepared, applied, delivered,
                 safe_mode_flag, noise, steady>>

(* The packets for both cases.                                             *)
Fill ==
  /\ main = "fill" /\ main' = "begin"
  /\ prepared' = readings
  /\ UNCHANGED <<raspberry, interrupts, miso_buffer, readings, received, applied, delivered,
                 safe_mode_flag, noise, steady>>

(* Mutant: the index is not reset before an exchange.                      *)
BeginAnywhere ==
  /\ main = "begin" /\ main' = "wait"
  /\ miso_buffer' = "wrong"
  /\ SPDR' = Outgoing("wrong", 0)
  /\ UNCHANGED <<raspberry, spi_buffer_index, mosi_buffer, readings, prepared, received, applied,
                 delivered, safe_mode_flag, noise, steady>>

Begin ==
  /\ main = "begin" /\ main' = "wait"
  /\ miso_buffer' = "wrong"
  /\ spi_buffer_index' = 0
  /\ SPDR' = Outgoing("wrong", 0)
  /\ UNCHANGED <<raspberry, mosi_buffer, readings, prepared, received, applied, delivered,
                 safe_mode_flag, noise, steady>>

(* Mutant: the watchdog does not end the waiting.                          *)
WaitDeaf ==
  /\ main = "wait" /\ select
  /\ main' = "active"
  /\ UNCHANGED <<raspberry, interrupts, miso_buffer, readings, prepared, received, applied,
                 delivered, safe_mode_flag, noise, steady>>

(* The loop that waits for the slave select line, or for the watchdog.     *)
Wait ==
  /\ main = "wait"
  /\ select \/ safe_mode_flag
  /\ main' = IF select THEN "active" ELSE "sensors"
  /\ UNCHANGED <<raspberry, interrupts, miso_buffer, readings, prepared, received, applied,
                 delivered, safe_mode_flag, noise, steady>>

(* The loop of an active transmission.                                     *)
Active ==
  /\ main = "active"
  /\ \/ spi_buffer_index >= Size /\ main' = "validate"
     \/ spi_buffer_index < Size /\ (safe_mode_flag \/ ~select) /\ main' = "sensors"
  /\ UNCHANGED <<raspberry, interrupts, miso_buffer, readings, prepared, received, applied,
                 delivered, safe_mode_flag, noise, steady>>

(* Mutants: every frame is acknowledged, or only the last one counts.      *)
AnswerRight(correct) == miso_buffer' = "right"
AnswerLast(correct) == miso_buffer' = IF correct THEN "right" ELSE "wrong"

(* The answer to a frame stays right once one of the frames was.           *)
AnswerFor(correct) == miso_buffer' = IF correct THEN "right" ELSE miso_buffer

NextFrame ==
  /\ spi_buffer_index' = 0
  /\ SPDR' = Outgoing(miso_buffer', 0)

(* A complete frame: the CRC is over the bytes of the command only.        *)
Validate ==
  /\ main = "validate"
  /\ LET correct == \E c \in 1 .. Transfers : \A i \in 0 .. Checked - 1 :
                      mosi_buffer[i] = [command |-> c, position |-> i]
         copied == IF correct THEN mosi_buffer[0].command ELSE received
     IN /\ AnswerFor(correct)
        /\ received' = copied
        /\ delivered' = IF correct THEN copied ELSE delivered
  /\ NextFrame
  /\ main' = IF safe_mode_flag \/ ~select THEN "sensors" ELSE "active"
  /\ UNCHANGED <<raspberry, mosi_buffer, readings, prepared, applied, safe_mode_flag, noise, steady>>

ReadSensors ==
  /\ main = "sensors" /\ main' = "apply"
  /\ readings' = command
  /\ UNCHANGED <<raspberry, interrupts, miso_buffer, prepared, received, applied, delivered,
                 safe_mode_flag, noise, steady>>

Apply ==
  /\ main = "apply" /\ main' = "top"
  /\ applied' = received
  /\ UNCHANGED <<raspberry, interrupts, miso_buffer, readings, prepared, received, delivered,
                 safe_mode_flag, noise, steady>>

(* ISR(WDT_vect): no transfer has ended for 250 ms.                        *)
WatchdogInterrupt ==
  /\ ~safe_mode_flag
  /\ safe_mode_flag' = TRUE
  /\ steady' = IF pi = "idle" THEN steady ELSE 0
  /\ UNCHANGED <<raspberry, interrupts, loop, noise>>

RaspberryStep == TransferByte \/ CheckFrame
LoopStep ==
  Top \/ Fill \/ Begin \/ Wait \/ Active \/ Validate \/ ReadSensors \/ Apply

Next == BeginTransfer \/ RaspberryStep \/ LoopStep \/ WatchdogInterrupt

Spec == Init /\ [][Next]_vars

(* Both processors run; the watchdog comes when the Raspberry Pi is silent *)
(* for good.  Nobody has to begin a transfer.                              *)
Fairness ==
  WF_vars(RaspberryStep) /\ WF_vars(LoopStep) /\ WF_vars(pi = "idle" /\ WatchdogInterrupt)

FairSpec == Spec /\ Fairness

-----------------------------------------------------------------------------
(* PROPERTIES                                                              *)

Succeeded == outcome.status = "successful"

(* spi_transfer says "successful": the command was received, if the ATmega  *)
(* waited for the transfer when it began; and if it had also waited for    *)
(* the one before, the readings were taken between the two.                *)
SteadyAckMeansReceived ==
  /\ Succeeded /\ steady >= 1 => delivered = command
  /\ Succeeded /\ steady >= 2 => outcome.readings = command - 1

(* "exchange fixed size buffers" (spi.c): no interrupt writes behind       *)
(* mosi_buffer in a transfer the ATmega waited for.                        *)
IndexInBuffer == pi # "idle" /\ steady >= 1 => spi_buffer_index <= Size

(* A frame that is disturbed in either direction is repaired by the others *)
(* of its transfer.                                                        *)
OneFaultIsRepaired ==
  pi = "idle" /\ command > 0 /\ steady >= 1 /\ disturbed <= 1 => Succeeded

(* While the ATmega waits for the next command, the motor does what the    *)
(* last one says, or nothing if that did not arrive.                       *)
MotorFollows ==
  main = "wait" /\ pi = "idle" /\ steady >= 1 =>
    applied = IF delivered = command THEN command ELSE 0

(* What is acknowledged was received, in the buffer and not behind it, a   *)
(* single fault is repaired, and the motor gets what was received.         *)
LinkSafe ==
  TypeOK /\ SteadyAckMeansReceived /\ IndexInBuffer /\ OneFaultIsRepaired /\ MotorFollows

(* "The watchdog ... safe-mode" (watchdog.h): when the Raspberry Pi falls  *)
(* silent the motor stops and stays so, wherever the loop of the ATmega    *)
(* was.                                                                    *)
SilenceStopsMotor == <>[](pi = "idle") => <>[](applied = 0)

=============================================================================
