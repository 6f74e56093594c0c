------------------------------ MODULE RegisterFile ------------------------------
(***************************************************************************)
(* The RegisterFile of firmware/src/regfile.rs: the bytes of all           *)
(* registers, which of them the I2C master may write, and the pointer at   *)
(* which the next byte is written or read.                                 *)
(***************************************************************************)
EXTENDS Streams

CONSTANTS
  RegCount,       \* REG_COUNT; register addresses are the values of a byte
  DefaultFill,    \* DEFAULT_FILL
  Default,        \* declared register -> its default value
  Writable,       \* the registers declared with access RW
  AutoIncrement   \* AUTO_INCREMENT

Registers == DOMAIN Default
CsvAddr == EmbeddedAddr \cup {StreamAddr[s] : s \in StreamId}

(* What tools/gen_model accepts: a register backed by a CSV file is         *)
(* declared, and is read-only.                                              *)
ASSUME RegisterAssumption ==
  /\ RegCount \in Nat \ {0}
  /\ Byte = 0 .. RegCount - 1
  /\ DefaultFill \in Byte
  /\ Registers \subseteq Byte
  /\ Default \in [Registers -> Byte]
  /\ CsvAddr \subseteq Registers
  /\ Writable \subseteq Registers \ CsvAddr
  /\ AutoIncrement \in BOOLEAN

VARIABLES regs, pointer

regVars == <<regs, pointer>>

(* new and apply_model_defaults *)
PowerOnRegs == [a \in Byte |-> IF a \in Registers THEN Default[a] ELSE DefaultFill]

RegistersInit == regs = PowerOnRegs /\ pointer = 0

(* Mutant of Advance: the pointer does not wrap. *)
M_Advance(p, n) == IF AutoIncrement THEN p + n ELSE p

(* The pointer p after n bytes: a u8 that wraps around. *)
Advance(p, n) == IF AutoIncrement THEN (p + n) % RegCount ELSE p

(* Mutant of Retreat: the pointer stays ahead. *)
M_Retreat(p, n) == p

Retreat(p, n) == IF AutoIncrement THEN (p - n) % RegCount ELSE p

(* Which bytes of the payload write_payload stores, by position. *)
StoredAt(p, payload) == {i \in 1 .. Len(payload) : Advance(p, i - 1) \in Writable}

(* The last of n bytes that can be meant for register a: a payload is never  *)
(* longer than the register file.                                           *)
LastFor(p, n, a) == IF AutoIncrement THEN ((a - p) % RegCount) + 1 ELSE n

(* Mutant of WritePayload: read-only registers are written too. *)
M_WritePayload(p, payload) ==
  /\ regs' = [a \in Byte |->
       LET i == LastFor(p, Len(payload), a)
       IN IF i \in 1 .. Len(payload) /\ Advance(p, i - 1) = a THEN payload[i] ELSE regs[a]]
  /\ pointer' = Advance(p, Len(payload))

(* write_payload after set_pointer(p): bytes for registers that are not     *)
(* writable are skipped.                                                    *)
WritePayload(p, payload) ==
  /\ regs' = [a \in Byte |->
       LET i == LastFor(p, Len(payload), a)
       IN IF i \in StoredAt(p, payload) /\ Advance(p, i - 1) = a THEN payload[i] ELSE regs[a]]
  /\ pointer' = Advance(p, Len(payload))

(* reset_non_csv_to_defaults *)
ResetNonCsvToDefaults ==
  /\ regs' = [a \in Byte |-> IF a \in Registers \ CsvAddr THEN Default[a] ELSE regs[a]]
  /\ pointer' = 0

RegistersTypeOK == regs \in [Byte -> Byte] /\ pointer \in Byte

===============================================================================
