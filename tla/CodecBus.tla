------------------------------ MODULE CodecBus ------------------------------
(***************************************************************************)
(* The I2C side of the codec drivers of audio-sinks/esp: a driver call is  *)
(* a program of register accesses, each of which may fail on the bus.  A   *)
(* register is the set of its bits that are one.                           *)
(*                                                                         *)
(* An access writes (old & keep) | set, after a read of old if it needs    *)
(* one.  No driver stops at a failure: a failed write leaves the register, *)
(* and a failed read gives garbage(codec), which is written back.          *)
(***************************************************************************)
EXTENDS Integers, Sequences, FiniteSets

CONSTANTS MaxCalls,     (* bound on the driver calls                        *)
          MaxFaults     (* bound on the accesses that fail                  *)

VARIABLES codec,
          regs,         (* the registers, those not in it never written     *)
          program,      (* what is left of the running call                 *)
          asks,         (* the fields it sets; a field is <<register, mask>>*)
          touched,      (* the registers of a running call; {} between calls*)
          broken,       (* an access of the running call has failed         *)
          asked,        (* history: the fields clients have set, and to what*)
          calls, faults

codecVars == <<codec, regs, program, asks, touched, broken, asked, calls, faults>>

Bits(n) == {i \in 0..15 : (n \div 2^i) % 2 = 1}

Write(reg, value) == [reg |-> reg, reads |-> FALSE, keep |-> {}, set |-> Bits(value)]
Update(reg, keep, value) ==
  [reg |-> reg, reads |-> TRUE, keep |-> Bits(keep), set |-> Bits(value)]

Ask(reg, mask, value) == [field \in {<<reg, mask>>} |-> Bits(value)]
AskNothing == <<>>

(* What f has, and where it has nothing what g has.                        *)
Over(f, g) == [x \in DOMAIN f \union DOMAIN g |-> IF x \in DOMAIN f THEN f[x] ELSE g[x]]

Old(reg) == IF reg \in DOMAIN regs THEN regs[reg] ELSE {}
FieldIs(field, bits) == Old(field[1]) \cap Bits(field[2]) = bits

(* Es8311ReadReg returns -1, the AC101's i2c_read_reg zeros.               *)
garbage == IF codec = "es8311" THEN 0..7 ELSE {}

BusInit ==
  /\ regs = <<>> /\ program = <<>> /\ asks = AskNothing /\ touched = {}
  /\ broken = FALSE /\ asked = <<>> /\ calls = 0 /\ faults = 0

(* A client makes a call, which is to set fields; setup starts anew.       *)
Invoke(accesses, fields, setup) ==
  /\ touched = {} /\ calls < MaxCalls
  /\ program' = accesses /\ asks' = fields
  /\ touched' = {accesses[i].reg : i \in DOMAIN accesses}
  /\ broken' = FALSE
  /\ asked' = IF setup THEN <<>> ELSE asked
  /\ calls' = calls + 1
  /\ UNCHANGED <<codec, regs, faults>>

Stored(reg, bits) == regs' = Over([r \in {reg} |-> bits], regs)
UNCHANGED_Call == UNCHANGED <<codec, asks, touched, asked, calls>>

Access ==
  /\ program # <<>>
  /\ program' = Tail(program)
  /\ LET i == Head(program) IN Stored(i.reg, (Old(i.reg) \cap i.keep) \union i.set)
  /\ UNCHANGED <<broken, faults>> /\ UNCHANGED_Call

WriteFails ==
  /\ program # <<>> /\ faults < MaxFaults
  /\ program' = Tail(program)
  /\ broken' = TRUE /\ faults' = faults + 1
  /\ UNCHANGED regs /\ UNCHANGED_Call

ReadFails ==
  /\ program # <<>> /\ Head(program).reads /\ faults < MaxFaults
  /\ program' = Tail(program)
  /\ LET i == Head(program) IN Stored(i.reg, (garbage \cap i.keep) \union i.set)
  /\ broken' = TRUE /\ faults' = faults + 1
  /\ UNCHANGED_Call

(* A call that met a failure has set nothing a client could rely on, and   *)
(* may have spoilt what shares a register with it.                         *)
Finish ==
  /\ touched # {} /\ program = <<>>
  /\ asked' = IF broken
              THEN [f \in {g \in DOMAIN asked : g[1] \notin touched} |-> asked[f]]
              ELSE Over(asks, asked)
  /\ touched' = {} /\ asks' = AskNothing /\ broken' = FALSE
  /\ UNCHANGED <<codec, regs, program, calls, faults>>

BusNext == Access \/ WriteFails \/ ReadFails \/ Finish

(***************************************************************************)
(* Properties.                                                             *)
(***************************************************************************)
(* Between calls every field a client has set has the value it was set to, *)
(* whatever was called since, and unless a later call that failed accessed *)
(* its register: setting one field leaves its neighbours alone.            *)
SettingsHold ==
  touched = {} => \A field \in DOMAIN asked : FieldIs(field, asked[field])
=============================================================================
