-------------------------- MODULE ModbusRegisters --------------------------
(***************************************************************************)
(* The input registers of the Modbus server (modbus.cpp) and the scaling   *)
(* of a value to a register (Base_scale, quantities.h).  A register has    *)
(* Word values in place of 2^16, and a double is the number of four words  *)
(* that its bits spell.  Values are integers.                              *)
(***************************************************************************)
EXTENDS Quantities, Integers, Sequences

CONSTANTS
  Word,       (* number of values of a register: 2^16                        *)
  Defaults,   (* def_config_data, by quantity: a part of a Scale             *)
  Config,     (* the [modbus] section of the configuration, likewise         *)
  Version     (* the register of the application's version                   *)

ASSUME ModbusAssumption == Word \in Nat \ {0} /\ Word % 2 = 0

QuantityOf(number) ==
  IF number + 1 \in DOMAIN Quantity THEN Quantity[number + 1] ELSE "end"

-----------------------------------------------------------------------------
(* Base_scale                                                              *)

(* The entry of the configuration, or the default one, or the last resort. *)
Entry(q, key, otherwise) ==
  IF q \in DOMAIN Config /\ key \in DOMAIN Config[q] THEN Config[q][key]
  ELSE IF q \in DOMAIN Defaults /\ key \in DOMAIN Defaults[q] THEN Defaults[q][key]
  ELSE otherwise

Scale(q) ==
  LET multiplier == Entry(q, "scale", 0)
  IN  [min |-> Entry(q, "min", -(Word \div 2)), max |-> Entry(q, "max", Word \div 2),
       multiplier |-> multiplier, offset |-> Entry(q, "offset", 0),
       signed |-> Entry(q, "signed", multiplier # 0)]

(* Mutant: a value that does not fit is not clamped, and wraps. *)
NotClamped(x, range) == x % range

Clamped(x, range) ==
  IF x < 0 THEN 0 ELSE IF x >= range - 1 THEN range - 1 ELSE x

(* A value in a type of so many values: from min to max, or from half the  *)
(* range below offset on if there is a multiplier; then the top bit makes  *)
(* it a number in two's complement.                                        *)
scale_to(range, q, value) ==
  LET s == Scale(q)
      raw == IF s.multiplier # 0
             THEN (value - s.offset) * s.multiplier + range \div 2
             ELSE ((value - s.min) * range) \div (s.max - s.min)
      x == Clamped(raw, range)
  IN  IF s.signed THEN (x + range \div 2) % range ELSE x

-----------------------------------------------------------------------------
(* Modbus_handler                                                          *)

plain_base_address == 10000
processor_base_address == 20000

(* Word i of the four that spell a double, the most significant one first. *)
WordOf(double, i) ==
  (double \div <<Word * Word * Word, Word * Word, Word, 1>>[i + 1]) % Word

(* Device::get_sample: the last one, if there is one. *)
Known(samples, q) == q \in DOMAIN samples
get_sample(samples, q) == samples[q]
zero == [value |-> 0, stamp |-> 0]

(* The registers from 10000 on: value and stamp of each quantity. *)
PlainRegister(samples, r) ==
  LET q == QuantityOf(r \div 8)
      sample == IF Known(samples, q) THEN get_sample(samples, q) ELSE zero
  IN  WordOf(IF (r % 8) \div 4 = 0 THEN sample.value ELSE sample.stamp, r % 4)

(* A quantity in two registers, of which half 0 is the upper one. *)
HalfOf(q, value, half) ==
  LET both == scale_to(Word * Word, q, value)
  IN  IF half = 0 THEN both \div Word ELSE both % Word

(* The registers from 0 on; a quantity without a sample leaves a 0. *)
BaseRegister(samples, r) ==
  LET q == IF r \in 1..6 THEN QuantityOf((r - 1) \div 2) ELSE QuantityOf(r - 4)
  IN  IF r = 0 THEN Version
      ELSE IF ~Known(samples, q) THEN 0
      ELSE IF r \in 1..6 THEN HalfOf(q, get_sample(samples, q).value, (r - 1) % 2)
      ELSE scale_to(Word, q, get_sample(samples, q).value)

(* read_input_registers: devices are the samples of each device and        *)
(* processors the registers of each processor; a unit that does not exist  *)
(* reads as 0, and unit 255 is the first one.                              *)
read_input_registers(devices, processors, unit, address, count) ==
  LET u == IF unit = 255 THEN 1 ELSE unit + 1
      Register(r) ==
        IF address >= processor_base_address
        THEN IF u \in DOMAIN processors THEN processors[u][r - processor_base_address] ELSE 0
        ELSE IF u \notin DOMAIN devices THEN 0
        ELSE IF address >= plain_base_address
             THEN PlainRegister(devices[u], r - plain_base_address)
             ELSE BaseRegister(devices[u], r)
  IN  [i \in 1..count |-> Register(address + i - 1)]

=============================================================================
