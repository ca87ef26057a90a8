------------------------------- MODULE Memory ------------------------------
(***************************************************************************)
(* The CPU's view of memory (runtime/ForthCPU/Memory.h, UnsafeMemory.h):   *)
(* an address falls into RAM, ROM, the UART's registers or nowhere.  RAM   *)
(* and ROM are byte arrays; words are stored with the low byte first, at   *)
(* any address.                                                            *)
(***************************************************************************)
EXTENDS Integers

CONSTANTS
  RamStart, RamEnd,    \* RAM is the addresses from RamStart up to RamEnd
  RomStart, RomEnd,
  UartStart, UartEnd,
  RomByte              \* what every byte of the ROM holds

(* The ranges fit in 16 bits, are not empty and do not overlap.            *)
ASSUME MemoryAssumption ==
  /\ RamStart \in Nat /\ RamEnd \in Nat /\ RamStart < RamEnd
  /\ RomStart \in Nat /\ RomEnd \in Nat /\ RamEnd <= RomStart /\ RomStart < RomEnd
  /\ UartStart \in Nat /\ UartEnd \in Nat /\ RomEnd <= UartStart /\ UartStart < UartEnd
  /\ UartEnd < 2^16
  /\ RomByte \in 0..255

VARIABLE ram

RamBytes == RamStart..(RamEnd - 1)
----------------------------------------------------------------------------
(* addressDecode, for words: RAM first, then ROM, then the UART.           *)
AddressDecode(addr) ==
  IF addr \in RamStart..(RamEnd - 1) THEN "ram"
  ELSE IF addr \in RomStart..(RomEnd - 1) THEN "rom"
  ELSE IF addr \in UartStart..(UartEnd - 1) THEN "uart"
  ELSE "unknown"

(* addressDecodeC, for bytes: each range includes its end, and RAM is      *)
(* asked first, so that a byte at RamEnd is RAM's even if ROM starts there.*)
AddressDecodeC(addr) ==
  IF addr \in RamStart..RamEnd THEN "ram"
  ELSE IF addr \in RomStart..RomEnd THEN "rom"
  ELSE IF addr \in UartStart..UartEnd THEN "uart"
  ELSE "unknown"

(* A byte of the RAM's or the ROM's array.  Beyond its end lies some other *)
(* object of the program: reading there may give any byte.                 *)
ArrayByte(addr) == IF addr \in RamBytes THEN {ram[addr]} ELSE 0..255

RomArrayByte(addr) == IF addr \in RomStart..(RomEnd - 1) THEN {RomByte} ELSE 0..255

WordsOf(lows, highs) == {lo + 256 * hi : lo \in lows, hi \in highs}

(* get() and getC(): the values a load may give; the UART's are the        *)
(* caller's affair.                                                        *)
Get(addr) ==
  CASE AddressDecode(addr) = "ram" -> WordsOf(ArrayByte(addr), ArrayByte(addr + 1))
    [] AddressDecode(addr) = "rom" -> WordsOf(RomArrayByte(addr), RomArrayByte(addr + 1))
    [] OTHER                       -> {0}

GetC(addr) ==
  CASE AddressDecodeC(addr) = "ram" -> ArrayByte(addr)
    [] AddressDecodeC(addr) = "rom" -> RomArrayByte(addr)
    [] OTHER                        -> {0}

(* put() and putC(): stores to ROM and to nowhere are ignored, and what    *)
(* lies beyond RAM's array is not part of this model.                      *)
Put(addr, w) ==
  ram' = IF AddressDecode(addr) # "ram" THEN ram
         ELSE [b \in RamBytes |-> CASE b = addr     -> w % 256
                                    [] b = addr + 1 -> (w \div 256) % 256
                                    [] OTHER        -> ram[b]]

PutC(addr, c) ==
  ram' = IF addr \in RamBytes THEN [ram EXCEPT ![addr] = c % 256] ELSE ram
============================================================================
