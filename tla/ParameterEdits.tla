--------------------------- MODULE ParameterEdits ----------------------------
(***************************************************************************)
(* How an edit of a parameter travels to the next unit: as control changes *)
(* (MidiDispatcher::OnEdit in src/controller/midi_dispatcher.h), which a   *)
(* part of that unit puts together again (Part::ControlChange in part.cc). *)
(* Addresses and values of eight bits are split in a bit and seven.        *)
(*                                                                         *)
(*   s.address, s.entries      current_parameter_address_,                 *)
(*                             data_entry_counter_                         *)
(*                             of the sender, the same for all its parts   *)
(*   c.nrpn, c.nrpnMsb, c.entryMsb   nrpn_, nrpn_msb_, data_entry_msb_     *)
(*   c.values                        the parameters of a part, by address  *)
(***************************************************************************)
EXTENDS Integers, Sequences

CONSTANTS Addresses,      \* the addresses that are edited
          Limits,         \* the values a parameter takes, by address
          ResendRate      \* 32

ASSUME ParameterEditsAssumption ==
  /\ Addresses \subseteq 0..255 /\ ResendRate \in Nat \ {0}
  /\ \A a \in Addresses : Limits[a] \subseteq 0..255

PolyphonyMode == 127
ChainMode     == 4
PolyMode      == 1

Msb(x) == x \div 128
U7(x)  == x % 128

CC(channel, controller, value) == <<\hB0 + channel, controller, value>>

NoAddress == 255

SelectOnce(s, address) == s.address = NoAddress        \* variant: only the first is sent

\* The address is sent when it changes, and every so often for a receiver that
\* has missed it.
Selects(s, address) == s.address # address \/ s.entries + 1 >= ResendRate

OnEdit(s, address) ==
  IF Selects(s, address) THEN [address |-> address, entries |-> 0]
  ELSE [s EXCEPT !.entries = @ + 1]

\* In a chain the next unit is told to be polyphonic, not to chain further.
Remap(mode, address, value) ==
  IF mode = "CHAIN" /\ address = PolyphonyMode /\ value = ChainMode THEN PolyMode ELSE value

EditMessages(s, mode, channel, address, value) ==
  LET v == Remap(mode, address, value)
  IN  (IF Selects(s, address) THEN <<CC(channel, \h63, Msb(address)), CC(channel, \h62, U7(address))>> ELSE <<>>)
        \o <<CC(channel, \h06, Msb(v)), CC(channel, \h26, U7(v))>>

-----------------------------------------------------------------------------
\* AddressToParameterId: a table for the addresses below 128.  For those above it
\* looks up entry 254 or 255 of the 192 there are; what lies there names no
\* parameter, or any one, which lends its limits.
InTable(address) == address < 128

Clamp(value, limits) ==
  CHOOSE v \in limits : \A w \in limits : (v - value) * (v - value) <= (w - value) * (w - value)

\* What a parameter may hold after it was set.
Settings(address, value, old) ==
  IF InTable(address) THEN {Clamp(value, Limits[address])}
  ELSE {old} \cup {Clamp(value, Limits[a]) : a \in Addresses}

\* One data entry: the parameter that was selected is set.
EnterData(c, value) ==
  IF c.nrpn \notin Addresses THEN {c}
  ELSE {[c EXCEPT !.values[c.nrpn] = v] : v \in Settings(c.nrpn, value, c.values[c.nrpn])}

ControlChange(c, controller, value) ==
  CASE controller = \h06 -> {[c EXCEPT !.entryMsb = IF value = 0 THEN 0 ELSE 128]}
    [] controller = \h62 -> {[c EXCEPT !.nrpn = value + c.nrpnMsb, !.nrpnMsb = 0, !.entryMsb = 0]}
    [] controller = \h63 -> {[c EXCEPT !.nrpnMsb = IF value = 0 THEN 0 ELSE 128, !.entryMsb = 0]}
    [] controller = \h26 -> EnterData(c, value + c.entryMsb)
    [] OTHER             -> {c}
=============================================================================
