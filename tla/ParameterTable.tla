--------------------------- MODULE ParameterTable ---------------------------
(***************************************************************************)
(* The table of parameters of src/controller/parameter.cc, and what a      *)
(* parameter makes of a turn of a knob, of a click of the encoder or of a  *)
(* value received by MIDI.  A value is a byte; a unit "Signed" reads it as *)
(* a number between -128 and 127.  The names and what is printed are left  *)
(* out, with the units that only differ in it.                             *)
(***************************************************************************)
EXTENDS Integers, Sequences

Byte(n) == n % 256

Signed(byte) == IF byte > 127 THEN byte - 256 ELSE byte

None == 255

\* A row of the table: level, where the byte is, unit, limits, control change; and for
\* one of a bank how many there are, how far apart, and which byte of the panel chooses.
Parameter(row) ==
  [level |-> row[1], offset |-> row[2], unit |-> row[3], min |-> Byte(row[4]), max |-> row[5], cc |-> row[6],
   instances |-> IF Len(row) = 6 THEN 1 ELSE row[7],
   stride    |-> IF Len(row) = 6 THEN 0 ELSE row[8],
   indexedBy |-> IF Len(row) = 6 THEN None ELSE row[9]]

ActiveEnvLfo     == 0      \* UiStateParameter
ActiveModulation == 1
ActiveModifier   == 2
ActivePart       == 3

Oscillator(offset, ccs) ==
  << <<"Patch", offset,     "Number", 0,   42,  ccs[1]>>,
     <<"Patch", offset + 1, "Raw",    0,   127, ccs[2]>>,
     <<"Patch", offset + 2, "Signed", -36, 36,  ccs[3]>>,
     <<"Patch", offset + 3, "Signed", -64, 64,  ccs[4]>> >>

OscillatorRows == Oscillator(0, <<16, 17, 14, 15>>) \o Oscillator(4, <<18, 19, 20, 21>>)

MixerRows ==
  << <<"Patch", 8,  "Number", 0, 63, 22>>, <<"Patch", 9,  "Number", 0, 5,  23>>,
     <<"Patch", 10, "Number", 0, 63, 24>>, <<"Patch", 11, "Number", 0, 10, 25>>,
     <<"Patch", 12, "Number", 0, 63, 26>>, <<"Patch", 13, "Number", 0, 63, 27>>,
     <<"Patch", 14, "Number", 0, 63, 12>>, <<"Patch", 15, "Number", 0, 31, 13>> >>

FilterRows ==
  << <<"Patch", 16, "Raw",    0, 127, 74>>, <<"Patch", 17, "Number", 0, 63, 71>>,
     <<"Patch", 18, "Number", 0, 2,   28>>, <<"Patch", 19, "Raw",    0, 127, 29>>,
     <<"Patch", 20, "Number", 0, 63,  30>>, <<"Patch", 21, "Number", 0, 2,  31>>,
     <<"Patch", 22, "Number", 0, 63,  3>>,  <<"Patch", 23, "Number", 0, 63, 9>> >>

Envelope(offset, unit, max, cc) ==
  <<"Patch", offset, unit, 0, max, cc, 3, 8, ActiveEnvLfo>>

EnvelopeRows ==
  << <<"UI", ActiveEnvLfo, "Number", 0, 2, None>>,
     Envelope(24, "Raw", 127, 73), Envelope(25, "Raw", 127, 75),
     Envelope(26, "Raw", 127, 70), Envelope(27, "Raw", 127, 72),
     Envelope(31, "Number", 2, 44), Envelope(29, "Number", 142, 45), Envelope(28, "Number", 19, 46),
     <<"Patch", 49, "Raw", 0, 127, 47>>, <<"Patch", 48, "Number", 0, 3, 48>> >>

ModulationRows ==
  << <<"UI", ActiveModulation, "Number", 0, 13, None>>,
     <<"Patch", 50, "Number", 0, 24, None, 14, 3, ActiveModulation>>,
     <<"Patch", 51, "Number", 0, 20, None, 14, 3, ActiveModulation>>,
     <<"Patch", 52, "Signed", -63, 63, None, 14, 3, ActiveModulation>>,
     <<"UI", ActiveModifier, "Number", 0, 3, None>>,
     <<"Patch", 92, "Number", 0, 30, None, 4, 3, ActiveModifier>>,
     <<"Patch", 93, "Number", 0, 30, None, 4, 3, ActiveModifier>>,
     <<"Patch", 94, "Number", 0, 10, None, 4, 3, ActiveModifier>> >>

PartRows ==
  << <<"Part", 112, "Raw",    0,    127, 7>>,    <<"Part", 113, "Signed", -2, 2,  None>>,
     <<"Part", 114, "Signed", -127, 127, 94>>,   <<"Part", 115, "Number", 0,  40, 95>>,
     <<"Part", 116, "Number", 0,    31,  None>>, <<"Part", 117, "Number", 0,  1,  68>>,
     <<"Part", 118, "Number", 0,    63,  5>>,    <<"Part", 119, "Number", 0,  4,  102>>,
     <<"Part", 120, "Number", 0,    5,   103>>,  <<"Part", 121, "Signed", 1,  4,  104>>,
     <<"Part", 122, "Number", 0,    29,  105>>,  <<"Part", 123, "Number", 0,  14, 106>> >>
  \o [i \in 1..3 |-> <<"Part", 123 + i, "Number", 1, 32, None>>]
  \o << <<"Part", 127, "Number", 0, 5, 107>> >>

OfPart(offset, max) ==
  <<"Multi", offset, IF max = 127 THEN "Note" ELSE "Number", 0, max, None, 6, 4, ActivePart>>

MultiRows ==
  << <<"UI", ActivePart, "Number", 0, 5, None>>, OfPart(0, 16), OfPart(1, 127), OfPart(2, 127),
     <<"Multi", 24, "Tempo", 39, 240, None>>, <<"Multi", 25, "Number", 0, 5, None>>,
     <<"Multi", 26, "Raw", 0, 127, None>>,    <<"Multi", 27, "Number", 0, 8, None>> >>

Setting(offset, max) == <<"System", offset, "Number", 0, max, None>>

\* The last two rows of the filter were added after the settings.
OtherRows ==
  << Setting(0, 15), Setting(1, 4), Setting(2, 1), Setting(3, 1), Setting(4, 1), Setting(5, 1), Setting(6, 1),
     <<"Patch", 104, "Signed", -63, 63, 108>>, <<"Patch", 105, "Signed", -63, 63, 109>>,
     Setting(7, 2), Setting(8, 1), Setting(9, 200), Setting(10, 1) >>

Rows == OscillatorRows \o MixerRows \o FilterRows \o EnvelopeRows \o ModulationRows
          \o PartRows \o MultiRows \o OtherRows

kNumParameters == 79

parameter == [id \in 0..(kNumParameters - 1) |-> Parameter(Rows[id + 1])]

-----------------------------------------------------------------------------
Number(p, byte) == IF p.unit = "Signed" THEN Signed(byte) ELSE byte

IsLegal(p, byte) == Number(p, p.min) <= Number(p, byte) /\ Number(p, byte) <= Number(p, p.max)

\* From the seven bits of a pot or of a control change.
Scale(p, value) ==
  LET range  == Byte(p.max - p.min + 1)
      scaled == Byte((range * Byte(2 * value)) \div 256 + p.min)
      even   == IF scaled >= 239 THEN 240 ELSE scaled - (scaled % 2)
  IN  CASE p.unit = "Raw" -> value [] p.unit = "Tempo" -> even [] OTHER -> scaled

Distance(p, a, b) ==
  LET d == Number(p, a) - Number(p, b) IN IF d < 0 THEN -d ELSE d

Near(p) == Byte(p.max - p.min) \div 32

is_snapped(p, current, value) == Distance(p, current, Scale(p, value)) <= Near(p)

Clamp(p, byte) ==
  CASE Number(p, byte) < Number(p, p.min) -> p.min
    [] Number(p, byte) > Number(p, p.max) -> p.max
    [] OTHER -> byte

IncrementUpTo(p, byte, by) ==                           \* variant: only one limit is looked at
  LET n == Number(p, byte) + by
  IN  IF n <= Number(p, p.max) THEN Byte(n) ELSE byte

\* A step that would pass a limit is not taken.
Increment(p, byte, by) ==
  LET n == Number(p, byte) + by
  IN  IF Number(p, p.min) <= n /\ n <= Number(p, p.max) THEN Byte(n) ELSE byte

-----------------------------------------------------------------------------
\* The parameters by control change (0 to 111), and by address (0 to 127).
midi_cc_map ==
  << 255,255,255, 22,255, 48,255, 42, 255, 23,255,255, 14, 15,  2,  3,
       0,  1,  4,  5,  6,  7,  8,  9,  10, 11, 12, 13, 18, 19, 20, 21,
     255,255,255,255,255,255,255,255, 255,255,255,255, 29, 30, 31, 32,
      33,255,255,255, 29, 30, 31,255, 255,255,255,255, 29, 30, 31,255,
     255,255,255,255, 47,255, 27, 17,  28, 25, 16, 26,255,255, 27,255,
      28, 25,255, 26,255,255, 27,255,  28, 25,255, 26,255,255, 44, 45,
     255,255,255,255,255,255, 49, 50,  51, 52, 53, 57, 73, 74,255,255 >>

midi_nrpn_map ==
  << 0,  1,  2,  3,  4,  5,  6,  7,  8,  9, 10, 11, 12, 13, 14, 15,
    16, 17, 18, 19, 20, 21, 22, 23, 25, 26, 27, 28, 31, 30,255, 29,
    25, 26, 27, 28, 31, 30,255, 29, 25, 26, 27, 28, 31, 30,255, 29, 33, 32 >>
  \o [i \in 1..42 |-> 35 + ((i - 1) % 3)] \o [i \in 1..12 |-> 39 + ((i - 1) % 3)]
  \o <<73, 74>> \o [i \in 1..6 |-> 255] \o [i \in 1..16 |-> 41 + i]

\* The map of the Launchkey stops at 63.
launchkey_cc_map ==
  << 255,255,255,255,255,255,255,255, 255,255,255,255,255,255,255,255,
     255,255,255,255,255, 16, 17, 22,   1,  6,  7, 30, 48,255,255,255,
      28,255,255,255,255,255,255,255,  28, 32,  8, 12, 13, 25, 26, 27,
      28,255,255,255,255,255, 26, 27,  28,255,255, 49,255,255, 26, 27 >>

Launchkey == 2    \* system_settings.midi_cc_map; the two others have the map of the Ambika

Dummy == 254

\* The parameters that a control change may be taken for.  64 is the pedal, and 65 reads the
\* second byte of the map that is laid out after that of the Launchkey.
ControlChangeToParameterId(cc, map) ==
  CASE map # Launchkey -> {IF cc > 111 THEN None ELSE midi_cc_map[cc + 1]}
    [] cc < 64         -> {launchkey_cc_map[cc + 1]}
    [] cc = 65         -> {midi_cc_map[2], midi_nrpn_map[2]}
    [] cc < 102        -> {None}
    [] OTHER           -> {Dummy}

dummy_parameter == Parameter(<<"Part", 0, "Number", 0, 255, 0, 0, 0, 0>>)

Definition(id) == IF id = Dummy THEN dummy_parameter ELSE parameter[id]

AddressToParameterId(address) == midi_nrpn_map[address + 1]

get_address(p, instance) == Byte(p.offset + p.stride * instance)

\* Which of the instances of p a control change is for; one too many if it is for none.
InstanceOf(p, cc) ==
  LET found == {i \in 0..(p.instances - 1) : Byte(cc - p.stride * i) = p.cc}
  IN  IF found = {} THEN p.instances ELSE CHOOSE i \in found : \A j \in found : i <= j

\* Patches and parts lie one behind the other.
Space(p) == IF p.level = "Patch" THEN "Part" ELSE p.level

IsAt(p, space, address) ==
  Space(p) = space /\ \E i \in 0..(p.instances - 1) : get_address(p, i) = address

\* The parameter a byte belongs to, or None.
Owner(space, address) ==
  LET owners == {id \in 0..(kNumParameters - 1) : IsAt(parameter[id], space, address)}
  IN  IF owners = {} THEN None ELSE CHOOSE id \in owners : TRUE

owner == [space \in {"Part", "Multi", "System", "UI"} |-> [address \in 0..255 |-> Owner(space, address)]]
=============================================================================
