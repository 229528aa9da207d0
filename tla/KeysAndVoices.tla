--------------------------- MODULE KeysAndVoices ----------------------------
(***************************************************************************)
(* The two memories of a part that plays its keys directly on several      *)
(* voices, without the pedal (Part::NoteOn, NoteOff, AllNotesOff and       *)
(* AllSoundOff of src/controller/part.cc in the POLY mode): pressed_keys_, *)
(* slot by slot (NoteStack), and poly_allocator_ (VoiceAllocator).  Both   *)
(* forget: the stack its oldest key when it is full, the allocator the     *)
(* note of its least recently touched voice; and they do not agree on what *)
(* is oldest, since a key struck again while it sounds moves to the front  *)
(* of the stack only (part.cc:738-742).                                    *)
(*                                                                         *)
(* In the code the stack has 12 slots and the allocator 6 voices at most:  *)
(* one slot more than the assumption below asks for.                       *)
(***************************************************************************)
EXTENDS VoiceAllocator

CONSTANTS KeyCapacity,  \* of pressed_keys_
          Velocities

ASSUME KeysAndVoicesAssumption ==
  /\ KeyCapacity \in Nat \ {0}
  /\ Velocities \subseteq 1..255
  /\ 2 * Size - 1 <= KeyCapacity /\ ~Cyclic

VARIABLE keys

Keys == INSTANCE NoteStack WITH Capacity <- KeyCapacity

PartInit == Keys!Init /\ AllocatorInit

\* A note that sounds keeps its voice, and its place among the voices.
PressKey(note, velocity) ==
  /\ Keys!NoteOn(note, velocity)
  /\ IF FindActive(alloc, note) = NoVoice THEN NoteOn(note) ELSE UNCHANGED alloc

ReleaseKey(note) == Keys!NoteOff(note) /\ NoteOff(note)

AllNotesOff == Keys!Clear /\ ClearNotes

AllSoundOff == Keys!Clear /\ Clear

PartNext ==
  \/ \E n \in Notes, v \in Velocities : PressKey(n, v)
  \/ \E n \in Notes : ReleaseKey(n)
  \/ AllNotesOff
  \/ AllSoundOff

PartSpec == PartInit /\ [][PartNext]_<<keys, alloc>>

-----------------------------------------------------------------------------
\* The stack of keys is sound through every insertion, removal and saturation:
\* the linked list (a leaked slot would make NoteOn write through an uninitialised
\* free_slot, a cycle would hang NoteOff's loop), the sorted array, which the
\* arpeggiator indexes, and the accessors of the oldest and the latest notes.
KeysAgree == Keys!ViewsAgree

\* The linked list implements the abstract recency stack: each operation of
\* note_stack.h is one operation of the stack it represents.
KeysAreARecencyStack == Keys!ImplementsRecencyStack

SoundingKeys == {alloc.pool[v].note : v \in {w \in Voices : alloc.pool[w].active}}

\* Though the two memories forget in different orders, no voice sounds a note the part
\* has forgotten: let go while the pedal is down, such a note would never be released,
\* for the pedal goes by the flags of the pressed keys (part.cc:364-373, 411-420).  It is
\* a close thing, since a key struck again overtakes others in the stack and not among
\* the voices, and a note may sound whose key is behind many that lost their voices.
VoicesPlayRememberedKeys ==
  LET stack == Keys!AbstractStack
  IN  \A n \in SoundingKeys : \E i \in DOMAIN stack : stack[i].note = n
=============================================================================
