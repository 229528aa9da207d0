# KZ Ambika Live: a verification development

TLA+ models of the firmware of a six-voice hybrid synthesizer: a *controller*
(`src/controller`) that turns keys, MIDI, a clock and a panel into notes and
sounds, and up to six *voice cards* (`src/voicecard`) that play them. The models
are translated from the code at this commit. TLC checks them on small
instances; TLAPS proves the theorems of the `*Proofs` modules for every value of
the constants.

Most of what is at stake in an instrument is one thing, said in many ways: a
note that starts must end. It can be lost between a key and a part, between a
part and its voice allocator, between two parts that share a card, between a
queue and the interrupt that empties it, and on a wire without acknowledgement.
The rest is what a player trusts without looking: a sound that was saved is
still there, a knob does not jump, the clock does not slip, and an update cut
off by a power failure does not make a brick of a card.

## 1. The system

| Part | State it keeps | Operations | Talks to |
|---|---|---|---|
| Note stack (`note_stack.h`) | linked list of the keys down, in a pool of slots, and an array sorted by pitch | NoteOn, NoteOff, Clear | used by Part twice: pressed keys, monophonic notes |
| Voice allocator (`voice_allocator.*`) | the note and active bit of each voice, a table of recency, a cyclic counter | NoteOn, NoteOff, ClearNotes, Clear | used by Part |
| Part (`part.*`) | pressed keys, allocators, pedal flag, generated note, clock divider, steps, settings | keys, pedal, mode messages, clock, edits, loads | calls the allocators, the card link, the MIDI dispatcher |
| Multi (`multi.*`) | the parts, the allocation of cards, the tempo, the transport | dispatch of MIDI to parts, clock, solving of allocation conflicts | calls the parts |
| MIDI parser and dispatcher (`midi/midi.h`, `midi_dispatcher.*`) | running status, bytes of the message; two output queues, address of the last edit | bytes in, bytes out, forwarding, edits as NRPN | Multi, storage, the next unit of a chain |
| Voice card link (`voicecard_tx.*`, `voicecard_rx.h`) | two queues, the turn of the interrupt; on a card, the register, the received bytes, the current message | queueing, transactions, block writes, sync; the two interrupts; Process | the wire |
| Voice card engine (`voicecard/voice.cc`, `envelope.h`) | envelopes, pitch and glide, gate, patch bytes | messages, blocks of 40 samples | the link, the audio interrupt |
| Ring buffer (`avrlib/ring_buffer.h`) | two pointers and an array | Write, Read and their single accesses | every queue between an interrupt and the main loop |
| User interface (`ui.*`, `ui_pages/*`) | the page, cursor, edit mode, which pots have taken hold, recent pages, knob assignments | encoder, click, pots, switches, keys, idle time | parameters, Multi, settings |
| Parameters and settings (`parameter.*`, `system_settings.*`) | a table of 79 parameters; the bytes they stand for; the EEPROM copy of the settings | scale, snap, clamp, increment, lookup by controller and by address | parts, multi, panel |
| Library page (`ui_pages/library.*`, `deferred_load.h`) | location, action, name, pending load | browse, save, init, dialogs, clipboard, program changes | storage |
| Storage and SysEx (`storage.*`) | files and their backups on a card, the state of a reception | load, save, bytes of a dump | FatFs, Multi |
| Firmware update (`os_info_page.cc`, `storage.cc` SpiCopy, `voicecard/bootloader`) | a flag and a count in the EEPROM of a card, its flash, the page being received | query, restart, confirmation, copy nibble by nibble | the wire, the memory card |

*Interactions.* Everything about notes and the panel runs in one main loop, one
call after the other (`controller.cc`, `main`): MIDI bytes are dispatched, the
clock is worked off, the interface is served. So an operation of a Part or of a
page is one step in the models. Concurrency is at the edges: Timer 1 (4.9 kHz)
fills the MIDI input and empties the MIDI output, Timer 2 (39 kHz) counts time
and sends one byte to a card, each card has its own timer and main loop, and
the power may fail anywhere.

*What is hard.* Long sequences of legal calls that leave two containers
disagreeing (keys, allocators, voices); settings that change between a note-on
and its note-off; the clock that owns a note the player does not; containers at
their limit; interrupts between two accesses of a queue or of a counter; a wire
with one receive register, no framing and no reply; a load put off by a timer;
one buffer shared by a reception and a file system; a save or an update cut in
half; 16-bit products in the pitch and 8-bit limits with a sign. `PROJECT.json`
(`hazards`) lists each at its line with the properties that cover it, or why
none does.

*What makes each part correct.*

- Note stack and allocator: nothing is lost or listed twice; they are the same
  abstract thing, a *recency stack* of bounded size, and although they forget in
  different orders no voice sounds a key that the part has forgotten.
- Part: with no key, no pedal and no generator nothing sounds; a voice sounds a
  note exactly when the allocator says so; a note is on one voice; last-note
  priority; the clock knows the note it owns; a stop leaves nothing behind.
- Clock: a pulse of the timer is taken once; parts do not drift apart; indices
  into keys and steps come back in range; every key gets its turn; an idle clock
  stops.
- Multi: a card belongs to one part and sounds for that part only.
- Ring buffer: a bounded queue, whatever interleaves.
- Link: each card executes the messages meant for it, whole, once, in order.
- MIDI: the next unit hears what this one heard and has the values it was sent;
  a command needs its whole message.
- Library and storage: the screen names what is loaded, a pending load is not
  lost, a save never destroys the only good copy.
- Pages: no input writes a value that is not one of a parameter's; a pot takes
  hold of a value before it moves it; settings shown are settings kept.
- Engine: a release fades, a glide arrives, a voice settles.
- Update: a card that an update has left with half a program still asks for the
  rest, a complete copy is the file, and trying again brings the card to life.

## 2. Modules

```
Recency, RecencyStack ---- abstract: a bounded stack of entries by recency
   ^              ^
NoteStack     VoicePool <-- VoiceAllocator <-- VoiceAllocatorProofs
    ^              ^              ^
    +---------- PartOps     KeysAndVoices <-- KeysAndVoicesProofs
                   ^         (both containers of a part)
                 Part <-- MCPart, PartProofs (with VoiceAllocatorProofs)
Sequencer <-- Transport <-- MCTransport;  ClockPulses <== Transport
MultiVoices, Transport <-- MultiProofs
BoundedFifo <== RingBuffer <-- RingBufferProofs          (<== : is implemented by)
CommandChannel <== VoicecardLink <-- MCVoicecardLink
MidiParser, SysExReceiver, ParameterEdits <-- MidiPort <-- MCMidiPort
CardFiles <-- Library <-- MCLibrary
Envelope <-- VoiceEngine <-- MCVoiceEngine, VoiceEngineProofs
FirmwareUpdate <-- MCFirmwareUpdate, FirmwareUpdateProofs
ParameterTable <-- Pages <-- MCPages
Library, Pages <-- PanelProofs
```

(PartOps uses Recency for the keys: what NoteStack is shown to implement.)

- **Recency / RecencyStack** say what a container of notes promises: playing a
  note puts it on top, where it was goes away, and the oldest entry goes when
  there is no room.
- **NoteStack** is `note_stack.h` slot by slot: the pool, the `next` links, the
  sorted array with its stale tail. **VoicePool** holds the operations of
  `voice_allocator.cc` as functions of an allocator record; **VoiceAllocator** is
  the state machine of one allocator under any sequence of calls.
  **KeysAndVoices** composes one of each the way a polyphonic part does.
- **PartOps** is the note path of `part.cc` as functions of a part record `p`.
  **Part** is the state machine: one action per message, edit and clock event
  that Multi hands to a part. `held` (the keys that are down) belongs to the
  player. A *setup*, chosen in `Init` and constant from then on, says which keys,
  modes and events a run explores; **MCPart** defines the setups. The other
  modules with a `setup` are built the same way, and Pages with its `player`.
- **Sequencer** is what the clock counts in a part: the divider, the step of the
  sequence, the block of the chord sequence, and the walk of the arpeggiator over
  keys and octaves. **Transport** puts the timer interrupt, the main loop, the
  transport and the parts together; the interrupt comes between any two steps
  of the main loop, also between the two stores of `tick_duration_`.
  **ClockPulses** is its promise.
- **MultiVoices** is the sharing of cards: the allocation bytes as sets,
  `Solved` and `Available` for `SolveAllocationConflicts`, the page that edits
  them, the copies the parts keep, and which part each card sounds for. The copy
  `allocated_voices_[0]` survives the loss of the last card, as in the code.
- **RingBuffer** splits `Write` and `Read` into their accesses to shared memory,
  in the order of the source. That order is also the order of the released
  binary; `buffer_` is not volatile, so it is the compiler's choice, not the
  language's guarantee.
- **VoicecardLink** is the wire from the queues of the controller to the
  messages of the cards. A byte is named after the command it stands for, and
  the arguments of messages are chosen to look like commands. The main loop of
  the controller works off `todo`, the single steps of the current request.
  **CommandChannel** is its promise.
- **MidiParser**, **SysExReceiver** and **ParameterEdits** are functions of the
  parser, of the reception and of an edit's two ends; **MidiPort** connects
  them with the two output queues, the interrupt that empties them and the
  next unit, which has a parser and edits of its own.
- **CardFiles** is a load and a save step by step, with what the card holds after
  each step. **Library** is everything that works on one location: the page,
  its deferred load, the dialogs, the clipboard, the page of versions, program
  changes, the card's removal and power failures.
- **Envelope** and **VoiceEngine** are the envelope, the glide, the gate and the
  amplifier of a voice card in the widths of the code, block by block. The
  tables of the code are entries of its generated data.
- **FirmwareUpdate** is the protocol of an update with both ends: the page and
  SpiCopy on the controller, the bootloader on the card, its EEPROM flag, and a
  flash whose bytes are `old`, `new` or `bad`.
- **ParameterTable** is the table of parameters, all 79 rows, with what a
  parameter makes of a pot, of a click or of a received value, and the lookups by
  controller and by address. **Pages** is the panel: the registry of pages, the
  cursor and the edit mode of every page, and what each input writes.
  `edited` holds the bytes that were written, in cells named by where they are;
  `ui.written` is history (the pots that wrote since the page was opened).

Definitions whose comment says *variant* are plausible mistakes (a dropped
guard, a swapped order, a missing reset). Nothing uses them; substituting one
for the definition after it makes one property fail, and `PROJECT.json`
(`mutants`) says which. They show that the property depends on the code.

## 3. What the runs check

Run them in this directory, for example `tlc -config Part.cfg MCPart`. Times are
for two workers.

| Run (time) | Instance | What it shows |
|---|---|---|
| `KeysAndVoices` (1 min) | 3 slots, 2 voices, notes 0..3, 2 velocities | List, sorted array, slots and accessors agree through saturation, retrigger and release in any order; a note-off finds the voice that sounds its note; both containers are recency stacks; every note that sounds is a key the part remembers. |
| `Part` (2 min) | eight setups: direct keys in every mode, a chain, arpeggio and note sequence, chord direction, chord sequencer, edits of keys' settings, edits of modes, latch | The seven properties of a part below. |
| `MultiVoices` | 3 parts, 2 cards, POLY and SOLO | Cards are never shared; a card sounds only for its owner (`strays`: but for a card that a SOLO part without cards has played on). |
| `RingBuffer` | 4 slots, 3 values | Every interleaving of the accesses of both sides is a queue. |
| `VoicecardLink` (2 min) | cards 0 and 1, queues of 3, blocks of 2 bytes, 3 requests | Each card executes its messages whole, once, in order; answers are the prepared ones; no request blocks for ever. |
| `Transport` (1 min) | four setups: hand-over of pulses, two parts, an arpeggio of 3 keys under every edit, the chord sequence | No pulse lost or taken twice; parts stay in step; indices in range; every key played; an idle clock stops. |
| `MidiPort` (2 min) | forwarding in three modes, programs, the sequencer, edits of two parts that share an address, receptions of SysEx | The next unit hears the same and ends with the same values (`astray`: but for those of an edit whose address was left out); a command needs its whole message. |
| `Library` (1 min) | two parts, three slots; browsing, saving, the card taken out and put back, program changes, power failures | The slot shown is the one loaded (`ProgramsAreThere`: the files of program changes exist); a pending load is not lost (`OnlyTheEncoderMoves`: no part is selected and no program arrives meanwhile) and does not stay pending; a save cut off leaves a whole file (`Answers`: the card was not out unnoticed). |
| `VoiceEngine` (30 s) | 3 notes, 3 messages, segments of one to a dozen blocks, 16-bit arithmetic | A release only fades; a glide never passes its target; the voice settles. |
| `FirmwareUpdate` (30 s) | a file of 8 or 10 bytes in pages of 4, 2 power cuts, 1 removed card, 1 stray screen | An update cut off leaves the card asking for the rest, and no half program passes for a working one (as far as it stops before the end of its `Init`, see below); a program run after a complete copy is the file; trying again revives the card. |
| `Pages` (1 min) | fourteen setups of inputs, on bytes at their least and at their greatest, two of them with the knobs of a Launchkey | Every byte written is a parameter's and within its limits (`strayed`: but for those a Launchkey knob writes past the last instance); with snap on no pot jumps; settings are saved when their pages are left. |
| `MidiHostEdits` (violation) | an edit of a step of the sequence | Section 5. |

*The properties of a part.* `NoStuckVoice` (no key and no pedal, no sound, here
and on the chained unit; no key of an arpeggio, no note of it),
`VoicesMatchAllocator`, `NoteOnOneVoice`, `MonoSoundsTop`,
`GeneratedNoteIsTracked` (the clock owns at most one note and knows which),
`StepSoundsPressedKeys` (a key turned off in the latch mode ends at the next
step) and `StopReleasesEverything`. Where a property is restricted, the
restriction is a named premise of its statement, and the departures below say
why: `SettingsKept` (nothing edits what a note-off is filtered by),
`CyclicNotesAreTold` (CYCLIC mode does not play notes 0 and 127), `KeysFit`
(the player has no more keys than the part remembers), `KeysCoverVoices` (or the
part remembers one key fewer than twice its voices: eleven for six voices, and
`pressed_keys_` has twelve places), `ChainIsPlayed` (keys played directly on two
chained units with as many voices each, none of them forgotten).

*Histories.* Four variables follow what the code does wrong, so that the property
next to it holds of everything else, before and after: `strays` (MultiVoices) the
cards last triggered by a SOLO part that had none; `told` and `astray` (MidiPort)
what each part of the next unit was last told the address of, and the parameters
that an edit without its address has spoilt, until they are edited with it;
`strayed` (Pages) the bytes a Launchkey knob wrote behind the last instance of a
bank. No action is guarded by them.

*Bounds.* Containers have two or three places for 7 or 12, and one or two voices
for six: each meets more notes than it holds, and every path (idle voice, steal,
retrigger, full stack) is taken; no operation distinguishes a larger container
from these. `KeyCapacity` is 3 because that is the least that covers two voices
(`KeysCoverVoices`, and the assumption of KeysAndVoices; with 2 TLC finds a
voice whose key is forgotten), and the first setup has four keys. Six voices
need eleven of the twelve slots. Notes are real MIDI numbers in Part because the
code clips at 0 and 127 and adds octaves. Nothing in Part counts, so its state
space is finite without a bound. The two units of the chain have one voice each,
so that three keys make the second one steal. `RxSize` = 2 bounds the bytes a
card has received and not processed (256 in the code, which the 39 kHz interrupt
cannot fill within the milliseconds a card takes to get to `Process`). Rings of
3 bytes for 31 make `Write` wait within one message. The durations of Transport
are a few ticks instead of hundreds, with a low byte of two values, so that a
torn read of the two bytes occurs. `backlog` bounds the pulses not yet worked
off (the 8-bit count wraps after 2.6 s at the fastest tempo, and the main loop
comes round before). MidiPort bounds the length of a message and the room of the
low-priority queue, whose overflow the code does not notice (section 5).
Library, VoiceEngine, FirmwareUpdate and Pages bound the number of events: a
history of six or seven events covers a load, a change of object, a save and a
failure in any order; three messages between blocks, every pair of stages and
settings; two power cuts, a failure during recovery from a failure. Pages of
four bytes sent by units of two keep the page-boundary and the partial last page
of the update.

*Deadlock* is checked except in Library, MidiPort, MidiHostEdits and Pages,
where the bounded supply of events runs out.

*Fairness.* `Transport!FairSpec`: the main loop turns (weak), and the timer
interrupt, which is enabled whenever the backlog bound allows, fires (strong).
`EveryKeyIsPlayed` assumes in its statement that an external clock goes on and
that the player leaves keys and settings alone; `IdleClockStops` that no start
message comes. `VoicecardLink!Spec`: the main loop and timer of the controller,
and timer, main loop and block loop of each card; nothing makes a request come.
`Library!FairSpec`: the main loop turns and time passes. `VoiceEngine!FairSpec`:
the audio interrupt keeps making room for a block. `FirmwareUpdate!FairSpec`:
the two processors do not stop; that the player tries again is the premise of
`PatienceRevivesTheCard`, not an assumption of the specification. The player
owes nothing anywhere else.

*Timing assumptions of the link.* The protocol has no handshake, so the model
turns the times the code relies on into guards, each named at the head of
`VoicecardLink.tla`: a card looks at its register before the second tick after
a byte arrives (both timers run at 39 kHz, out of phase; this is what `flop`
makes room for); 1 ms empties the register; 5 ms empties the queues and lets
the card finish a block of samples and its input; the loop of a block write
keeps up with the wire; and the callers of a transaction take more than a tick
to come back to code that queues bytes. Under these, and from a start in the
middle of any message to either card, the refinement holds; without the turns of
`flop` it fails, and without the 5 ms both the refinement and
`AnswerIsPrepared` do.

*Timing assumptions of the update*, at the head of `FirmwareUpdate.tla`: a card
that waits for a byte has taken it before the next is sent, restarts within the
100 ms the page waits, and writes a page within a pause of 15 ms (and so within
the 100 ms). An image that
is not whole is assumed to stop before the end of `Init()`, where the
application clears the flag: a torn image that got that far and then could not
talk would be beyond recovery over the wire.

## 4. What is proved

All proofs are checked by tlapm with Z3, Zenon and LS4.

- **VoiceAllocatorProofs**, for any number of voices up to 127 and any note
  range. The inductive invariant is `WellFormed`: the types, the table is a
  permutation of the voices, and (LRU mode) a note is remembered by one voice.
  The permutation is needed to know that the voice NoteOn chooses exists and
  that `Touch`, which shifts the table over itself, moves exactly one place; one
  voice per note then rests on `Find` returning the first match, and on the fact
  that `NoteOn` writes a note only to the voice that has it or when none has.
  `AllocatorTypeCorrect`, `LruStaysPermutation`, `EachNoteOnOneVoice`,
  `NoteOffReleasesItsNote`. `VoicesAreARecencyStack` is the refinement of
  RecencyStack in LRU mode: the notes that sound are the active entries of the
  table, in its order. Writing a voice and touching it takes its entry out of the
  sequence and puts the new one in front (`TouchedSounding`); one voice per note
  says that nothing else of the note is left behind, and an active voice with
  another note is only chosen when all are active, when it is the last of the
  table (`StolenIsLast`): the entry the abstract stack drops. The active entries
  of a table are a recursive function of its length, so their laws (of a
  concatenation, of one entry) are inductions over places.
- **PartProofs**, for every setup: any keys, ranges, scales, numbers of voices,
  modes, octaves, sequences and events, and any capacities. `PartInv` is the
  types and, for the containers that the mode uses, that what a voice was last
  told is what its slot has (`VoicesMatchAllocator` alone is not inductive:
  a note-off finds its voice only in a well-formed allocator, and writes to
  it only if slots do not share voices, which `PartOK` says of each mode). Each
  function of PartOps keeps it, loops included: a loop over keys is a walk along
  an order of the keys, whose length is the induction variable of a recursive
  function, so that a lemma on its body suffices (`CallForEachKeeps`,
  `CallForEachReaches`). `PartTypeCorrect`,
  `VoicesAgree`, `NoteSoundsOnce`, `LastNotePriority`, `StopReleases`.
  `PartInv` holds of a part that has forgotten a note as well as of one that
  has not. `KeysInv` says the rest, under the premises above: the set of notes
  that are on (`NotesOn`, read from the stack or from the slots) is that of the
  note the clock has played (`Tracked`) or of keys the part remembers
  (`Remembers`), and a remembered key is down or flagged under the pedal
  (`Known`). What a function does to that set (`Moved`) is proved first, and
  what it does to the keys after it. `GeneratedNoteTracked`,
  `ArpeggioFollowsKeys`, and `NoNoteIsStuck`, which is `NoStuckVoice` as the run
  checks it. Two of its cases need more than `Remembers`.
  *More keys than the part remembers* (`KeysCoverVoices`): the part forgets the
  key played first while a voice may still sound it. `Covered` says it does not:
  for each note that is on, its *rivals*, the keys played after it that are no
  longer on together with the notes that were given a voice before it, are fewer
  than the voices. A key forgotten has a full `pressed_keys_` above it; those keys
  are rivals or have voices of their own, and there are too many of them for the
  note to be on still.
  *The next unit of a chain* hears only what this unit's allocator, twice as
  large as its voices, places beyond them. `Chained` says that the next unit plays
  exactly the notes of these far slots, each once and in the same order of recency;
  so when this unit steals a far slot, the next one, which is full then
  (`FarNotesFit`), steals the voice with the same note (`StolenWhenFull`).
- **KeysAndVoicesProofs**, for any number of slots, voices and notes. That the
  views of a note stack agree is not inductive: it says nothing of where the
  links go. `IsStack` names the slots in the order of the links: there is a
  sequence `L` of slots such that the links from the root go through `L` and
  every other slot is empty (`Linked`), no note is in two of them
  (`NotesDiffer`), and the array lists exactly them, by pitch (`Ranked`). Each
  operation is then an insertion in front of `L`, or the removal of one place of
  it, and the walks of the code (recursive functions) are inductions over `L`.
  Saturation is a removal of the last place followed by an insertion; a note
  played again, of its own place. `StackViewsAgree`, and
  `KeysAreRecencyStack`, the refinement of RecencyStack. `VoicesPlayKeys` needs
  both containers at once. A key struck again while it sounds goes to the top of
  the stack and stays where it is among the voices, so the two are not in the same
  order. `Remembered` counts instead: for a voice that sounds, the notes above its
  key in the stack that no longer sound are no more than the places its voice has
  moved back in the table, because each of them lost a voice since. When the stack
  is full and drops its oldest key, all the others are above it: if it still
  sounded, at most one fewer than the voices would sound above it and at most as
  many would not, too few for `2 * Size - 1 <= KeyCapacity` (`StruckRemembered`).
- **MultiProofs**, sharing of cards, for any number of parts and cards. `SolvedDisjoint`
  says the sets left by `SolveAllocationConflicts` do not intersect; the
  invariant is the type, the disjointness, and that the copies are the
  allocation, the first card of a part that has any among its own (`FirstIsOwn`:
  that is the card a SOLO part plays on). `TypeCorrect`, `NoCardIsSharedByParts`,
  and `NotesStayOnTheirPart` for every set of modes; the cards in `strays`, which a
  SOLO part without cards has played on, are left out of what it says.
- **RingBufferProofs**, for any size and any values. The invariant is the type,
  `ChecksStayTrue` and `ValuesAreWhole` (a value stored and not yet
  published is in its slot; a value loaded and not yet released is still
  there). Each access is then a step of the abstract queue or a stutter.
  `TypeCorrect`, `ChecksHold`, `IsFifo`.
- **MultiProofs**, clock, for any tempos, grooves, backlogs and numbers of parts.
  `PulseInv` says what the main loop holds between the lock and the end of its
  work; with it every step is one of ClockPulses or a stutter, the song position
  included (`PositionAdvances` is the arithmetic of tick and step):
  `PulsesAreNotLost`. `PartsInv` says that parts of one resolution have equal
  dividers and that the main loop is not in the middle of them:
  `PartsNeverDriftApart`. Between two steps the key the arpeggiator stands on may
  be gone and its octave above those now set; `CountsInv` keeps only that the
  octave is below a number of octaves once set. A step that leaves the keys goes
  to the first or the last one, and one that leaves the octaves as well turns or
  starts again (`TurnInRange`, `StepInRange`); the counter of the chord sequence,
  a byte, is compared before it is used: `StepsStayInRange`.
- **PanelProofs**, first the library, for any card and any number of parts,
  banks and slots. `SaveKeeps` follows the file and its backup through the steps
  of one save; `PlaceInv` says that the location of a save is a place of the
  card and not that of a clipboard: `SavesAreRecoverable`, of every save the
  card `Answers`. `ScreenInv` is what a page that shows a slot has to have: a
  load that is pending, or the slot loaded, or a page that will be read again,
  and, where program changes arrive, a file behind each of them
  (`ProgramsAreThere`): `ShowsWhatIsLoaded`. `PendingInv` says that a pending
  load keeps its page open and its location the chosen one, because each way of
  leaving flushes the load first; selecting a part or receiving a program does
  not, which `OnlyTheEncoderMoves` excludes: `PendingLoadsAreDone`.
- **PanelProofs**, then the other pages, for any inputs (every turn, every pot
  and value, every control change, data entry, key and note), any number of them
  in any order, and either fill of the bytes. Here the table carries the proof.
  Its 79 rows have limits in order, in the widths of the code (`WellPlaced`); an
  address that a parameter occupies in its space is no other's (`AddressTells`),
  so `owner` gives the parameter back; and the maps of MIDI lead to parameters
  of a part, at an instance that they have (`ControllersReach`,
  `LaunchkeyReaches`) unless a knob of the Launchkey overruns them. What a pot,
  a click or a received value makes of such a byte is a value of the parameter
  (`ScaleHolds` and its like: the product of 8 bits, the sign, the byte that
  wraps). The inductive invariant is `PagesIInv`: every byte written belongs to
  a parameter and is one of its values; the knobs turn parameters of a patch or
  a part (else a turned knob might write a setting from outside of its pages);
  the cursor is on a control of its page; a pot that has taken hold has written
  since the page was opened; and outside of their pages the settings are kept:
  `EditsStayLegal`, `SettingsReachTheEEPROM`. `PotsTakeHold` follows for each
  step from the invariant: a pot that writes for the first time was not yet in
  the mask, so what it wrote was close to what it found, and the write did not
  change what the pot aims at.
- **VoiceEngineProofs**, for all pitches, settings and speeds. `GlideInv` says
  that the increment points at the target and is not zero before it is reached,
  which needs the sign of a truncated product (`IncrementHasDirection`):
  `GlideNeverOvershoots`. `EnvInv` says that a release stage starts where the
  envelope stands and ends at zero; that the curve rises with the phase does
  the rest: `ReleasesFade`.
- **FirmwareUpdateProofs**, for any sizes of page, file and flash and any number
  of failures. `CutInv`: while the program is not whole the flag is set, and the
  card is in the boot loader's loop or on its way there. The flag stays until
  the loop is left, and a page is written in the loop only:
  `HalfAProgramIsNotStarted`. `CopyInv` relates the two ends, which share no
  clock and no position. Before the first byte the controller does not know what
  the card is doing: it may sleep, count resets, or still be in a transfer that
  was cut off. The size of a page in the reply to the confirmation tells: a card
  that gives it is at its start (`Confirmation`, `Opening`), and a first byte
  whose answer is not the expected one ends the copy. From then on the count of
  the controller is the place of the card, give or take the half byte in the
  register (`InStep`), and what the card has is the file; the counts agree with
  each answer modulo 256 only, and a write of a page is over within the pause.
  `PageSize > 1` is assumed because the first byte is stored without asking
  whether the page is full (bootloader.cc:104): `CompleteCopies`.

Assumptions are those of the modules, named (`AllocatorAssumption`,
`TransportAssumption`, ...) and evaluated by the runs.

*Only model-checked.* All liveness (`EveryKeyIsPlayed`, `IdleClockStops`,
`MainLoopReturns`, `SettlesInTheEnd`, `VoiceSettles`, `PatienceRevivesTheCard`),
which the prover does not do. The refinement of the command channel by the link and
its `AnswerIsPrepared`: that four sync bytes bring a card back to the start of a
message, and that a request leaves it there, is a fact about how any sequence of bytes
is cut into messages (`Messages`) and how any list of messages is laid out (`Steps`),
an induction over data that the prover does not do either. The same holds of the
properties of the MIDI port, whose walks over bytes are recursive.

## 5. Where the code departs from what it says

Shown by a run: `MidiHostEdits`. `AddressToParameterId` (parameter.cc:1052) was
given a shortened table and looks up entries 254 and 255 of 192, of which 128
have a value, for every address from 128 on. What a host sends for a step of a
sequence is clamped by whatever follows the table.

Met while modelling; the properties leave these cases out by a named premise, or the
setups do, and say so.

*Notes.*

- In the latch mode with the chord direction, a key turned off leaves
  `pressed_keys_` without a note-off (part.cc:350) and later steps only release
  the keys still there: it sounds on.
- A change of sequencer mode restarts the part at the next step, which forgets
  `previous_generated_note_` (part.cc:664) without ending it.
- A SOLO part without cards plays on the card it last had, which may belong to
  another part (part.cc:731).
- A note-off is filtered by the raga, range and channel of *now* (part.cc:366):
  changed under a held key, the note hangs. So it is with *reset all
  controllers* under the pedal (part.cc:586) until the pedal moves again.
- The MIDI mono and poly messages change the mode without rebuilding the
  allocator that goes with it (part.cc:592-601).
- The CYCLIC mode frees a voice to note 0xff & 0x7f = 127 and clears to 0
  (voice_allocator.cc:107): these notes alias freed and cleared voices.
  Aftertouch in CYCLIC reaches the first half of the voices only (part.cc:517).
- In chain mode, a generated note that was forwarded is not ended when the last
  key goes up (part.cc:392 silences the local voices only), and a stop of an idle
  clock is not told to the next unit.
- A chain needs a next unit with as many voices as this one. With more, the next
  unit keeps a note that this one believes stolen, and does not get its note-off;
  with fewer, a note retriggered under the pedal can stay there. And as its
  allocator has twice as many slots, a chain of four voices or more has more notes
  than `pressed_keys_` remembers, twice six less one: a key forgotten under the
  pedal is not released when the pedal goes up.
- UNISON_2X with an odd number of voices, three or more, gives two of its slots
  the voice 0, which then follows neither.
- An arpeggiated chord with more keys than are remembered ends only the
  remembered ones at the next step. A change of the direction of the arpeggiator
  and a start message forget the generated note while it sounds.
- A note struck again while it sounds is not touched in the recency table
  (part.cc:739), but moves to the front of `pressed_keys_`: it may be stolen before
  older ones, and the two memories of the keys rank them differently. (It sounds
  while its key is up under the pedal, in the latch mode, and when the same key
  comes twice, from two keyboards on a channel.)
- Blocks of the chord sequencer accumulate while the pedal is down (part.cc:924).
- `AllNotesOff` in the chord direction clears the keys before it ends them on
  the MIDI output (part.cc:567, 576): note-offs are missing there.

*Clock.* A synced LFO divides by a duration that is zero until the first pulse
(part.cc:640); `lfo_refresh_counter_` is read, changed and written by the main
loop while the interrupt does the same (multi.cc:241); the table of a groove is
recomputed in the middle of one; the check of the mode in `Part::Clock` is
dead.

*MIDI.* `OnEdit` remaps polyphony mode 4 for the next unit, which has been
CYCLIC since SOLO was inserted; CHAIN is 5 and is passed on
(midi_dispatcher.h:300). The same address on another part's channel is sent
without selecting it again (midi_dispatcher.h:303), and then reaches what that
part was last told of, if anything: `EditsReachTheNextUnit` leaves out what such
an edit has spoilt. A realtime byte inside a message is forwarded with what was
received of it (midi.h:183), and a program load in FULL or CHAIN cuts a SysEx
message that is being forwarded byte by byte. The output is written without
looking at the room left (midi_dispatcher.h:211). F1 waits for two data bytes;
F7 is followed by an extra zero; a whole program dump (command 3) is copied to a
null pointer. With the Launchkey map, a controller that is mapped to a bank and
has none of its numbers runs off the instances (part.cc:472-480; CC 27 writes
address 53), which `EditsStayInLimits` follows in `strayed`; 65 is looked up
past the end of that map of 64 (parameter.cc:1033), which leads to a legal byte
with whatever map comes next; and from 102 on the dummy parameter sets the
waveform of oscillator 1 to 0.

*Library and storage.* The name on the screen is stale when the encoder is
turned forth and back before the delay is over (library.cc:113;
README.md:44-46). A pending load is lost when the part is changed, or when a
program change arrives, which also moves the target of a save; a program change
that fails has moved the location without telling the page. The init dialog
initialises the part selected by then. `Save` does not return write errors, and
`Swap` ignores those it gets. A power failure in a second save after an
interrupted one loses the only good backup. Nothing tells the driver that the
card was out (mmc.c has no switch to ask): the first call that finds it
uninitialized fails. When that is the `Unlink` and `Rename` of a save
(storage.cc:536, 539), whose results are not looked at, `File::Open` then
initializes the card, tries again (file.cc:55-64) and empties the old file, of
which there is no backup: cut off there, a save loses both. This is what
`Answers` leaves out of `KeptCopySurvives`. The multi in the EEPROM is written
block by block. In save mode the first four switches can write `name_[-2]` and
`name_[-1]`.

*Panel.* `snapped_` survives a change of part, of instance, of program or of the
value by other means, so that a pot that has taken hold once may jump later:
`PotsDoNotJump` is about the first time since the page was opened. With snap on,
a key that is to set a limit of the key range goes through `OnPot` and is
ignored unless it is near (voice_assigner.cc:97), and then frees the pot. A pot
sets the tempo to 38, below its least value 39, which is shown and taken as the
external clock. The note of the performance page runs out of 0..127 by steps of
eight (performance_page.cc:39-51) and sounds on when the page is left.
`RandomizeRange` looks past the table for steps of a sequence (part.cc:228).
Changes that compensate each other pass the 8-bit sum that protects the settings.

*Voice card.* An LFO in MASTER mode goes on retriggering an envelope after its
release (voice.cc:853); Kill leaves the gate open; Reset keeps the target and
the increment of a glide; the glide stands still while the amplifier is below 2;
settings take effect when a stage begins.

*Update.* A failed open, with the memory card pulled, leaves the voice card
counting: the bytes of the version query are then written as firmware, the next
attempt starts them, and five power cycles bring the card back (the comment at
bootloader.cc:70 says "After 3 unsuccessful boots"; the code waits for five). A
read error inside SpiCopy is ignored (storage.cc:663): with the card pulled it
does not end. The controller's own boot loader clears its flag before it copies.

## 6. What is not modelled

`PROJECT.json` (`components`) goes through all of them:

- *Signal generators, mixer and filter paths* (`oscillator.cc`, `sub_oscillator.h`,
  `transient_generator.h`, the rest of the modulation matrix): arithmetic sample
  by sample on wave tables, without control state that a history could break.
- *Generated tables* (`resources.cc`, `wavetables.cc`, their `resources-bak`
  copies): data. The entries that matter to a model are given to it as constants.
- *Display, LEDs, diagnostics*, formatting of names and values: output only.
- *The event queue of the panel* with its two producers (event_queue.h:58): the
  hazard is listed; the pages take the events in the order they are handled.
- *What is inside a file*: chunks, dumps sent, what an accepted command writes.
- *In the link*: the card socket that borrows the bus, and a restart of the
  controller in the middle of a block, from which four sync bytes do not realign
  a card.
- *In the parts*: tuning, legato and spread, LFO shapes, mutes; in the pages: the
  note of the performance page, the contents of steps and the addresses of steps.
- *FatFs, EEPROM and SD drivers*: of FatFs the models have what unlink, rename
  and open do to the files and when they reach the card, of the rest a byte
  transfer; *the boot loader of the controller* and *the nunchuk board* are
  separate programs.

The share of the code that is generated data, third-party drivers, formatting
and signal arithmetic is more than two thirds of its lines; the models are
about the rest.

## 7. Plan

Done, in this order: containers, parts, sharing of cards, ring buffer and link;
then clock and arpeggiator, MIDI port, library and storage, voice engine, firmware
update, parameters and pages, with the proofs of section 4.

Next, by what can go wrong most:

1. *Proofs*: what section 4 leaves to the runs, as soon as a prover does induction over
   sequences; the timing of the two queues (a card has taken a byte before the next
   one is sent to it) does not need it and would come first.
2. *Event queue*: two producers and a flush on one ring, with the interrupt
   between any two accesses; an abstract bag of events.
3. *Contents of a file*: the chunks of a load that is cut off between two objects,
   and of a dump that is applied while a part plays.
4. *LFOs and the modulation matrix* of a card, as far as they feed back on
   envelopes (the MASTER mode of section 5).
