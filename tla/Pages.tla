-------------------------------- MODULE Pages --------------------------------
(***************************************************************************)
(* The pages of the panel: which one is shown (src/controller/ui.cc), and  *)
(* what the encoder, the pots, the switches and the keys of the keyboard   *)
(* do on it (ui_pages/ui_page.cc, parameter_editor.cc, voice_assigner.cc,  *)
(* knob_assigner.cc, sequence_editor.cc) to the bytes of a part, of the    *)
(* multi, of the settings and of the panel itself, which control changes   *)
(* edit as well (Part::ControlChange in part.cc).                          *)
(*                                                                         *)
(* The library, the versions and the firmware update are pages that can    *)
(* only be left here (see Library and FirmwareUpdate).  Left out: the note *)
(* that the performance page plays, the contents of the steps and the      *)
(* voice cards that are assigned (see MultiVoices), the shift keys (see    *)
(* Library), and the addresses of the steps (see ParameterEdits).          *)
(*                                                                         *)
(* Bounds: the inputs of a player and how many of them there are.          *)
(***************************************************************************)
EXTENDS ParameterTable, SequencesExt

CONSTANT Players

kNumParts  == 6
kNumVoices == 6
Controls   == 0..7
More == 248       \* a control that leads to the other page of the settings
Back == 249

Page(handlers, data, next, group) ==
  [handlers |-> handlers, data |-> data, next |-> next, group |-> group]

Nothing == <<0, 0, 0, 0, 0, 0, 0, 0>>

\* Snapshots are compiled out, and with them a setting.
pages ==
  [Oscillators     |-> Page("ParameterEditor", <<0, 1, 2, 3, 4, 5, 6, 7>>, "Mixer", 0),
   Mixer           |-> Page("ParameterEditor", <<8, 13, 12, 11, 9, 10, 14, 15>>, "Oscillators", 0),
   Filter          |-> Page("ParameterEditor", <<16, 17, None, 18, 22, 23, 73, 74>>, "Filter", 1),
   EnvLfo          |-> Page("ParameterEditor", <<24, 30, 31, 29, 25, 26, 27, 28>>, "INCREMENT_ENV", 2),
   VoiceLfo        |-> Page("ParameterEditor", <<None, 32, 33, None, None, None, None, None>>, "EnvLfo", 2),
   Modulations     |-> Page("ParameterEditor", <<34, 35, 36, 37, 38, 39, 40, 41>>, "INCREMENT_MODULATION_SLOT", 3),
   Part            |-> Page("ParameterEditor", <<42, 57, 47, 48, 43, 44, 45, 46>>, "PartArpeggiator", 4),
   PartArpeggiator |-> Page("ParameterEditor", <<49, 50, 51, 52, 53, 54, 55, 56>>, "PartSequencer", 4),
   PartSequencer   |-> Page("SequenceEditor", Nothing, "Part", 4),
   Multi           |-> Page("VoiceAssigner", <<58, 59, 60, 61, None, None, None, None>>, "MultiClock", 5),
   MultiClock      |-> Page("ParameterEditor", <<62, 63, 64, 65, None, None, None, None>>, "Multi", 5),
   Performance     |-> Page("PerformancePage", [k \in 1..8 |-> 239 + k], "KnobAssign", 6),
   KnobAssign      |-> Page("KnobAssigner", Nothing, "Performance", 6),
   Library         |-> Page("Library", Nothing, "Library", 7),
   VersionManager  |-> Page("VersionManager", Nothing, "Library", 8),
   SystemSettings  |-> Page("ParameterEditor", <<66, 67, 71, 72, 68, 69, 70, More>>, "SystemSettingsB", 8),
   SystemSettingsB |-> Page("ParameterEditor", <<75, 76, 77, None, None, None, None, Back>>, "SystemSettings", 8),
   OsInfo          |-> Page("OsInfoPage", Nothing, "OsInfo", 8)]

Scrolled == <<"Oscillators", "Mixer", "Filter", "EnvLfo", "VoiceLfo", "Modulations", "Part",
              "PartArpeggiator", "PartSequencer", "Multi", "MultiClock">>
SettingsPages    == {"SystemSettings", "SystemSettingsB"}
NonSystemPages   == Range(Scrolled) \cup {"Performance", "KnobAssign"}
OfOtherModules   == {"Library", "VersionManager", "OsInfo"}
SnappingHandlers == {"ParameterEditor", "VoiceAssigner", "PerformancePage"}

default_most_recent_page_in_group ==
  <<"Oscillators", "Filter", "EnvLfo", "Modulations", "Part", "Multi", "Performance", "Library", "SystemSettings">>

Player ==
  [turns    : SUBSET ((-8..8) \ {0}),      \* increments of the encoder; 8 with the shift key
   pots     : SUBSET (Controls \X (0..127)),
   keys     : SUBSET Controls,
   others   : SUBSET {"Click", "TurnPart", "Idle"},
   notes    : SUBSET (0..127),             \* played on the keyboard
   changes  : SUBSET ((0..119) \X (0..127)),   \* control changes
   entries  : SUBSET ((0..127) \X (0..255)),   \* data entries, by address
   steps    : SUBSET ((0..127) \X {-1, 1}),    \* data increments
   listens  : SUBSET (0..(kNumParts - 1)), \* the parts that these are for
   fill     : {"min", "max"},              \* what the bytes are loaded with
   snap     : {0, 1},                      \* system_settings.snap
   count    : Nat]                         \* how many inputs there are

ASSUME PagesAssumption == \A s \in Players : s \in Player

VARIABLES
  ui,        \* .page, .cursor (active_control_), .editing (edit_mode_), .snapped, .recent
             \* (most_recent_page_in_group_), .previous (most_recent_non_system_page_), .step,
             \* .knob (active_knob_); .written is history: the pots that wrote since the page was opened
  edited,    \* the bytes that were written, by cell
  assigned,  \* knob_assignment
  kept,      \* the settings in the EEPROM
  strayed,   \* history: the bytes that a knob of the Launchkey wrote beyond the last instance
  inputs, player

pagesVars == <<ui, edited, assigned, kept, strayed, inputs, player>>

-----------------------------------------------------------------------------
\* The bytes: where they are, and what they hold.

init_settings == <<0, 0, 1, player.snap, 1, 1, 1, 0, 0, 0, 0>>

Limit(p) == IF player.fill = "min" THEN p.min ELSE p.max

LoadedByte(cell) ==
  LET id == owner[cell[1]][cell[3]]
  IN  CASE cell[1] = "UI"     -> 0
        [] cell[1] = "System" -> init_settings[cell[3] + 1]
        [] OTHER              -> IF id = None THEN 0 ELSE Limit(parameter[id])

At(cell) == IF cell \in DOMAIN edited THEN edited[cell] ELSE LoadedByte(cell)

Panel(address)   == <<"UI", 0, address>>
System(address)  == <<"System", 0, address>>
active_part      == At(Panel(ActivePart))
snap             == At(System(3)) = 1
rx_cc            == (At(System(0)) \div 8) % 2 = 0
rx_nrpn          == (At(System(0)) \div 4) % 2 = 0
settings         == [a \in 0..10 |-> At(System(a))]

\* The instance that the panel is at.
Selected(p) == IF p.indexedBy = None THEN 0 ELSE At(Panel(p.indexedBy))

\* What a control or a knob is for: a record like those of knob_assignment.
Aim(control) ==
  LET id == pages[ui.page].data[control + 1]
  IN  CASE id \in 240..247    -> assigned[id - 240]
        [] id < kNumParameters -> [part |-> active_part, parameter |-> id, instance |-> Selected(parameter[id])]
        [] OTHER               -> [part |-> active_part, parameter |-> None, instance |-> None]

CellOf(a) ==
  LET p == parameter[a.parameter]
  IN  <<Space(p), IF Space(p) = "Part" THEN a.part ELSE 0, get_address(p, a.instance)>>

Store(cell, byte) == edited' = [c \in {cell} \cup DOMAIN edited |-> IF c = cell THEN byte ELSE edited[c]]

\* By the user: value is an operator of the parameter and of its byte.
Edit(a, value(_, _)) == Store(CellOf(a), value(parameter[a.parameter], At(CellOf(a))))

-----------------------------------------------------------------------------
\* A page is opened.

Shown(page) == {c \in Controls : pages[page].data[c + 1] # None}

Longest == LET lengths == {At(<<"Part", active_part, 123 + i>>) : i \in 1..3} IN Max(lengths)

KeepsTheMask(u, page) == [u EXCEPT !.page = page, !.editing = "Idle", !.cursor = Min(Shown(page))]   \* variant

\* The handlers' OnInit.
OnInit(u, page) ==
  LET handlers == pages[page].handlers
      opened   == [u EXCEPT !.page = page, !.editing = "Idle", !.cursor = 0]
  IN  CASE handlers \in SnappingHandlers  -> [opened EXCEPT !.snapped = {}, !.cursor = Min(Shown(page))]
        [] handlers = "SequenceEditor"    -> [opened EXCEPT !.cursor = 4, !.step = Min({@, Longest - 1})]
        [] handlers = "VersionManager"    -> [u EXCEPT !.page = page]
        [] OTHER                          -> opened

ShowPage(u, page) ==
  OnInit([u EXCEPT !.previous = IF page \in NonSystemPages THEN page ELSE @,
                   !.recent[pages[page].group + 1] = page,
                   !.written = {}], page)

\* SetActiveControl, at the first control when going forward and at the last going back.
MoveActiveControl(u, by) ==
  CASE pages[u.page].handlers = "SequenceEditor" -> [u EXCEPT !.step = IF by > 0 THEN 0 ELSE Longest - 1]
    [] pages[u.page].handlers = "VoiceAssigner"  -> [u EXCEPT !.cursor = IF by > 0 THEN 0 ELSE 3 + kNumVoices]
    [] OTHER -> [u EXCEPT !.cursor = IF by > 0 THEN Min(Shown(u.page)) ELSE Max(Shown(u.page))]

ShowPageRelative(by) ==
  LET here == CHOOSE i \in DOMAIN Scrolled : Scrolled[i] = ui.page
      next == IF ui.page \in SettingsPages THEN pages[ui.page].next
              ELSE Scrolled[((here - 1 + by) % Len(Scrolled)) + 1]
  IN  MoveActiveControl(ShowPage(ui, next), by)

-----------------------------------------------------------------------------
\* The encoder and its click.

Handlers == pages[ui.page].handlers
Counted  == inputs > 0 /\ inputs' = inputs - 1 /\ UNCHANGED player
Count    == Counted /\ UNCHANGED strayed

EditsWithEncoder ==
  /\ ui.editing # "Idle"
  /\ Handlers = "ParameterEditor" \/ (Handlers = "VoiceAssigner" /\ ui.cursor < 4)

TurnToEdit(by) ==
  /\ Count /\ by \in player.turns /\ EditsWithEncoder
  /\ LET a == Aim(ui.cursor) IN
       IF a.parameter = None THEN UNCHANGED edited
       ELSE Edit(a, LAMBDA p, byte : Increment(p, byte, by))
  /\ ui' = [ui EXCEPT !.editing = "Encoder"]
  /\ UNCHANGED <<assigned, kept>>

\* The cells that show nothing are passed by steps of the same size.
Reached(by) ==
  LET at(k)   == ui.cursor + k * by
      stops   == {k \in 1..8 : at(k) \notin Controls \/ at(k) \in Shown(ui.page)}
  IN  IF Handlers = "VoiceAssigner" THEN at(1) ELSE at(Min(stops))

TurnToMove(by) ==
  /\ Count /\ by \in player.turns
  /\ Handlers \in {"ParameterEditor", "VoiceAssigner"} /\ ~EditsWithEncoder
  /\ LET last == IF Handlers = "VoiceAssigner" THEN 3 + kNumVoices ELSE 7
         to   == Reached(by)
     IN  ui' = CASE to < 0    -> ShowPageRelative(-1)
                 [] to > last -> ShowPageRelative(1)
                 [] OTHER     -> [ui EXCEPT !.cursor = to]
  /\ UNCHANGED <<edited, assigned, kept>>

TurnThroughSteps(by) ==
  /\ Count /\ by \in player.turns /\ Handlers = "SequenceEditor"
  /\ LET step == ui.step + by
     IN  ui' = IF ui.editing # "Idle" THEN [ui EXCEPT !.editing = "Encoder"]
               ELSE CASE step < 0                  -> ShowPageRelative(-1)
                      [] step >= Longest /\ by > 0 -> ShowPageRelative(1)
                      [] OTHER                     -> [ui EXCEPT !.step = Min({step, Longest - 1})]
  /\ UNCHANGED <<edited, assigned, kept>>

\* The instances of the parameters of a patch or of a part, and their places in the list.
Assignable ==
  {r \in [parameter : 0..(kNumParameters - 1), instance : 0..13] :
     /\ parameter[r.parameter].level \in {"Patch", "Part"}
     /\ r.instance < parameter[r.parameter].instances}

Precedes(r, s) == r.parameter < s.parameter \/ (r.parameter = s.parameter /\ r.instance < s.instance)

Place == [s \in Assignable |-> Cardinality({r \in Assignable : Precedes(r, s)})]

Assign(knob, to) == assigned' = [assigned EXCEPT ![knob].parameter = to.parameter, ![knob].instance = to.instance]

TurnToAssign(by) ==
  /\ Count /\ by \in player.turns /\ Handlers = "KnobAssigner"
  /\ LET a    == assigned[ui.knob]
         here == Place[[parameter |-> a.parameter, instance |-> a.instance]]
         next == {to \in Assignable : Place[to] = here + (IF by > 0 THEN 1 ELSE -1)}
     IN  IF next = {} THEN UNCHANGED assigned ELSE \E to \in next : Assign(ui.knob, to)
  /\ UNCHANGED <<ui, edited, kept>>

\* With the last key held the encoder selects a part.
TurnPart(by) ==
  /\ Count /\ "TurnPart" \in player.others /\ by \in player.turns
  /\ Store(Panel(ActivePart), Max({0, Min({kNumParts - 1, active_part + by})}))
  /\ UNCHANGED <<ui, assigned, kept>>

Toggled(u) == [u EXCEPT !.editing = IF @ = "Idle" THEN "Encoder" ELSE "Idle"]

Click ==
  /\ Count /\ "Click" \in player.others
  /\ Handlers \in {"ParameterEditor", "VoiceAssigner", "SequenceEditor", "KnobAssigner"}
  /\ LET control == IF ui.cursor \in Controls THEN pages[ui.page].data[ui.cursor + 1] ELSE None
     IN  ui' = CASE Handlers = "KnobAssigner"   -> Toggled(ui)
                 [] Handlers = "SequenceEditor" -> [Toggled(ui) EXCEPT !.cursor = IF ui.editing = "Idle" THEN @ ELSE 4]
                 [] OTHER -> IF control \in {More, Back} THEN ShowPage(ui, pages[ui.page].next)
                             ELSE IF control = None THEN ui ELSE Toggled(ui)
  /\ UNCHANGED <<edited, assigned, kept>>

-----------------------------------------------------------------------------
\* The pots, and the keys played on the page of the voices.

Snapped(control, value) ==
  LET a == Aim(control)
      p == parameter[a.parameter]
  IN  \/ ~snap
      \/ control \in ui.snapped
      \/ is_snapped(p, At(CellOf(a)), value)
      \/ p.level = "UI"

\* ParameterEditor::OnPot on a parameter; after says what the caller does to the panel.
PotEdits(control, value, after(_)) ==
  IF Aim(control).parameter = None \/ ~Snapped(control, value)
  THEN ui' = after(ui) /\ UNCHANGED edited
  ELSE /\ Edit(Aim(control), LAMBDA p, byte : Scale(p, value))
       /\ ui' = after([ui EXCEPT !.snapped = IF snap THEN @ \cup {control} ELSE @,
                                 !.cursor = control, !.editing = "Pot", !.written = @ \cup {control}])

\* The pot of the part does not take the cursor, and the last three allocate voices.
OnPotOfVoiceAssigner(u) == [u EXCEPT !.cursor = ui.cursor, !.editing = "Idle"]

PotOnControl(control, value) ==
  /\ Count /\ <<control, value>> \in player.pots /\ Handlers \in SnappingHandlers
  /\ pages[ui.page].data[control + 1] \notin {More, Back}
  /\ PotEdits(control, value,
              LAMBDA u : IF Handlers = "VoiceAssigner" /\ control = 0 THEN OnPotOfVoiceAssigner(u) ELSE u)
  /\ UNCHANGED <<assigned, kept>>

\* Turned far enough it leads to the other page, where it must be turned back.
PotOnMore(control, value) ==
  /\ Count /\ <<control, value>> \in player.pots /\ Handlers \in SnappingHandlers
  /\ \/ pages[ui.page].data[control + 1] = More /\ value >= 80
     \/ pages[ui.page].data[control + 1] = Back /\ value <= 47
  /\ ui' = ShowPage(ui, pages[ui.page].next)
  /\ UNCHANGED <<edited, assigned, kept>>

PotOnSteps(control, value) ==
  /\ Count /\ <<control, value>> \in player.pots /\ Handlers = "SequenceEditor"
  /\ ui' = [ui EXCEPT !.cursor = control]
  /\ UNCHANGED <<edited, assigned, kept>>

PotOnAssignment(control, value) ==
  /\ Count /\ <<control, value>> \in player.pots /\ Handlers = "KnobAssigner"
  /\ CASE control \in {0, 4} -> UNCHANGED assigned
       [] control \in {1, 5} -> assigned' = [assigned EXCEPT ![ui.knob].part = (2 * value * kNumParts) \div 256]
       [] OTHER              -> \E to \in Assignable :
                                  /\ Place[to] = (2 * value * Cardinality(Assignable)) \div 256
                                  /\ Assign(ui.knob, to)
  /\ ui' = [ui EXCEPT !.cursor = control, !.editing = "Pot",
                      !.knob = IF control \in {0, 4} THEN value \div 16 ELSE @]
  /\ UNCHANGED <<edited, kept>>

\* While a limit of the key range is edited, a key sets it.
NoteAsPot(note) ==
  /\ Count /\ note \in player.notes
  /\ Handlers = "VoiceAssigner" /\ ui.editing # "Idle" /\ ui.cursor \in {2, 3}
  /\ PotEdits(ui.cursor, note, LAMBDA u : [u EXCEPT !.editing = "Idle"])
  /\ UNCHANGED <<assigned, kept>>

\* A key written to a step takes the editor to the next one, in a loop of the notes' length.
NoteAsStep(note) ==
  /\ Count /\ note \in player.notes
  /\ Handlers = "SequenceEditor" /\ ui.editing # "Idle"
  /\ LET step   == IF ui.cursor >= 4 THEN ui.step ELSE ui.step - 1
         length == At(<<"Part", active_part, 126>>)
     IN  step >= 0 /\ ui' = [ui EXCEPT !.step = ((step % length) + 1) % length]
  /\ UNCHANGED <<edited, assigned, kept>>

\* After 0.8 seconds.
OnIdle ==
  /\ Count /\ "Idle" \in player.others /\ ui.page \notin OfOtherModules /\ ui.editing = "Pot"
  /\ ui' = [ui EXCEPT !.editing = "Idle"]
  /\ UNCHANGED <<edited, assigned, kept>>

-----------------------------------------------------------------------------
\* The switches.

SavesFirstPage == ui.page = "SystemSettings"          \* variant: the second page was added later

Saves == ui.page \in SettingsPages

Save == kept' = IF Saves THEN settings ELSE kept

\* The key of the page one is on leads to the next of its group, or to the next instance.
PressSame(key) ==
  LET next == pages[ui.page].next
      id   == IF next = "INCREMENT_ENV" THEN 24 ELSE 34
      cell == CellOf([part |-> active_part, parameter |-> id, instance |-> 0])
      last == At(cell) >= parameter[id].max
  IN  IF next \in DOMAIN pages THEN ui' = ShowPage(ui, next) /\ UNCHANGED edited
      ELSE /\ Store(cell, IF last THEN 0 ELSE Increment(parameter[id], At(cell), 1))
           /\ ui' = IF last /\ id = 24 THEN ShowPage(ui, "VoiceLfo") ELSE ui

Press(key) ==
  /\ Count /\ key \in player.keys /\ ui.page \notin OfOtherModules
  /\ Save
  /\ IF pages[ui.page].group = key THEN PressSame(key)
     ELSE ui' = ShowPage(ui, ui.recent[key + 1]) /\ UNCHANGED edited
  /\ UNCHANGED assigned

LeaveLibrary ==
  /\ Count /\ player.keys # {} /\ ui.page = "Library"
  /\ \E page \in {ui.previous, "VersionManager", "SystemSettings", "OsInfo"} : ui' = ShowPage(ui, page)
  /\ UNCHANGED <<edited, assigned, kept>>

LeaveVersionsOrInfo ==
  /\ Count /\ player.keys # {} /\ ui.page \in {"VersionManager", "OsInfo"}
  /\ ui' = ShowPage(ui, ui.previous)
  /\ UNCHANGED <<edited, assigned, kept>>

-----------------------------------------------------------------------------
\* MIDI, for all the parts that listen.

Listening(address) == {<<"Part", part, address>> : part \in player.listens}

StoreInParts(bytes) ==
  edited' = [c \in DOMAIN bytes \cup DOMAIN edited |-> IF c \in DOMAIN bytes THEN bytes[c] ELSE edited[c]]

\* The Launchkey's controls have other numbers than the parameters they are mapped to, so that
\* none of the instances of a bank is found, and the byte after the last is written.
Overruns(p, cc) == At(System(7)) = Launchkey /\ p.stride > 0 /\ InstanceOf(p, cc) = p.instances

ControlChange(cc, value) ==
  /\ Counted /\ <<cc, value>> \in player.changes
  /\ \E id \in ControlChangeToParameterId(cc, At(System(7))) \ {None} :
       LET p     == Definition(id)
           cells == Listening(get_address(p, InstanceOf(p, cc)))
       IN  /\ rx_cc
           /\ StoreInParts([c \in cells |-> Scale(p, value)])
           /\ strayed' = IF Overruns(p, cc) THEN strayed \cup cells ELSE strayed
  /\ UNCHANGED <<ui, assigned, kept>>

DataEntry(address, value) ==
  /\ Count /\ <<address, value>> \in player.entries
  /\ LET id == AddressToParameterId(address)
     IN  id # None /\ rx_nrpn /\ StoreInParts([c \in Listening(address) |-> Clamp(parameter[id], value)])
  /\ UNCHANGED <<ui, assigned, kept>>

DataIncrement(address, by) ==
  /\ Count /\ <<address, by>> \in player.steps
  /\ LET id == AddressToParameterId(address)
     IN  id # None /\ rx_nrpn /\ StoreInParts([c \in Listening(address) |-> Increment(parameter[id], At(c), by)])
  /\ UNCHANGED <<ui, assigned, kept>>

-----------------------------------------------------------------------------
PagesInit ==
  /\ player \in Players /\ inputs = player.count
  /\ edited = << >> /\ strayed = {}
  /\ assigned = [k \in 0..7 |->
       [part |-> IF k \in {2, 3, 6, 7} THEN 1 ELSE 0, parameter |-> <<1, 16, 1, 16, 22, 42, 22, 42>>[k + 1],
        instance |-> 0]]
  /\ kept = [a \in 0..10 |-> init_settings[a + 1]]
  /\ ui = ShowPage([page |-> "Filter", cursor |-> 0, editing |-> "Idle", snapped |-> {}, previous |-> "Filter",
                    recent |-> default_most_recent_page_in_group, step |-> 0, knob |-> 0, written |-> {}], "Filter")

PagesNext ==
  \/ \E by \in player.turns : TurnToEdit(by) \/ TurnToMove(by) \/ TurnThroughSteps(by) \/ TurnToAssign(by) \/ TurnPart(by)
  \/ \E pot \in player.pots :
       \/ PotOnControl(pot[1], pot[2]) \/ PotOnMore(pot[1], pot[2])
       \/ PotOnSteps(pot[1], pot[2]) \/ PotOnAssignment(pot[1], pot[2])
  \/ \E note \in player.notes : NoteAsPot(note) \/ NoteAsStep(note)
  \/ \E key \in player.keys : Press(key)
  \/ \E c \in player.changes : ControlChange(c[1], c[2])
  \/ \E e \in player.entries : DataEntry(e[1], e[2])
  \/ \E s \in player.steps : DataIncrement(s[1], s[2])
  \/ Click \/ OnIdle \/ LeaveLibrary \/ LeaveVersionsOrInfo

PagesSpec == PagesInit /\ [][PagesNext]_pagesVars

-----------------------------------------------------------------------------
\* Whatever a byte was set by (a pot, the encoder, a key, a control change or a
\* data entry; parameter.cc:71-157, part.cc:434-490), it is the byte of a parameter
\* and holds one of its values, those below zero included.  38 stands for the
\* external clock, a tempo below the limits.  The premise: the byte was not reached from
\* a knob of the Launchkey that is mapped to a bank, whose instance the search of
\* part.cc:472-480 does not find, so that it writes to a byte of other limits.
EditsStayInLimits ==
  \A c \in DOMAIN edited \ strayed :
    LET id == owner[c[1]][c[3]]
    IN  /\ id # None
        /\ IsLegal(parameter[id], edited[c]) \/ (parameter[id].unit = "Tempo" /\ edited[c] = 38)

\* With snap on, the first thing a pot does on a page, however the page was reached and
\* whatever the pot was used for before, changes a value by no more than the distance at
\* which it takes hold (parameter_editor.cc:172-186).
PotsDoNotJump ==
  [][\A pot \in ui'.written \ ui.written :
       LET a == Aim(pot)
       IN  snap /\ parameter[a.parameter].level # "UI"
             => Distance(parameter[a.parameter], At(CellOf(a))', At(CellOf(a))) <= Near(parameter[a.parameter])]_pagesVars

\* Outside of their pages the settings are those the EEPROM will give back, whichever
\* way the pages were left (ui_page.cc:112-115).
SettingsAreKept == ui.page \notin SettingsPages => kept = settings
=============================================================================
