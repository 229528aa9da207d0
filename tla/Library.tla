------------------------------- MODULE Library -------------------------------
(***************************************************************************)
(* The library page (src/controller/ui_pages/library.cc), the load it puts *)
(* off until the encoder is still (deferred_load.h), the page of versions  *)
(* and the shift keys (version_manager.cc, ui_page.cc), and the program    *)
(* changes that come by MIDI (midi_dispatcher.h), which all work on one    *)
(* location and one card (CardFiles).                                      *)
(*                                                                         *)
(* The main loop takes what MIDI brings, then the events of the panel; at  *)
(* the end of its turn it loads what is due and draws the screen.  busy    *)
(* says that this turn has taken an event.  Snapshots are compiled out     *)
(* (DISABLE_SNAPSHOT), so that there are no versions to go back to.        *)
(*                                                                         *)
(* Nothing tells the driver that the card was taken out (SOCKINS is 1 in   *)
(* mmc.c): it learns it from a file that does not open, and File::Open     *)
(* then initializes the card and tries once more.  Unlink and Rename do    *)
(* not.                                                                    *)
(*                                                                         *)
(* Bounds: Banks, Slots and NumParts (26, 128 and 6 in the code); the      *)
(* events of a setup and how many of them happen.                          *)
(***************************************************************************)
EXTENDS CardFiles, FiniteSetsExt

CONSTANTS Banks, Slots, Setups

Places     == Objects \X (0..(Banks - 1)) \X (0..(Slots - 1))
Clipboards == Objects \X {-1} \X {0}

Blank == <<"blank">>      \* names that are not those of a file
Typed == <<"typed">>
Junk  == <<"junk">>

Setup ==
  [events  : SUBSET {"Turn", "Click", "Part", "Object", "Save", "Init", "Leave", "Clipboard",
                     "Program", "Card", "Crash", "Edit"},
   count   : Nat,                 \* how many events there are
   delay   : Nat,                 \* browse_load_delay_ms, in units of time
   backups : BOOLEAN,             \* autobackup
   listens : SUBSET Parts,        \* the parts that a program change is for
   empty   : SUBSET Places]       \* the slots without a file

ASSUME LibraryAssumption ==
  /\ {NumParts, Banks, Slots} \subseteq Nat \ {0}
  /\ \A s \in Setups : s \in Setup

VARIABLES
  page,       \* active_page_: "library", "versions" or "other"
  dialog,     \* the dialog box in front of it, "none", "init" or "error"
  action,     \* action_: "browse" or "save"
  editing,    \* edit_mode_ is EDIT_STARTED_BY_ENCODER
  control,    \* active_control_: 0 the bank, 1 the slot, 2 a letter of the name
  location,   \* location_; named tells that its name points to name_
  name,       \* name_: the place whose name it is, Blank or Typed
  isBuffer,   \* is_edit_buffer_
  loaded,     \* loaded_objects_indices_
  armed,      \* deferred_load_.armed_
  still,      \* the time since armed_at_
  dirty,      \* name_dirty_
  active,     \* ui.active_part()
  data,       \* the memory
  files, card,\* the card, "in" or "out"
  driver,     \* "off" (no volume since power on), "lost" (Init failed), "on", or "stale"
              \* (it takes a card that has been out since for an initialized one)
  busy,       \* an event was taken in this turn of the main loop
  changed,    \* FLAG_HAS_CHANGE
  chosen,     \* history: the location the encoder was turned to
  left, setup

browser == <<page, dialog, action, editing, control, location, name, isBuffer, dirty, active>>
pending == <<armed, still, chosen>>
memory  == <<data, loaded, changed>>
sd      == <<files, card, driver>>
vars    == <<browser, pending, memory, sd, busy, left, setup>>

Index(object, part) == IF object = "MULTI" THEN <<object, 0>> ELSE <<object, part>>
Indices == {Index(o, p) : o \in Objects, p \in Parts}

IndexOf(l)  == Index(l.object, l.part)
PlaceOf(l)  == <<l.object, l.bank, l.slot>>
BankSlot(l) == <<l.bank, l.slot>>
IsLoaded(l) == BankSlot(l) = loaded[IndexOf(l)]

Clip(x, low, high) == IF x < low THEN low ELSE IF x > high THEN high ELSE x

Init ==
  /\ setup \in Setups /\ left = setup.count
  /\ page = "other" /\ dialog = "none" /\ action = "browse"
  /\ editing = FALSE /\ control = 1
  /\ location = [object |-> "PROGRAM", part |-> 0, bank |-> 0, slot |-> 0, named |-> FALSE]
  /\ name = Blank /\ isBuffer = FALSE
  /\ loaded = [i \in Indices |-> <<0, 0>>]
  /\ armed = FALSE /\ still = 0 /\ dirty = FALSE /\ active = 0
  /\ data = [c \in AllCells |-> <<"start">>]
  /\ files = [p \in Places \cup Clipboards |->
                [backup |-> Missing,
                 file   |-> IF p \in setup.empty \cup Clipboards THEN Missing
                            ELSE [name  |-> p,
                                  cells |-> [c \in {InFile(p[1], d) : d \in Cells(p[1], 0)} |-> p]]]]
  /\ card = "in" /\ driver = "off" /\ busy = FALSE /\ changed = FALSE
  /\ chosen = location

-----------------------------------------------------------------------------
\* The parts of a step.

\* Filesystem::Init.
Mounted == IF card = "in" THEN "on" ELSE "lost"

\* The driver after a call of File::Open: chk_mounted initializes a card that is not, and
\* after an error of the disk File::Open itself calls Init; without a volume both fail.
Opened == IF driver = "off" THEN "off" ELSE Mounted

CanOpen == card = "in" /\ driver # "off"

CanRead(p) == CanOpen /\ Whole(files[p].file)

\* Browse, from location l; it opens the file for its name.
Browse(l) ==
  LET home == [l EXCEPT !.bank = loaded'[IndexOf(l)][1], !.slot = loaded'[IndexOf(l)][2],
                        !.named = TRUE]
  IN  /\ action' = "browse" /\ editing' = FALSE /\ control' = 1 /\ isBuffer' = TRUE
      /\ location' = home
      /\ name' = IF CanOpen' /\ Whole(files'[PlaceOf(home)].file)
                 THEN files'[PlaceOf(home)].file.name ELSE Blank

ForgetsFailure(l) ==          \* variant: a slot that cannot be loaded is not remembered
  /\ armed' = FALSE
  /\ IF CanRead(PlaceOf(l)) THEN loaded' = [loaded EXCEPT ![IndexOf(l)] = BankSlot(l)]
     ELSE UNCHANGED loaded
  /\ data' = IF CanRead(PlaceOf(l)) THEN Loaded(data, l.object, l.part, files[PlaceOf(l)].file)
             ELSE data

\* CommitLoad: the index is set whether the load succeeds or not.
CommitLoad(l) ==
  /\ armed' = FALSE
  /\ loaded' = [loaded EXCEPT ![IndexOf(l)] = BankSlot(l)]
  /\ data' = IF ~IsLoaded(l) /\ CanRead(PlaceOf(l))
             THEN Loaded(data, l.object, l.part, files[PlaceOf(l)].file) ELSE data

\* What the screen shows of it.
ShowLoad(l) ==
  IF IsLoaded(l) THEN UNCHANGED <<name, isBuffer, changed>>
  ELSE /\ isBuffer' = ~CanRead(PlaceOf(l))
       /\ name' = IF ~CanRead(PlaceOf(l)) THEN Blank
                  ELSE IF l.named THEN files[PlaceOf(l)].file.name ELSE name
       /\ changed' = (changed \/ CanRead(PlaceOf(l)))

DisarmsOnly ==          \* variant: the timer is stopped without the load
  armed' = FALSE /\ UNCHANGED <<loaded, data, changed>>

\* FlushDeferredLoad, when the name is replaced right after.
FlushDeferredLoad ==
  IF armed THEN /\ CommitLoad(location)
                /\ changed' = (changed \/ (~IsLoaded(location) /\ CanRead(PlaceOf(location))))
  ELSE UNCHANGED <<armed, loaded, data, changed>>

\* The card after CommitLoad, if there is a load and it is not of what is loaded.
Tried(loads) ==
  /\ driver' = IF loads /\ ~IsLoaded(location) THEN Opened ELSE driver
  /\ UNCHANGED <<files, card>>

\* An event of the panel.
Event(kind) ==
  /\ kind \in setup.events /\ left > 0
  /\ left' = left - 1 /\ busy' = TRUE
  /\ UNCHANGED setup

OnLibrary == page = "library" /\ dialog = "none"
Browsing  == OnLibrary /\ action = "browse"
Saving    == OnLibrary /\ action = "save"

-----------------------------------------------------------------------------
\* The encoder.

Moved(l, d) ==
  IF control = 0 THEN [l EXCEPT !.bank = Clip(l.bank + d, 0, Banks - 1)]
  ELSE [l EXCEPT !.slot = Clip(l.slot + d, 0, Slots - 1)]

\* The name is read; the load waits until the encoder is still.
ArmLoad(l) ==
  /\ armed' = TRUE /\ still' = 0
  /\ name' = IF ~CanRead(PlaceOf(l)) THEN Blank
             ELSE IF l.named THEN files[PlaceOf(l)].file.name ELSE name
  /\ UNCHANGED <<memory, isBuffer>>

OnIncrementBrowse(d) ==
  LET l == Moved(location, d)
  IN  /\ Browsing /\ Event("Turn")
      /\ location' = l
      /\ chosen' = l
      /\ driver' = (IF IsLoaded(l) THEN driver ELSE Opened) /\ UNCHANGED <<files, card>>
      /\ IF IsLoaded(l) THEN UNCHANGED <<armed, still, memory, name, isBuffer>>
         ELSE IF setup.delay = 0 THEN CommitLoad(l) /\ ShowLoad(l) /\ UNCHANGED still
         ELSE ArmLoad(l)
      /\ UNCHANGED <<page, dialog, action, editing, control, dirty, active>>

\* In the save mode: a letter, the bank or the slot, or the cursor.
OnIncrementSave(d) ==
  /\ Saving /\ Event("Turn")
  /\ IF ~editing THEN control' = Clip(control + d, 0, 2) /\ UNCHANGED <<location, name>>
     ELSE /\ UNCHANGED control
          /\ IF control < 2 THEN location' = Moved(location, d) /\ UNCHANGED name
             ELSE name' = Typed /\ UNCHANGED location
  /\ UNCHANGED <<page, dialog, action, editing, isBuffer, dirty, active, pending, memory, sd>>

OnClick ==
  /\ OnLibrary /\ Event("Click")
  /\ IF action = "browse" THEN control' = (control + 1) % 2 /\ UNCHANGED editing
     ELSE editing' = ~editing /\ UNCHANGED control
  /\ UNCHANGED <<page, dialog, action, location, name, isBuffer, dirty, active, pending, memory, sd>>

\* The encoder with switch 1 held, on any page.
SelectPart(p) ==
  /\ Event("Part") /\ p # active
  /\ active' = p
  /\ UNCHANGED <<page, dialog, action, editing, control, location, name, isBuffer, dirty,
                 pending, memory, sd>>

-----------------------------------------------------------------------------
\* The switches, in the browse mode.

NextObject(object) ==
  CASE object = "MULTI" -> "PATCH"    [] object = "PATCH"   -> "SEQUENCE"
    [] object = "SEQUENCE" -> "PROGRAM" [] object = "PROGRAM" -> "MULTI"

OnKeyObject ==
  /\ Browsing /\ Event("Object")
  /\ FlushDeferredLoad
  /\ driver' = Opened /\ UNCHANGED <<files, card>>
  /\ Browse([location EXCEPT !.object = NextObject(@)])
  /\ UNCHANGED <<page, dialog, dirty, active, still, chosen>>

\* The save mode, with the cursor on the first letter.
OnKeySaveMode ==
  /\ Browsing /\ Event("Save")
  /\ IF armed THEN CommitLoad(location) /\ ShowLoad(location)
     ELSE UNCHANGED <<armed, memory, name, isBuffer>>
  /\ Tried(armed)
  /\ action' = "save" /\ control' = 2 /\ editing' = TRUE
  /\ UNCHANGED <<page, dialog, location, dirty, active, still, chosen>>

\* A dialog asks whether to initialize the object; name_ is its text.
OnKeyInit ==
  /\ Browsing /\ Event("Init")
  /\ FlushDeferredLoad /\ Tried(armed)
  /\ dialog' = "init" /\ name' = Typed
  /\ isBuffer' = IF armed /\ ~IsLoaded(location) THEN ~CanRead(PlaceOf(location)) ELSE isBuffer
  /\ UNCHANGED <<page, action, editing, control, location, dirty, active, still, chosen>>

\* Another page, or the page of versions, by its switch or back by switch 8.
OnKeyLeave(to) ==
  /\ Browsing /\ Event("Leave") /\ to \in {"other", "versions"}
  /\ IF armed THEN CommitLoad(location) /\ ShowLoad(location)
     ELSE UNCHANGED <<armed, memory, name, isBuffer>>
  /\ page' = to
  /\ IF to = "versions" THEN driver' = Mounted /\ UNCHANGED <<files, card>> ELSE Tried(armed)
  /\ UNCHANGED <<dialog, action, editing, control, location, dirty, active, still, chosen>>

\* Exit and keep, on the page of versions.
LeaveVersions ==
  /\ page = "versions" /\ Event("Leave")
  /\ page' = "other"
  /\ UNCHANGED <<dialog, action, editing, control, location, name, isBuffer, dirty, active,
                 pending, memory, sd>>

\* OnInit of the library page.
OpenLibrary ==
  /\ page = "other" /\ dialog = "none" /\ Event("Leave")
  /\ page' = "library"
  /\ FlushDeferredLoad
  /\ driver' = Mounted /\ UNCHANGED <<files, card>>
  /\ dialog' = IF card = "out" THEN "error" ELSE "none"
  /\ Browse([location EXCEPT !.part = active])
  /\ dirty' = FALSE
  /\ UNCHANGED <<active, still, chosen>>

-----------------------------------------------------------------------------
\* The switches, in the save mode.

\* Those that change the name; the cursor keys do what the encoder does.
OnKeyLetter ==
  /\ Saving /\ Event("Save") /\ control = 2
  /\ name' = Typed
  /\ UNCHANGED <<page, dialog, action, editing, control, location, isBuffer, dirty, active,
                 pending, memory, sd>>

Content(l) == Contents(data, l.object, l.part, IF l.named THEN name ELSE Junk)

\* Whether Unlink and Rename reach the card: chk_mounted initializes one that is known
\* not to be, and the pages other than these two call Init before they save.
Answers == page = "other" \/ driver # "stale"

OnKeySave ==
  /\ Saving /\ Event("Save")
  /\ driver' = Opened
  /\ UNCHANGED <<armed, data, changed, card>>
  /\ IF CanOpen
     THEN /\ files' = Saved(files, PlaceOf(location), Content(location), setup.backups, Answers)
          /\ loaded' = [loaded EXCEPT ![IndexOf(location)] = BankSlot(location)]
          /\ Browse(location) /\ UNCHANGED dialog
     ELSE /\ dialog' = "error"
          /\ UNCHANGED <<files, loaded, action, editing, control, location, name, isBuffer>>
  /\ UNCHANGED <<page, dirty, active, still, chosen>>

OnKeyCancel ==
  /\ Saving /\ Event("Save")
  /\ driver' = Opened
  /\ UNCHANGED <<memory, files, card, pending>>
  /\ Browse(location)
  /\ UNCHANGED <<page, dialog, dirty, active>>

\* UpdateLocation, whenever the page of the library or of versions is drawn.
UpdateLocation ==
  IF location.part # active \/ dirty
  THEN driver' = Opened /\ Browse([location EXCEPT !.part = active]) /\ dirty' = FALSE
  ELSE UNCHANGED <<action, editing, control, location, name, isBuffer, dirty, driver>>

\* CloseDialogBox: the page is drawn again, and then told.
CloseDialog(yes) ==
  /\ dialog # "none" /\ Event("Init")
  /\ dialog' = "none"
  /\ UNCHANGED <<loaded, files, card>>
  /\ IF dialog = "error" THEN UpdateLocation /\ UNCHANGED <<data, changed>>
     ELSE LET l == [location EXCEPT !.part = active]
          IN  /\ driver' = Opened /\ Browse(l) /\ dirty' = FALSE
              /\ data' = IF yes THEN [c \in DOMAIN data |-> IF c \in Cells(l.object, l.part)
                                                           THEN <<"init">> ELSE data[c]]
                         ELSE data
              /\ changed' = (changed \/ yes)
  /\ UNCHANGED <<page, active, pending>>

-----------------------------------------------------------------------------
\* Copy, swap and paste: on the page of versions for the object of the library,
\* with a shift key on any other page, after Init, for the program of the active part.

Target ==
  IF page = "versions" THEN location
  ELSE [object |-> "PROGRAM", part |-> active, bank |-> 0, slot |-> 0, named |-> FALSE]

Clipboard(l) == <<l.object, -1, 0>>

UseClipboard(copies, pastes) ==
  LET l     == Target
      place == Clipboard(l)
      after == IF copies THEN Saved(files, place, Content(l), TRUE, Answers) ELSE files
      from  == IF copies THEN after[place].backup ELSE after[place].file
      reads == pastes /\ Whole(from)
  IN  /\ page # "library" /\ dialog = "none" /\ Event("Clipboard")
      /\ driver' = Mounted
      /\ files' = IF card = "in" THEN after ELSE files
      /\ data' = IF card = "in" /\ reads THEN Loaded(data, l.object, l.part, from) ELSE data
      /\ changed' = (changed \/ (card = "in" /\ reads))
      /\ page' = "other"
      /\ UNCHANGED <<card, dialog, action, editing, control, location, name, isBuffer, dirty, active,
                     pending, loaded>>

-----------------------------------------------------------------------------
\* A program change, for each part that listens; or, in the banks above, for the
\* multi.  After a failure the card is initialized and it is tried again.  The
\* location moves whether it succeeds or not.
ProgramChange(object, b, s) ==
  LET last  == IF object = "MULTI" THEN 0 ELSE Max(setup.listens)
      l     == [object |-> object, part |-> last, bank |-> b, slot |-> s, named |-> FALSE]
      parts == IF object = "MULTI" THEN {0} ELSE setup.listens
      ok    == card # "out" /\ Whole(files[PlaceOf(l)].file)
  IN  /\ "Program" \in setup.events /\ left > 0 /\ ~busy /\ setup.listens # {}
      /\ left' = left - 1
      /\ location' = l
      /\ driver' = Mounted
      /\ IF ok
         THEN /\ data' = FoldSet(LAMBDA p, d : Loaded(d, object, p, files[PlaceOf(l)].file), data, parts)
              /\ loaded' = [i \in Indices |-> IF i \in {Index(object, p) : p \in parts} THEN <<b, s>>
                                              ELSE loaded[i]]
              /\ dirty' = TRUE /\ changed' = TRUE
         ELSE UNCHANGED <<data, loaded, dirty, changed>>
      /\ UNCHANGED <<page, dialog, action, editing, control, name, isBuffer, active, pending,
                     files, card, busy, setup>>

\* A parameter of the active part is edited.
EditSound ==
  /\ page = "other" /\ Event("Edit")
  /\ data' = [data EXCEPT ![<<"patch", active>>] = <<"edited">>] /\ changed' = TRUE
  /\ UNCHANGED <<browser, pending, loaded, sd>>

\* The card is taken out, or put in.
MoveCard ==
  /\ "Card" \in setup.events /\ left > 0
  /\ left' = left - 1
  /\ card' = IF card = "out" THEN "in" ELSE "out"
  /\ driver' = IF driver = "on" THEN "stale" ELSE driver
  /\ UNCHANGED <<browser, pending, memory, files, busy, setup>>

\* The power fails before step k + 1 of a save, and comes back.
PowerFails(k) ==
  LET steps(p, c, backsUp) == SaveSteps(files, p, c, backsUp, Answers)
  IN  /\ "Crash" \in setup.events /\ left > 0 /\ card = "in"
      /\ IF Saving
         THEN files' = steps(PlaceOf(location), Content(location), setup.backups)[k]
         ELSE /\ page # "library" /\ dialog = "none"
              /\ files' = steps(Clipboard(Target), Content(Target), TRUE)[k]
      /\ left' = left - 1 /\ busy' = FALSE /\ changed' = FALSE
      /\ page' = "other" /\ dialog' = "none" /\ action' = "browse" /\ editing' = FALSE /\ control' = 1
      /\ location' = [object |-> "PROGRAM", part |-> 0, bank |-> 0, slot |-> 0, named |-> FALSE]
      /\ name' = Blank /\ isBuffer' = FALSE /\ dirty' = FALSE /\ active' = 0
      /\ loaded' = [i \in Indices |-> <<0, 0>>]
      /\ armed' = FALSE /\ still' = 0 /\ chosen' = location'
      /\ data' = [c \in AllCells |-> <<"start">>] /\ driver' = "off"
      /\ UNCHANGED <<card, setup>>

-----------------------------------------------------------------------------
DueExactly == armed /\ still = setup.delay     \* variant: a turn that comes late finds nothing due

\* Due, as TickDeferredLoad asks.
Due == armed /\ still >= setup.delay

\* The end of a turn: what is due is loaded, and the screen is drawn, for an event or
\* a change, or from time to time.
EndOfTurn(idle) ==
  /\ IF Due THEN CommitLoad(location) ELSE UNCHANGED <<armed, loaded, data>>
  /\ changed' = FALSE /\ busy' = FALSE
  /\ UNCHANGED <<files, card, page, dialog, active, still, chosen, left, setup>>
  /\ IF page # "other" /\ dialog = "none" /\ (busy \/ changed \/ idle \/ Due)
        /\ (location.part # active \/ dirty)
     THEN UpdateLocation
     ELSE /\ UNCHANGED <<action, editing, control, location, dirty>>
          /\ driver' = IF Due /\ ~IsLoaded(location) THEN Opened ELSE driver
          /\ IF Due /\ ~IsLoaded(location)
             THEN /\ isBuffer' = ~CanRead(PlaceOf(location))
                  /\ name' = IF ~CanRead(PlaceOf(location)) THEN Blank
                             ELSE IF location.named THEN files[PlaceOf(location)].file.name ELSE name
             ELSE UNCHANGED <<isBuffer, name>>

TimePasses ==
  /\ armed /\ still <= setup.delay
  /\ still' = still + 1
  /\ UNCHANGED <<browser, memory, sd, armed, chosen, busy, left, setup>>

Next ==
  \/ \E d \in {-1, 1} : OnIncrementBrowse(d) \/ OnIncrementSave(d)
  \/ OnClick
  \/ \E p \in Parts : SelectPart(p)
  \/ OnKeyObject \/ OnKeySaveMode \/ OnKeyInit \/ LeaveVersions \/ OpenLibrary
  \/ \E to \in {"other", "versions"} : OnKeyLeave(to)
  \/ OnKeyLetter \/ OnKeySave \/ OnKeyCancel
  \/ \E yes \in BOOLEAN : CloseDialog(yes)
  \/ \E copies, pastes \in BOOLEAN : (copies \/ pastes) /\ UseClipboard(copies, pastes)
  \/ \E o \in {"PROGRAM", "MULTI"}, b \in 0..(Banks - 1), s \in 0..(Slots - 1) : ProgramChange(o, b, s)
  \/ EditSound \/ MoveCard
  \/ \E k \in 1..4 : PowerFails(k)
  \/ \E idle \in BOOLEAN : EndOfTurn(idle)
  \/ TimePasses

Spec == Init /\ [][Next]_vars

\* The main loop turns and the clock ticks.
FairSpec == Spec /\ WF_vars(\E idle \in BOOLEAN : EndOfTurn(idle)) /\ WF_vars(TimePasses)

-----------------------------------------------------------------------------
\* A program change that fails, which it does where there is no file, moves the
\* location without telling the page.
ProgramsAreThere ==
  "Program" \in setup.events => setup.empty = {} /\ setup.events \cap {"Card", "Crash"} = {}

\* Selecting another part while a load is pending, or a program change, loses it.
OnlyTheEncoderMoves ==
  "Turn" \in setup.events => setup.events \cap {"Part", "Program"} = {}

\* When nothing is pending and the screen is up to date, the slot it shows is the one
\* that was loaded or saved last for the object it shows (library.cc Browse,
\* CommitLoad, UpdateLocation).
ShownIsLoaded ==
  ProgramsAreThere =>
    (page = "library" /\ dialog = "none" /\ action = "browse" /\ ~armed /\ ~busy /\ ~changed /\ ~dirty =>
       location.part = active /\ IsLoaded(location))

\* When a load is no longer pending, the slot that the encoder was turned to is the
\* one loaded (library.cc TickDeferredLoad, FlushDeferredLoad).
PendingLoadIsNotLost ==
  [][OnlyTheEncoderMoves /\ armed /\ ~armed' => loaded'[IndexOf(chosen)] = BankSlot(chosen)]_vars

\* Once the encoder is left alone the pending load is no longer pending (ui.cc DoEvents,
\* deferred_load.h).
SettlesInTheEnd == armed ~> ~armed

\* Where backups are made, a save that is cut off by a power failure at any step
\* leaves a whole file if there was one: the new one, or the old one in its place or
\* under the name of the backup (storage.cc Save).  The premise is that the card Answers:
\* one that was taken out and put back while no file was opened does not answer Unlink
\* and Rename, but File::Open then initializes it, and the file is overwritten without a
\* backup of it.
KeptCopySurvives ==
  [][\A p \in DOMAIN files :
       Answers /\ (setup.backups \/ p \in Clipboards) /\ Whole(files[p].file) =>
         Whole(files'[p].file) \/ files'[p].backup = files[p].file]_vars

=============================================================================
