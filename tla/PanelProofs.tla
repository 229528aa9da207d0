----------------------------- MODULE PanelProofs ----------------------------
(***************************************************************************)
(* The panel: the library for any number of parts, banks and slots,        *)
(* whatever is on the card and whatever the player does, and the other     *)
(* pages for any inputs and any number of them.                            *)
(*                                                                         *)
(* In the library, what is kept when the power fails follows, inside one   *)
(* save, from the order of its steps (SaveKeeps); PlaceInv says that the   *)
(* place of a save is one of the card's, and not that of a clipboard,      *)
(* which has its backup in any case.  ScreenInv says that what is shown is *)
(* loaded, or will be, and PendingInv that a pending load keeps its page   *)
(* and its location.                                                       *)
(*                                                                         *)
(* On the other pages the table of parameters comes first: its 79 rows     *)
(* (WellPlaced) and the two maps of MIDI, which say that a byte belongs to *)
(* one parameter (AddressTells) and that an edit leaves a byte that its    *)
(* parameter may hold (Holds).  PagesIInv says so of every byte written,   *)
(* keeps the cursor on a control and the knobs on the parameters of a      *)
(* patch or a part, and has the settings written outside of their pages.   *)
(***************************************************************************)
EXTENDS Library, Pages, WellFoundedInduction, TLAPS

\* What a place of the card may hold at any time.
HasFiles(f) == \A p \in DOMAIN f : DOMAIN f[p] = {"file", "backup"}

\* A whole file is still there, under one of its names.
Keeps(f, g, p) == Whole(f[p].file) => Whole(g[p].file) \/ g[p].backup = f[p].file

\* The card differs at place p only.
OnlyAt(f, g, p) == DOMAIN g = DOMAIN f /\ \A q \in DOMAIN f \ {p} : g[q] = f[q]

-----------------------------------------------------------------------------
(* One save.                                                               *)

LEMMA UnlinkStep ==
  ASSUME NEW f, HasFiles(f), NEW p \in DOMAIN f
  PROVE  LET g == Unlink(f, p)
         IN  /\ OnlyAt(f, g, p) /\ HasFiles(g)
             /\ g[p].file = f[p].file /\ g[p].backup = Missing
  BY DEF Unlink, HasFiles, OnlyAt

LEMMA WriteStep ==
  ASSUME NEW f, HasFiles(f), NEW p \in DOMAIN f, NEW content
  PROVE  LET g == Write(f, p, content)
         IN  /\ OnlyAt(f, g, p) /\ HasFiles(g)
             /\ g[p].file = content /\ g[p].backup = f[p].backup
  BY DEF Write, HasFiles, OnlyAt

LEMMA RenameStep ==
  ASSUME NEW f, HasFiles(f), NEW p \in DOMAIN f, f[p].backup = Missing
  PROVE  LET g == Rename(f, p)
         IN  /\ OnlyAt(f, g, p) /\ HasFiles(g)
             /\ Whole(f[p].file) => g[p].backup = f[p].file
  BY DEF Rename, HasFiles, OnlyAt, Whole

\* At every step of a save, the file it replaces is there under one of its names, unless
\* the new one is, if a backup is made and the card answers; no other file is touched.
LEMMA SaveKeeps ==
  ASSUME NEW f, HasFiles(f), NEW p \in DOMAIN f, NEW content, Whole(content),
         NEW backsUp \in BOOLEAN, NEW answers \in BOOLEAN, NEW k \in 1..5,
         NEW g, g = SaveSteps(f, p, content, backsUp, answers)[k]
  PROVE  /\ DOMAIN g = DOMAIN f /\ HasFiles(g) /\ OnlyAt(f, g, p)
         /\ backsUp /\ answers => Keeps(f, g, p)
         /\ k = 5 => g[p].file = content
<1> DEFINE backup == Backup(f, p, backsUp, answers)
           torn == Write(backup[2], p, Torn)
           last == Write(backup[2], p, content)
           Good(h) == /\ OnlyAt(f, h, p) /\ HasFiles(h)
                      /\ backsUp /\ answers => Keeps(f, h, p)
<1>1. Good(f)
  BY DEF OnlyAt, Keeps
<1>2. /\ Good(backup[1]) /\ Good(backup[2])
      /\ backsUp /\ answers /\ Whole(f[p].file) => backup[2][p].backup = f[p].file
  <2>1. CASE ~(backsUp /\ answers)
    BY <1>1, <2>1 DEF Backup
  <2>2. CASE backsUp /\ answers
    <3> DEFINE u == Unlink(f, p)
               r == Rename(u, p)
    <3>1. /\ OnlyAt(f, u, p) /\ HasFiles(u) /\ p \in DOMAIN u
          /\ u[p].file = f[p].file /\ u[p].backup = Missing
      BY UnlinkStep DEF OnlyAt
    <3>2. backup = <<u, r>>
      BY <2>2 DEF Backup
    <3> HIDE DEF u
    <3>3. /\ OnlyAt(u, r, p) /\ HasFiles(r)
          /\ Whole(u[p].file) => r[p].backup = u[p].file
      BY <3>1, RenameStep
    <3>4. OnlyAt(f, r, p)
      BY <3>1, <3>3 DEF OnlyAt
    <3>5. backup[1] = u /\ backup[2] = r
      BY <3>2
    <3> HIDE DEF r, backup
    <3> QED
      BY <3>1, <3>3, <3>4, <3>5 DEF Keeps
  <2> QED
    BY <2>1, <2>2
<1> HIDE DEF backup
<1>3. ASSUME NEW c PROVE /\ OnlyAt(f, Write(backup[2], p, c), p) /\ HasFiles(Write(backup[2], p, c))
                         /\ Write(backup[2], p, c)[p].backup = backup[2][p].backup
                         /\ Write(backup[2], p, c)[p].file = c
  <2>1. p \in DOMAIN backup[2] /\ HasFiles(backup[2]) /\ OnlyAt(f, backup[2], p)
    BY <1>2 DEF OnlyAt
  <2> QED
    BY <2>1, WriteStep DEF OnlyAt
<1>4. Good(torn)
  BY <1>2, <1>3 DEF Keeps
<1>5. Good(last)
  BY <1>2, <1>3 DEF Keeps
<1>6. SaveSteps(f, p, content, backsUp, answers) = <<f, backup[1], backup[2], torn, last>>
  BY DEF SaveSteps, backup
<1> HIDE DEF torn, last
<1>7. Good(SaveSteps(f, p, content, backsUp, answers)[k])
  BY <1>1, <1>2, <1>4, <1>5, <1>6
<1>8. SaveSteps(f, p, content, backsUp, answers)[5] = last /\ last[p].file = content
  BY <1>3, <1>6 DEF last
<1> QED
  BY <1>7, <1>8 DEF OnlyAt, Keeps

\* What is saved is whole.
LEMMA ContentsAreWhole ==
  ASSUME NEW d, NEW object \in Objects, NEW part, NEW label
  PROVE  Whole(Contents(d, object, part, label))
<1>1. Cells(object, part) # {}
  <2>1. "patch" \in Roles(object) \/ "sequence" \in Roles(object)
    BY DEF Roles, Objects
  <2>2. CASE object = "MULTI"
    <3>1. <<"multi", 0>> \in AllCells
      BY DEF AllCells
    <3> QED
      BY <2>2, <3>1 DEF Cells
  <2>3. CASE object # "MULTI"
    <3>1. \A r \in Roles(object) : <<r, part>> \in Cells(object, part)
      BY <2>3 DEF Cells
    <3> QED
      BY <2>1, <3>1
  <2> QED
    BY <2>2, <2>3
<1>2. DOMAIN Contents(d, object, part, label).cells = {InFile(object, c) : c \in Cells(object, part)}
  BY DEF Contents
<1>3. DOMAIN Contents(d, object, part, label).cells # {}
  BY <1>1, <1>2
<1>4. DOMAIN Missing.cells = {} /\ DOMAIN Torn.cells = {}
  BY DEF Missing, Torn
<1> QED
  BY <1>3, <1>4 DEF Whole

-----------------------------------------------------------------------------
(* Where the page and the program changes point.                           *)

Homes     == (0..(Banks - 1)) \X (0..(Slots - 1))
Locations == [object : Objects, part : Parts, bank : 0..(Banks - 1), slot : 0..(Slots - 1),
              named : BOOLEAN]

PlaceInv ==
  /\ setup \in Setups
  /\ location \in Locations
  /\ active \in Parts
  /\ loaded \in [Indices -> Homes]
  /\ DOMAIN files = Places \cup Clipboards
  /\ HasFiles(files)

LEMMA LocationParts ==
  ASSUME NEW l \in Locations
  PROVE  /\ IndexOf(l) \in Indices /\ BankSlot(l) \in Homes /\ l.object \in Objects
         /\ PlaceOf(l) \in Places \ Clipboards /\ Clipboard(l) \in Clipboards
<1>1. /\ l.object \in Objects /\ l.part \in Parts
      /\ l.bank \in 0..(Banks - 1) /\ l.slot \in 0..(Slots - 1)
  BY DEF Locations
<1>2. IndexOf(l) \in Indices
  BY <1>1 DEF IndexOf, Indices
<1>3. PlaceOf(l) \in Places
  BY <1>1 DEF PlaceOf, Places
<1>4. l.bank # -1
  BY <1>1, LibraryAssumption
<1>5. PlaceOf(l) \notin Clipboards
  BY <1>4 DEF PlaceOf, Clipboards
<1> QED
  BY <1>1, <1>2, <1>3, <1>5 DEF BankSlot, Homes, Clipboard, Clipboards

LEMMA BrowseType ==
  ASSUME NEW l \in Locations, Browse(l), loaded' \in [Indices -> Homes]
  PROVE  location' \in Locations
<1>1. loaded'[IndexOf(l)] \in Homes
  BY LocationParts
<1>2. location' = [l EXCEPT !.bank = loaded'[IndexOf(l)][1], !.slot = loaded'[IndexOf(l)][2],
                            !.named = TRUE]
  BY DEF Browse
<1> QED
  BY <1>1, <1>2 DEF Locations, Homes

LEMMA LoadType ==
  ASSUME NEW l \in Locations, loaded \in [Indices -> Homes],
         \/ loaded' = [loaded EXCEPT ![IndexOf(l)] = BankSlot(l)]
         \/ loaded' = loaded
  PROVE  loaded' \in [Indices -> Homes]
  BY LocationParts

LEMMA ClipType ==
  ASSUME NEW n \in Nat \ {0}, NEW x \in Int PROVE Clip(x, 0, n - 1) \in 0..(n - 1)
  BY DEF Clip

LEMMA MovedType ==
  ASSUME NEW l \in Locations, NEW d \in {-1, 1} PROVE Moved(l, d) \in Locations
<1>1. /\ l.bank \in 0..(Banks - 1) /\ l.slot \in 0..(Slots - 1)
      /\ Banks \in Nat \ {0} /\ Slots \in Nat \ {0}
  BY LibraryAssumption DEF Locations
<1>2. l.bank + d \in Int /\ l.slot + d \in Int
  BY <1>1
<1>3. /\ Clip(l.bank + d, 0, Banks - 1) \in 0..(Banks - 1)
      /\ Clip(l.slot + d, 0, Slots - 1) \in 0..(Slots - 1)
  BY <1>1, <1>2, ClipType
<1> QED
  BY <1>3 DEF Moved, Locations

\* A non-empty set of naturals below a bound has a greatest element: the least
\* of the distances to the bound is its own.
LEMMA GreatestExists ==
  ASSUME NEW n \in Nat, NEW T \in SUBSET (0..(n - 1)), T # {}
  PROVE  \E x \in T : \A y \in T : y <= x
<1> DEFINE Mirror == {n - y : y \in T}
<1>1. Mirror \in SUBSET Nat /\ Mirror # {}
  <2>1. \A y \in T : n - y \in Nat
    OBVIOUS
  <2> QED
    BY <2>1
<1>2. PICK m \in Mirror : \A k \in Mirror : ~ (<<k, m>> \in OpToRel(<, Nat))
  <2> HIDE DEF Mirror
  <2> QED
    BY <1>1, NatLessThanWellFounded, WFMin
<1>3. PICK x \in T : m = n - x
  OBVIOUS
<1>4. ASSUME NEW y \in T PROVE y <= x
  <2>1. n - x \in Nat /\ n - y \in Nat /\ ~ (<<n - y, n - x>> \in OpToRel(<, Nat))
    BY <1>1, <1>2, <1>3
  <2>2. ~ (n - y < n - x)
    BY <2>1 DEF OpToRel
  <2> QED
    BY <2>2
<1> QED
  BY <1>4

LEMMA LastListener ==
  ASSUME NEW s \in Setups, s.listens # {} PROVE Max(s.listens) \in Parts
<1>1. s.listens \in SUBSET (0..(NumParts - 1)) /\ NumParts \in Nat
  BY LibraryAssumption DEF Setup, Parts
<1>2. \E x \in s.listens : \A y \in s.listens : y <= x
  BY <1>1, GreatestExists
<1>3. \E x \in s.listens : \A y \in s.listens : x >= y
  BY <1>1, <1>2
<1>4. Max(s.listens) \in s.listens
  BY <1>3 DEF Max
<1> QED
  BY <1>1, <1>4 DEF Parts

LEMMA InitPlaces == Init => PlaceInv
<1> SUFFICES ASSUME Init PROVE PlaceInv
  OBVIOUS
<1>1. 0 \in Parts /\ 0 \in 0..(Banks - 1) /\ 0 \in 0..(Slots - 1)
  BY LibraryAssumption DEF Parts
<1>2. location \in Locations
  BY <1>1 DEF Init, Locations, Objects
<1>3. loaded \in [Indices -> Homes]
  BY <1>1 DEF Init, Homes
<1>4. DOMAIN files = Places \cup Clipboards /\ HasFiles(files)
  BY DEF Init, HasFiles
<1> QED
  BY <1>1, <1>2, <1>3, <1>4 DEF Init, PlaceInv

-----------------------------------------------------------------------------
(* The steps.                                                              *)

\* What one save makes of the card of a location, in full or in part.
LEMMA SaveFilesKept ==
  ASSUME PlaceInv, NEW p \in DOMAIN files, NEW content, Whole(content),
         NEW backsUp \in BOOLEAN, NEW k \in 1..5,
         backsUp \/ (~setup.backups /\ p \notin Clipboards),
         files' = SaveSteps(files, p, content, backsUp, Answers)[k]
  PROVE  /\ DOMAIN files' = Places \cup Clipboards /\ HasFiles(files')
         /\ \A q \in DOMAIN files : Answers /\ (setup.backups \/ q \in Clipboards) => Keeps(files, files', q)
<1>1. HasFiles(files) /\ DOMAIN files = Places \cup Clipboards
  BY DEF PlaceInv
<1>2. /\ DOMAIN files' = DOMAIN files /\ HasFiles(files')
      /\ OnlyAt(files, files', p)
      /\ backsUp /\ Answers => Keeps(files, files', p)
  <2>1. ASSUME NEW answers \in BOOLEAN, NEW g, g = SaveSteps(files, p, content, backsUp, answers)[k]
        PROVE  /\ DOMAIN g = DOMAIN files /\ HasFiles(g) /\ OnlyAt(files, g, p)
               /\ backsUp /\ answers => Keeps(files, g, p)
    <3>1. g = SaveSteps(files, p, content, backsUp, answers)[k] /\ HasFiles(files) /\ Whole(content)
      BY <1>1, <2>1
    <3> QED
      BY ONLY <3>1, SaveKeeps
  <2>2. Answers \in BOOLEAN
    BY DEF Answers
  <2> QED
    BY <2>1, <2>2
<1> QED
  BY <1>1, <1>2 DEF OnlyAt, Keeps

Kept == \A q \in DOMAIN files :
          Answers /\ (setup.backups \/ q \in Clipboards) => Keeps(files, files', q)

LEMMA UnchangedFilesKept == ASSUME PlaceInv, files' = files
                            PROVE  Kept /\ DOMAIN files' = Places \cup Clipboards /\ HasFiles(files')
  BY DEF Kept, Keeps, PlaceInv

LEMMA LocationSaved ==
  ASSUME PlaceInv, NEW k \in 1..5,
         files' = SaveSteps(files, PlaceOf(location), Content(location), setup.backups, Answers)[k]
  PROVE  Kept /\ DOMAIN files' = Places \cup Clipboards /\ HasFiles(files')
<1>1. setup.backups \in BOOLEAN
  BY LibraryAssumption DEF PlaceInv, Setup
<1>2. PlaceOf(location) \in DOMAIN files /\ PlaceOf(location) \notin Clipboards
  BY LocationParts DEF PlaceInv
<1>3. Whole(Content(location))
  BY ContentsAreWhole, LocationParts DEF PlaceInv, Content
<1> QED
  BY <1>1, <1>2, <1>3, SaveFilesKept DEF Kept

LEMMA TargetType == ASSUME PlaceInv PROVE Target \in Locations
<1>1. 0 \in 0..(Banks - 1) /\ 0 \in 0..(Slots - 1)
  BY LibraryAssumption
<1> QED
  BY <1>1 DEF Target, PlaceInv, Locations, Objects

LEMMA ClipboardSaved ==
  ASSUME PlaceInv, NEW k \in 1..5,
         files' = SaveSteps(files, Clipboard(Target), Content(Target), TRUE, Answers)[k]
  PROVE  Kept /\ DOMAIN files' = Places \cup Clipboards /\ HasFiles(files')
<1>1. Target \in Locations
  BY TargetType
<1>2. Clipboard(Target) \in DOMAIN files
  BY <1>1, LocationParts DEF PlaceInv
<1>3. Whole(Content(Target))
  BY <1>1, ContentsAreWhole, LocationParts DEF Content
<1> QED
  BY <1>2, <1>3, SaveFilesKept DEF Kept

\* A step that leaves the card alone.
LEMMA QuietStep == ASSUME PlaceInv, files' = files, setup' = setup, active' \in Parts,
                          loaded' \in [Indices -> Homes], location' \in Locations
                   PROVE  PlaceInv' /\ Kept
  BY UnchangedFilesKept DEF PlaceInv

LEMMA NextPlaces == PlaceInv /\ [Next]_vars => PlaceInv' /\ Kept
<1> SUFFICES ASSUME PlaceInv, [Next]_vars PROVE PlaceInv' /\ Kept
  OBVIOUS
<1>0. /\ location \in Locations /\ loaded \in [Indices -> Homes] /\ active \in Parts
      /\ setup \in Setups
  BY DEF PlaceInv
<1>1. \A o \in Objects : [location EXCEPT !.object = o] \in Locations
  BY <1>0 DEF Locations
<1>2. \A p \in Parts : [location EXCEPT !.part = p] \in Locations
  BY <1>0 DEF Locations
<1>3. ASSUME FlushDeferredLoad PROVE loaded' \in [Indices -> Homes]
  BY <1>0, <1>3, LoadType DEF FlushDeferredLoad, CommitLoad
<1>4. ASSUME files' = files, setup' = setup, active' = active, loaded' = loaded, location' = location
      PROVE  PlaceInv' /\ Kept
  BY <1>0, <1>4, QuietStep
<1>5. ASSUME NEW d \in {-1, 1}, OnIncrementBrowse(d) PROVE PlaceInv' /\ Kept
  <2>1. files' = files /\ setup' = setup /\ active' = active /\ location' = Moved(location, d)
    BY <1>5 DEF OnIncrementBrowse, Event, sd
  <2>2. location' \in Locations
    BY <1>0, <2>1, MovedType
  <2>3. \/ loaded' = [loaded EXCEPT ![IndexOf(Moved(location, d))] = BankSlot(Moved(location, d))]
        \/ loaded' = loaded
    BY <1>5 DEF OnIncrementBrowse, CommitLoad, ArmLoad, memory
  <2>4. loaded' \in [Indices -> Homes]
    BY <1>0, <2>1, <2>2, <2>3, LoadType
  <2> QED
    BY <1>0, <2>1, <2>2, <2>4, QuietStep
<1>6. ASSUME NEW d \in {-1, 1}, OnIncrementSave(d) PROVE PlaceInv' /\ Kept
  <2>1. /\ files' = files /\ setup' = setup /\ active' = active /\ loaded' = loaded
        /\ location' = Moved(location, d) \/ location' = location
    BY <1>6 DEF OnIncrementSave, Event, sd, memory
  <2> QED
    BY <1>0, <2>1, MovedType, QuietStep
<1>7. CASE OnClick \/ OnKeyLetter \/ EditSound \/ MoveCard \/ TimePasses \/ LeaveVersions
           \/ UNCHANGED vars
  BY <1>4, <1>7 DEF OnClick, OnKeyLetter, EditSound, MoveCard, TimePasses, LeaveVersions,
                    Event, browser, memory, sd, vars
<1>8. ASSUME NEW p \in Parts, SelectPart(p) PROVE PlaceInv' /\ Kept
  BY <1>0, <1>8, QuietStep DEF SelectPart, Event, memory, sd
<1>9. CASE OnKeyObject
  <2>1. NextObject(location.object) \in Objects
    BY <1>0 DEF Locations, Objects, NextObject
  <2>2. /\ files' = files /\ setup' = setup /\ active' = active /\ FlushDeferredLoad
        /\ Browse([location EXCEPT !.object = NextObject(location.object)])
    BY <1>9 DEF OnKeyObject, Event, sd
  <2> QED
    BY <1>0, <1>1, <1>3, <2>1, <2>2, BrowseType, QuietStep
<1>10. CASE OnKeySaveMode \/ \E to \in {"other", "versions"} : OnKeyLeave(to)
  <2>1. /\ files' = files /\ setup' = setup /\ active' = active /\ location' = location
        /\ CommitLoad(location) \/ loaded' = loaded
    BY <1>10 DEF OnKeySaveMode, OnKeyLeave, Event, Tried, memory
  <2> QED
    BY <1>0, <2>1, LoadType, QuietStep DEF CommitLoad
<1>11. CASE OnKeyInit
  BY <1>0, <1>3, <1>11, QuietStep DEF OnKeyInit, Event, Tried
<1>12. CASE OpenLibrary
  <2>1. /\ files' = files /\ setup' = setup /\ active' = active /\ FlushDeferredLoad
        /\ Browse([location EXCEPT !.part = active])
    BY <1>12 DEF OpenLibrary, Event
  <2> QED
    BY <1>0, <1>2, <1>3, <2>1, BrowseType, QuietStep
<1>13. CASE OnKeySave
  <2>1. setup' = setup /\ active' = active
    BY <1>13 DEF OnKeySave, Event
  <2>2. CASE CanOpen
    <3>1. /\ files' = SaveSteps(files, PlaceOf(location), Content(location), setup.backups, Answers)[5]
          /\ loaded' = [loaded EXCEPT ![IndexOf(location)] = BankSlot(location)]
          /\ Browse(location)
      BY <1>13, <2>2 DEF OnKeySave, Saved
    <3>2. loaded' \in [Indices -> Homes]
      BY <1>0, <3>1, LoadType
    <3> QED
      BY <1>0, <2>1, <3>1, <3>2, BrowseType, LocationSaved DEF PlaceInv
  <2>3. CASE ~CanOpen
    BY <1>4, <1>13, <2>1, <2>3 DEF OnKeySave
  <2> QED
    BY <2>2, <2>3
<1>14. CASE OnKeyCancel
  <2>1. /\ files' = files /\ setup' = setup /\ active' = active /\ loaded' = loaded
        /\ Browse(location)
    BY <1>14 DEF OnKeyCancel, Event, memory, sd
  <2> QED
    BY <1>0, <2>1, BrowseType, QuietStep
<1>15. ASSUME UpdateLocation, loaded' \in [Indices -> Homes] PROVE location' \in Locations
  BY <1>0, <1>2, <1>15, BrowseType DEF UpdateLocation
<1>16. ASSUME NEW yes \in BOOLEAN, CloseDialog(yes) PROVE PlaceInv' /\ Kept
  <2>1. /\ files' = files /\ setup' = setup /\ active' = active /\ loaded' = loaded
        /\ UpdateLocation \/ Browse([location EXCEPT !.part = active])
    BY <1>16 DEF CloseDialog, Event, sd
  <2> QED
    BY <1>0, <1>2, <1>15, <2>1, BrowseType, QuietStep
<1>17. ASSUME NEW copies \in BOOLEAN, NEW pastes \in BOOLEAN, UseClipboard(copies, pastes)
       PROVE  PlaceInv' /\ Kept
  <2>1. /\ setup' = setup /\ active' = active /\ loaded' = loaded /\ location' = location
        /\ \/ files' = SaveSteps(files, Clipboard(Target), Content(Target), TRUE, Answers)[5]
           \/ files' = files
    BY <1>17 DEF UseClipboard, Event, Saved
  <2>2. CASE files' = files
    BY <1>4, <2>1, <2>2
  <2>3. CASE files' = SaveSteps(files, Clipboard(Target), Content(Target), TRUE, Answers)[5]
    <3>1. 5 \in 1..5
      OBVIOUS
    <3>2. Kept /\ DOMAIN files' = Places \cup Clipboards /\ HasFiles(files')
      BY <2>3, <3>1, ClipboardSaved
    <3> QED
      BY <1>0, <2>1, <3>2 DEF PlaceInv
  <2> QED
    BY <2>1, <2>2, <2>3
<1>18. ASSUME NEW o \in {"PROGRAM", "MULTI"}, NEW b \in 0..(Banks - 1), NEW s \in 0..(Slots - 1),
              ProgramChange(o, b, s)
       PROVE  PlaceInv' /\ Kept
  <2>1. /\ files' = files /\ setup' = setup /\ active' = active
        /\ \/ loaded' = loaded
           \/ \E parts : loaded' = [i \in Indices |->
                 IF i \in {Index(o, p) : p \in parts} THEN <<b, s>> ELSE loaded[i]]
        /\ location' = [object |-> o, part |-> IF o = "MULTI" THEN 0 ELSE Max(setup.listens),
                        bank |-> b, slot |-> s, named |-> FALSE]
        /\ setup.listens # {}
    BY <1>18 DEF ProgramChange
  <2>2. loaded' \in [Indices -> Homes]
    BY <1>0, <2>1 DEF Homes
  <2>3. (IF o = "MULTI" THEN 0 ELSE Max(setup.listens)) \in Parts
    BY <1>0, <2>1, LastListener, LibraryAssumption DEF Parts
  <2>4. location' \in Locations
    BY <2>1, <2>3 DEF Locations, Objects
  <2> QED
    BY <1>0, <2>1, <2>2, <2>4, QuietStep
<1>19. ASSUME NEW k \in 1..4, PowerFails(k) PROVE PlaceInv' /\ Kept
  <2>1. /\ setup' = setup /\ active' = 0 /\ loaded' = [i \in Indices |-> <<0, 0>>]
        /\ location' = [object |-> "PROGRAM", part |-> 0, bank |-> 0, slot |-> 0, named |-> FALSE]
        /\ \/ files' = SaveSteps(files, PlaceOf(location), Content(location), setup.backups, Answers)[k]
           \/ files' = SaveSteps(files, Clipboard(Target), Content(Target), TRUE, Answers)[k]
    BY <1>19 DEF PowerFails
  <2>2. 0 \in Parts /\ 0 \in 0..(Banks - 1) /\ 0 \in 0..(Slots - 1)
    BY LibraryAssumption DEF Parts
  <2>3. location' \in Locations /\ loaded' \in [Indices -> Homes]
    BY <2>1, <2>2 DEF Locations, Objects, Homes
  <2>4. Kept /\ DOMAIN files' = Places \cup Clipboards /\ HasFiles(files')
    <3>1. k \in 1..5
      OBVIOUS
    <3>2. CASE files' = SaveSteps(files, PlaceOf(location), Content(location), setup.backups, Answers)[k]
      BY <3>1, <3>2, LocationSaved
    <3>3. CASE files' = SaveSteps(files, Clipboard(Target), Content(Target), TRUE, Answers)[k]
      BY <3>1, <3>3, ClipboardSaved
    <3> QED
      BY <2>1, <3>2, <3>3
  <2> QED
    BY <1>0, <2>1, <2>2, <2>3, <2>4 DEF PlaceInv
<1>20. ASSUME NEW idle \in BOOLEAN, EndOfTurn(idle) PROVE PlaceInv' /\ Kept
  <2>1. /\ files' = files /\ setup' = setup /\ active' = active
        /\ CommitLoad(location) \/ loaded' = loaded
        /\ UpdateLocation \/ location' = location
    BY <1>20 DEF EndOfTurn, sd
  <2>2. loaded' \in [Indices -> Homes]
    BY <1>0, <2>1, LoadType DEF CommitLoad
  <2> QED
    BY <1>0, <1>15, <2>1, <2>2, QuietStep
<1> QED
  BY <1>5, <1>6, <1>7, <1>8, <1>9, <1>10, <1>11, <1>12, <1>13, <1>14, <1>16, <1>17, <1>18, <1>19,
     <1>20 DEF Next

\* For every card and every sequence of events: where backups are made, and the card
\* answers the calls that make them, a save that is cut off leaves the old file or the
\* new one (Storage::Save, storage.cc:515).
THEOREM SavesAreRecoverable == Spec => KeptCopySurvives
<1> DEFINE A == \A p \in DOMAIN files :
                  Answers /\ (setup.backups \/ p \in Clipboards) /\ Whole(files[p].file) =>
                    Whole(files'[p].file) \/ files'[p].backup = files[p].file
<1>1. PlaceInv /\ [Next]_vars => PlaceInv' /\ [A]_vars
  BY NextPlaces DEF Kept, Keeps
<1> HIDE DEF A
<1>2. Spec => [][A]_vars
  BY <1>1, InitPlaces, PTL DEF Spec
<1> QED
  BY <1>2 DEF KeptCopySurvives, A

-----------------------------------------------------------------------------
(* What the screen shows.                                                  *)

\* Every program change finds its file.
FilesAreThere ==
  "Program" \in setup.events => card # "out" /\ \A p \in Places : Whole(files[p].file)

\* What is shown is loaded, will be, or is about to be read again; and a part that was
\* selected is followed at the end of the turn.
ScreenInv ==
  ProgramsAreThere =>
    /\ FilesAreThere
    /\ action = "browse" => armed \/ IsLoaded(location) \/ dirty
    /\ page # "other" /\ dialog = "none" => location.part = active \/ busy \/ dirty

\* While a load is pending the page is not left, and the location is the one chosen.
PendingInv ==
  OnlyTheEncoderMoves =>
    /\ armed => Browsing /\ chosen = location /\ setup.delay # 0 /\ "Turn" \in setup.events
    /\ "Turn" \in setup.events => ~dirty /\ location.part = active

LEMMA BrowseShows ==
  ASSUME NEW l \in Locations, Browse(l), loaded' \in [Indices -> Homes]
  PROVE  /\ action' = "browse" /\ location'.part = l.part
         /\ BankSlot(location') = loaded'[IndexOf(location')]
<1>1. loaded'[IndexOf(l)] \in Homes
  BY LocationParts
<1>2. location' = [l EXCEPT !.bank = loaded'[IndexOf(l)][1], !.slot = loaded'[IndexOf(l)][2],
                            !.named = TRUE]
  BY DEF Browse
<1>3. location'.part = l.part /\ location'.object = l.object
  BY <1>2 DEF Locations
<1>4. IndexOf(location') = IndexOf(l)
  BY <1>3 DEF IndexOf
<1>5. BankSlot(location') = <<loaded'[IndexOf(l)][1], loaded'[IndexOf(l)][2]>>
  BY <1>2 DEF BankSlot, Locations
<1>6. BankSlot(location') = loaded'[IndexOf(l)]
  BY <1>1, <1>5 DEF Homes
<1> QED
  BY <1>3, <1>4, <1>6 DEF Browse

LEMMA CommitShows ==
  ASSUME NEW l \in Locations, loaded \in [Indices -> Homes], CommitLoad(l)
  PROVE  loaded'[IndexOf(l)] = BankSlot(l) /\ armed' = FALSE /\ loaded' \in [Indices -> Homes]
BY LocationParts DEF CommitLoad

\* A save, and a copy to the clipboard, leave a file where there was one.
LEMMA SaveIsThere ==
  ASSUME PlaceInv, NEW p \in DOMAIN files, NEW content, Whole(content),
         NEW backsUp \in BOOLEAN, NEW k \in 1..5, k = 5,
         files' = SaveSteps(files, p, content, backsUp, Answers)[k],
         \A q \in Places : Whole(files[q].file)
  PROVE  \A q \in Places : Whole(files'[q].file)
<1>0. HasFiles(files)
  BY DEF PlaceInv
<1>1. OnlyAt(files, files', p) /\ files'[p].file = content
  <2>1. Answers \in BOOLEAN
    BY DEF Answers
  <2> QED
    BY <1>0, <2>1, SaveKeeps
<1>2. ASSUME NEW q \in Places PROVE Whole(files'[q].file)
  <2>1. q \in DOMAIN files
    BY DEF PlaceInv
  <2> QED
    BY <1>1, <2>1 DEF OnlyAt
<1> QED
  BY <1>2

LEMMA SetupStays == [Next]_vars => setup' = setup
BY DEF Next, vars, OnIncrementBrowse, OnIncrementSave, OnClick, SelectPart, OnKeyObject, OnKeySaveMode,
       OnKeyInit, LeaveVersions, OpenLibrary, OnKeyLeave, OnKeyLetter, OnKeySave, OnKeyCancel, CloseDialog,
       UseClipboard, ProgramChange, EditSound, MoveCard, PowerFails, EndOfTurn, TimePasses, Event

LEMMA FilesStay ==
  ASSUME PlaceInv, ProgramsAreThere, FilesAreThere, [Next]_vars
  PROVE  FilesAreThere'
<1> SUFFICES ASSUME "Program" \in setup'.events PROVE card' # "out" /\ \A p \in Places : Whole(files'[p].file)
  BY DEF FilesAreThere
<1>1. /\ "Program" \in setup.events /\ card # "out" /\ \A p \in Places : Whole(files[p].file)
      /\ "Card" \notin setup.events /\ "Crash" \notin setup.events
  BY SetupStays DEF FilesAreThere, ProgramsAreThere
<1>2. CASE OnKeySave
  <2>1. CASE CanOpen
    <3>1. files' = SaveSteps(files, PlaceOf(location), Content(location), setup.backups, Answers)[5] /\ card' = card
      BY <1>2, <2>1 DEF OnKeySave, Saved
    <3>2. setup.backups \in BOOLEAN /\ location \in Locations
      BY LibraryAssumption DEF PlaceInv, Setup
    <3>3. PlaceOf(location) \in DOMAIN files /\ Whole(Content(location))
      BY <3>2, LocationParts, ContentsAreWhole DEF PlaceInv, Content
    <3>4. 5 \in 1..5
      OBVIOUS
    <3> QED
      BY <1>1, <3>1, <3>2, <3>3, <3>4, SaveIsThere
  <2>2. CASE ~CanOpen
    BY <1>1, <1>2, <2>2 DEF OnKeySave
  <2> QED
    BY <2>1, <2>2
<1>3. ASSUME NEW copies \in BOOLEAN, NEW pastes \in BOOLEAN, UseClipboard(copies, pastes)
      PROVE  card' # "out" /\ \A p \in Places : Whole(files'[p].file)
  <2>1. /\ card' # "out"
        /\ \/ files' = SaveSteps(files, Clipboard(Target), Content(Target), TRUE, Answers)[5]
           \/ files' = files
    BY <1>1, <1>3 DEF UseClipboard, Saved
  <2>2. Target \in Locations
    BY TargetType
  <2>3. Clipboard(Target) \in DOMAIN files /\ Whole(Content(Target))
    BY <2>2, LocationParts, ContentsAreWhole DEF PlaceInv, Content
  <2>4. 5 \in 1..5 /\ TRUE \in BOOLEAN
    OBVIOUS
  <2>5. CASE files' = SaveSteps(files, Clipboard(Target), Content(Target), TRUE, Answers)[5]
    BY <1>1, <2>1, <2>3, <2>4, <2>5, SaveIsThere
  <2> QED
    BY <1>1, <2>1, <2>5
<1>4. CASE (\E to \in {"other", "versions"} : OnKeyLeave(to)) \/ OpenLibrary
  BY <1>1, <1>4 DEF OnKeyLeave, OpenLibrary, Tried
<1>5. ASSUME NEW o, NEW b, NEW s, ProgramChange(o, b, s) PROVE files' = files /\ card' = card
  BY <1>5 DEF ProgramChange
<1>6. CASE MoveCard \/ \E k \in 1..4 : PowerFails(k)
  BY <1>1, <1>6 DEF MoveCard, PowerFails
<1>7. CASE \/ \E d \in {-1, 1} : OnIncrementBrowse(d) \/ OnIncrementSave(d)
           \/ OnClick \/ \E p \in Parts : SelectPart(p)
           \/ OnKeyObject \/ OnKeySaveMode \/ OnKeyInit \/ LeaveVersions \/ OnKeyLetter \/ OnKeyCancel
           \/ \E yes \in BOOLEAN : CloseDialog(yes)
           \/ EditSound \/ TimePasses \/ \E idle \in BOOLEAN : EndOfTurn(idle)
           \/ UNCHANGED vars
  <2>1. files' = files /\ card' = card
    BY <1>7 DEF OnIncrementBrowse, OnIncrementSave, OnClick, SelectPart, OnKeyObject, OnKeySaveMode,
       OnKeyInit, LeaveVersions, OnKeyLetter, OnKeyCancel, CloseDialog, EditSound, TimePasses, EndOfTurn,
       Tried, sd, vars
  <2> QED
    BY <1>1, <2>1
<1> QED
  BY <1>1, <1>2, <1>3, <1>4, <1>5, <1>6, <1>7 DEF Next

\* The two claims about the screen, in the state after a step.
Shows   == action' = "browse" => armed' \/ IsLoaded(location)' \/ dirty'
Follows == page' # "other" /\ dialog' = "none" => location'.part = active' \/ busy' \/ dirty'

LEMMA BrowsedShows ==
  ASSUME NEW l \in Locations, Browse(l), loaded' \in [Indices -> Homes]
  PROVE  Shows /\ location'.part = l.part
BY BrowseShows DEF Shows, IsLoaded, IndexOf, BankSlot

LEMMA ScreenKept ==
  ASSUME PlaceInv, PlaceInv', ScreenInv, ProgramsAreThere, [Next]_vars
  PROVE  Shows /\ Follows
<1>0. /\ location \in Locations /\ loaded \in [Indices -> Homes] /\ loaded' \in [Indices -> Homes]
      /\ active \in Parts /\ setup \in Setups
  BY DEF PlaceInv
<1>1. /\ FilesAreThere
      /\ action = "browse" => armed \/ IsLoaded(location) \/ dirty
      /\ page # "other" /\ dialog = "none" => location.part = active \/ busy \/ dirty
  BY DEF ScreenInv
<1>2. \A o \in Objects : [location EXCEPT !.object = o] \in Locations
  BY <1>0 DEF Locations
<1>3. [location EXCEPT !.part = active] \in Locations /\ [location EXCEPT !.part = active].part = active
  BY <1>0 DEF Locations
<1>4. ASSUME busy', page' # "other" => page # "other" PROVE Follows
  BY <1>4 DEF Follows
<1>5. ASSUME UNCHANGED <<action, armed, location, dirty, loaded>> PROVE Shows
  BY <1>1, <1>5 DEF Shows, IsLoaded, IndexOf, BankSlot
<1>6. ASSUME UNCHANGED <<location, dirty>>, armed \/ IsLoaded(location) \/ dirty,
             CommitLoad(location) \/ (UNCHANGED <<armed, loaded>>)
      PROVE  Shows
  BY <1>0, <1>6, CommitShows DEF Shows, IsLoaded, IndexOf, BankSlot
<1>7. ASSUME NEW d \in {-1, 1}, OnIncrementBrowse(d) PROVE Shows /\ Follows
  <2> DEFINE l == Moved(location, d)
  <2>1. /\ location' = l /\ busy'
        /\ \/ IsLoaded(l) /\ loaded' = loaded
           \/ CommitLoad(l)
           \/ armed' = TRUE
    BY <1>7 DEF OnIncrementBrowse, ArmLoad, Event, memory
  <2>2. l \in Locations
    BY <1>0, MovedType
  <2> HIDE DEF l
  <2> QED
    BY <1>0, <2>1, <2>2, CommitShows DEF Shows, Follows, IsLoaded, IndexOf, BankSlot
<1>8. ASSUME NEW d \in {-1, 1}, OnIncrementSave(d) PROVE Shows /\ Follows
  BY <1>8 DEF OnIncrementSave, Saving, Event, Shows, Follows
<1>9. CASE OnClick \/ EditSound \/ LeaveVersions \/ \E p \in Parts : SelectPart(p)
  <2>1. busy' /\ UNCHANGED <<action, armed, location, dirty, loaded>>
    BY <1>9 DEF OnClick, EditSound, LeaveVersions, SelectPart, Event, browser, pending, memory
  <2> QED
    BY <1>5, <2>1 DEF Follows
<1>10. CASE OnKeyObject
  <2>1. NextObject(location.object) \in Objects
    BY <1>0 DEF Locations, Objects, NextObject
  <2>2. busy' /\ Browse([location EXCEPT !.object = NextObject(location.object)])
    BY <1>10 DEF OnKeyObject, Event
  <2> QED
    BY <1>0, <1>2, <2>1, <2>2, BrowsedShows DEF Follows
<1>11. CASE OnKeySaveMode \/ OnKeyLetter
  BY <1>11 DEF OnKeySaveMode, OnKeyLetter, Saving, OnLibrary, Event, Shows, Follows
<1>12. CASE OnKeyInit
  <2>1. /\ busy' /\ UNCHANGED <<location, dirty>> /\ action = "browse"
        /\ CommitLoad(location) \/ (UNCHANGED <<armed, loaded>>)
    BY <1>12 DEF OnKeyInit, FlushDeferredLoad, Browsing, Event
  <2> QED
    BY <1>1, <1>6, <2>1 DEF Follows
<1>13. ASSUME NEW to \in {"other", "versions"}, OnKeyLeave(to) PROVE Shows /\ Follows
  <2>1. /\ busy' /\ UNCHANGED <<location, dirty>> /\ action = "browse"
        /\ CommitLoad(location) \/ (UNCHANGED <<armed, loaded>>)
    BY <1>13 DEF OnKeyLeave, Browsing, Event, memory
  <2> QED
    BY <1>1, <1>6, <2>1 DEF Follows
<1>14. CASE OpenLibrary
  <2>1. busy' /\ Browse([location EXCEPT !.part = active])
    BY <1>14 DEF OpenLibrary, Event
  <2> QED
    BY <1>0, <1>3, <2>1, BrowsedShows DEF Follows
<1>15. CASE OnKeySave
  <2>1. busy' /\ (Browse(location) \/ action' = "save")
    BY <1>15 DEF OnKeySave, Saving, Event
  <2> QED
    BY <1>0, <2>1, BrowsedShows DEF Follows, Shows
<1>16. CASE OnKeyCancel
  <2>1. busy' /\ Browse(location)
    BY <1>16 DEF OnKeyCancel, Event
  <2> QED
    BY <1>0, <2>1, BrowsedShows DEF Follows
<1>17. ASSUME NEW yes \in BOOLEAN, CloseDialog(yes) PROVE Shows /\ Follows
  <2>1. /\ busy' /\ UNCHANGED <<armed, loaded>>
        /\ \/ Browse([location EXCEPT !.part = active])
           \/ UNCHANGED <<action, location, dirty>>
    BY <1>17 DEF CloseDialog, UpdateLocation, Event, pending
  <2> QED
    BY <1>0, <1>3, <1>5, <2>1, BrowsedShows DEF Follows
<1>18. ASSUME NEW copies \in BOOLEAN, NEW pastes \in BOOLEAN, UseClipboard(copies, pastes)
       PROVE  Shows /\ Follows
  <2>1. busy' /\ UNCHANGED <<action, armed, location, dirty, loaded>>
    BY <1>18 DEF UseClipboard, Event, pending
  <2> QED
    BY <1>5, <2>1 DEF Follows
<1>19. ASSUME NEW o \in {"PROGRAM", "MULTI"}, NEW b \in 0..(Banks - 1), NEW s \in 0..(Slots - 1),
              ProgramChange(o, b, s)
       PROVE  Shows /\ Follows
  <2> DEFINE l == [object |-> o, part |-> IF o = "MULTI" THEN 0 ELSE Max(setup.listens), bank |-> b,
                   slot |-> s, named |-> FALSE]
  <2>1. "Program" \in setup.events /\ setup.listens # {} /\ location' = l
    BY <1>19 DEF ProgramChange
  <2>2. l \in Locations
    BY <2>1 DEF PlaceInv
  <2>3. card # "out" /\ Whole(files[PlaceOf(l)].file)
    BY <1>1, <2>1, <2>2, LocationParts DEF FilesAreThere
  <2>4. dirty' = TRUE
    BY <1>19, <2>3 DEF ProgramChange
  <2> QED
    BY <2>4 DEF Shows, Follows
<1>20. CASE MoveCard \/ TimePasses \/ UNCHANGED vars
  <2>1. UNCHANGED <<action, location, dirty, loaded, page, dialog, active, busy>>
    BY <1>20 DEF MoveCard, TimePasses, vars, browser, memory
  <2>2. armed' = armed
    BY <1>20 DEF MoveCard, TimePasses, vars, pending
  <2> QED
    BY <1>1, <1>5, <2>1, <2>2 DEF Follows
<1>21. ASSUME NEW k \in 1..4, PowerFails(k) PROVE Shows /\ Follows
  <2>1. /\ page' = "other" /\ loaded' = [i \in Indices |-> <<0, 0>>]
        /\ location' = [object |-> "PROGRAM", part |-> 0, bank |-> 0, slot |-> 0, named |-> FALSE]
    BY <1>21 DEF PowerFails
  <2>2. location' \in Locations
    BY DEF PlaceInv
  <2>3. IndexOf(location') \in Indices /\ BankSlot(location') = <<0, 0>>
    BY <2>1, <2>2, LocationParts DEF BankSlot
  <2> QED
    BY <2>1, <2>3 DEF Shows, Follows, IsLoaded, IndexOf, BankSlot
<1>22. ASSUME NEW idle \in BOOLEAN, EndOfTurn(idle) PROVE Shows /\ Follows
  <2>1. /\ busy' = FALSE /\ UNCHANGED <<page, dialog, active>>
        /\ CommitLoad(location) \/ (UNCHANGED <<armed, loaded>>)
    BY <1>22 DEF EndOfTurn
  <2>2. CASE Browse([location EXCEPT !.part = active])
    BY <1>0, <1>3, <2>1, <2>2, BrowsedShows DEF Follows
  <2>3. CASE ~Browse([location EXCEPT !.part = active])
    <3>1. /\ UNCHANGED <<action, location, dirty>>
          /\ ~(page # "other" /\ dialog = "none" /\ busy /\ location.part # active)
      BY <1>22, <2>3 DEF EndOfTurn, UpdateLocation
    <3>2. action' = "browse" => Shows
      BY <1>1, <1>6, <2>1, <3>1
    <3> QED
      BY <1>1, <2>1, <3>1, <3>2 DEF Shows, Follows
  <2> QED
    BY <2>2, <2>3
<1> QED
  BY <1>7, <1>8, <1>9, <1>10, <1>11, <1>12, <1>13, <1>14, <1>15, <1>16, <1>17, <1>18, <1>19, <1>20,
     <1>21, <1>22 DEF Next

LEMMA ScreenInit == Init => ScreenInv
<1> SUFFICES ASSUME Init, ProgramsAreThere PROVE FilesAreThere /\ IsLoaded(location) /\ location.part = active
  BY DEF Init, ScreenInv
<1>1. location.part = active
  BY DEF Init
<1>2. IsLoaded(location)
  <2>1. PlaceInv
    BY InitPlaces
  <2>2. IndexOf(location) \in Indices
    BY <2>1, LocationParts DEF PlaceInv
  <2> QED
    BY <2>2 DEF Init, IsLoaded, BankSlot
<1>3. ASSUME "Program" \in setup.events, NEW p \in Places PROVE Whole(files[p].file)
  <2>1. p \notin setup.empty \cup Clipboards
    <3>1. p[2] # -1
      BY LibraryAssumption DEF Places
    <3> QED
      BY <1>3, <3>1 DEF ProgramsAreThere, Clipboards
  <2>2. files[p].file.name = p
    BY <2>1 DEF Init
  <2>3. Missing.name = <<"missing">> /\ Torn.name = <<"torn">>
    BY DEF Missing, Torn
  <2>4. \A x \in Places : x # <<"missing">> /\ x # <<"torn">>
    BY DEF Places
  <2> QED
    BY <2>2, <2>3, <2>4 DEF Whole
<1>4. card # "out"
  BY DEF Init
<1> QED
  BY <1>1, <1>2, <1>3, <1>4 DEF FilesAreThere

\* The library shows the slot that is loaded: the browser, the load put off, the dialogs,
\* other parts and program changes agree about the location (library.cc Browse,
\* CommitLoad, UpdateLocation).
THEOREM ShowsWhatIsLoaded == Spec => []ShownIsLoaded
<1>1. PlaceInv /\ [Next]_vars => PlaceInv'
  BY NextPlaces
<1>2. PlaceInv /\ PlaceInv' /\ ScreenInv /\ [Next]_vars => ScreenInv'
  <2> SUFFICES ASSUME PlaceInv, PlaceInv', ScreenInv, [Next]_vars, ProgramsAreThere' PROVE ScreenInv'
    BY DEF ScreenInv
  <2>1. ProgramsAreThere
    BY SetupStays DEF ProgramsAreThere
  <2>2. FilesAreThere' /\ Shows /\ Follows
    BY <2>1, FilesStay, ScreenKept DEF ScreenInv
  <2> QED
    BY <2>2 DEF ScreenInv, Shows, Follows
<1>3. ScreenInv => ShownIsLoaded
  BY DEF ScreenInv, ShownIsLoaded
<1> QED
  BY <1>1, <1>2, <1>3, InitPlaces, ScreenInit, PTL DEF Spec

-----------------------------------------------------------------------------
(* What becomes of a pending load.                                         *)

\* A load that is no longer pending has been done, for the place that was chosen.
Done == armed /\ ~armed' => loaded'[IndexOf(chosen)] = BankSlot(chosen)

Pends ==
  armed' => /\ page' = "library" /\ dialog' = "none" /\ action' = "browse" /\ chosen' = location'
            /\ setup.delay # 0 /\ "Turn" \in setup.events

Stays == "Turn" \in setup.events => ~dirty' /\ location'.part = active'

LEMMA PendingInit == Init => PendingInv
BY DEF Init, PendingInv

LEMMA PendingKept ==
  ASSUME PlaceInv, PlaceInv', OnlyTheEncoderMoves, PendingInv, [Next]_vars
  PROVE  Done /\ Pends /\ Stays
<1>0. /\ location \in Locations /\ loaded \in [Indices -> Homes] /\ loaded' \in [Indices -> Homes]
      /\ active \in Parts /\ setup \in Setups
  BY DEF PlaceInv
<1>1. /\ armed => /\ page = "library" /\ dialog = "none" /\ action = "browse" /\ chosen = location
                  /\ setup.delay # 0 /\ "Turn" \in setup.events
      /\ "Turn" \in setup.events => ~dirty /\ location.part = active
  BY DEF PendingInv, Browsing, OnLibrary
<1>2. [location EXCEPT !.part = active] \in Locations /\ [location EXCEPT !.part = active].part = active
  BY <1>0 DEF Locations
<1>3. \A o \in Objects : [location EXCEPT !.object = o] \in Locations
                         /\ [location EXCEPT !.object = o].part = location.part
  BY <1>0 DEF Locations
<1>4. ASSUME CommitLoad(location) PROVE Done /\ armed' = FALSE /\ Pends
  BY <1>0, <1>1, <1>4, CommitShows DEF Done, Pends
<1>5. ASSUME UNCHANGED armed, armed => UNCHANGED <<page, dialog, action, chosen, location>>
      PROVE  Done /\ Pends
  BY <1>1, <1>5 DEF Done, Pends
<1>6. ASSUME CommitLoad(location) \/ UNCHANGED armed, ~armed \/ CommitLoad(location) PROVE Done /\ Pends
  <2>1. CASE CommitLoad(location)
    BY <1>4, <2>1
  <2>2. CASE UNCHANGED armed /\ ~armed
    BY <2>2 DEF Done, Pends
  <2> QED
    BY <1>6, <2>1, <2>2
<1>7. ASSUME NEW d \in {-1, 1}, OnIncrementBrowse(d) PROVE Done /\ Pends /\ Stays
  <2> DEFINE l == Moved(location, d)
  <2>1. /\ location' = l /\ chosen' = l /\ "Turn" \in setup.events
        /\ UNCHANGED <<page, dialog, action, dirty, active>>
        /\ page = "library" /\ dialog = "none" /\ action = "browse"
    BY <1>7 DEF OnIncrementBrowse, Event, Browsing, OnLibrary
  <2>2. l.part = location.part
    BY <1>0 DEF Moved, Locations
  <2>3. \/ armed' = armed
        \/ setup.delay = 0 /\ armed' = FALSE
        \/ setup.delay # 0 /\ armed' = TRUE
    BY <1>7 DEF OnIncrementBrowse, ArmLoad, CommitLoad
  <2> HIDE DEF l
  <2> QED
    BY <1>1, <2>1, <2>2, <2>3 DEF Done, Pends, Stays
<1>8. ASSUME NEW d \in {-1, 1}, OnIncrementSave(d) PROVE Done /\ Pends /\ Stays
  <2>1. action = "save" /\ armed' = armed /\ UNCHANGED <<dirty, active>>
    BY <1>8 DEF OnIncrementSave, Saving, pending
  <2>2. location' = location \/ location' = Moved(location, d)
    BY <1>8 DEF OnIncrementSave
  <2>3. location'.part = location.part
    BY <1>0, <2>2 DEF Moved, Locations
  <2> QED
    BY <1>1, <2>1, <2>3 DEF Done, Pends, Stays
<1>9. CASE OnClick \/ OnKeyLetter \/ MoveCard \/ TimePasses \/ UNCHANGED vars
  <2>1. UNCHANGED <<page, dialog, action, dirty, active, location, chosen, armed>>
    BY <1>9 DEF OnClick, OnKeyLetter, MoveCard, TimePasses, vars, browser, pending
  <2> QED
    BY <1>1, <1>5, <2>1 DEF Stays
<1>10. ASSUME NEW p \in Parts, SelectPart(p) PROVE Done /\ Pends /\ Stays
  <2>1. "Part" \in setup.events /\ armed' = armed
    BY <1>10 DEF SelectPart, Event, pending
  <2>2. "Turn" \notin setup.events
    BY <2>1 DEF OnlyTheEncoderMoves
  <2> QED
    BY <1>1, <2>1, <2>2 DEF Done, Pends, Stays
<1>11. CASE OnKeyObject
  <2>1. NextObject(location.object) \in Objects
    BY <1>0 DEF Locations, Objects, NextObject
  <2>2. /\ Browse([location EXCEPT !.object = NextObject(location.object)])
        /\ UNCHANGED <<dirty, active>>
        /\ CommitLoad(location) \/ (UNCHANGED <<armed, loaded>> /\ ~armed)
    BY <1>11 DEF OnKeyObject, FlushDeferredLoad
  <2>3. location'.part = location.part
    BY <1>0, <1>3, <2>1, <2>2, BrowseShows
  <2> QED
    BY <1>1, <1>6, <2>2, <2>3 DEF Stays
<1>12. CASE OnKeySaveMode \/ OnKeyInit \/ \E to \in {"other", "versions"} : OnKeyLeave(to)
  <2>1. /\ UNCHANGED <<location, dirty, active>>
        /\ CommitLoad(location) \/ (UNCHANGED <<armed, loaded>> /\ ~armed)
    BY <1>12 DEF OnKeySaveMode, OnKeyInit, OnKeyLeave, FlushDeferredLoad, memory
  <2> QED
    BY <1>1, <1>6, <2>1 DEF Stays
<1>13. CASE LeaveVersions \/ EditSound \/ \E copies, pastes \in BOOLEAN : UseClipboard(copies, pastes)
  <2>1. page # "library" /\ UNCHANGED <<location, dirty, active, armed>>
    BY <1>13 DEF LeaveVersions, EditSound, UseClipboard, browser, pending
  <2> QED
    BY <1>1, <1>5, <2>1 DEF Stays
<1>14. CASE OpenLibrary
  <2>1. /\ Browse([location EXCEPT !.part = active]) /\ dirty' = FALSE /\ active' = active
        /\ CommitLoad(location) \/ (UNCHANGED <<armed, loaded>> /\ ~armed)
    BY <1>14 DEF OpenLibrary, FlushDeferredLoad
  <2>2. location'.part = active
    BY <1>0, <1>2, <2>1, BrowseShows
  <2> QED
    BY <1>6, <2>1, <2>2 DEF Stays
<1>15. CASE OnKeySave \/ OnKeyCancel
  <2>1. /\ action = "save" /\ UNCHANGED <<armed, dirty, active>>
        /\ Browse(location) \/ location' = location
    BY <1>15 DEF OnKeySave, OnKeyCancel, Saving, pending
  <2>2. location'.part = location.part
    BY <1>0, <2>1, BrowseShows
  <2> QED
    BY <1>1, <2>1, <2>2 DEF Done, Pends, Stays
<1>16. ASSUME NEW yes \in BOOLEAN, CloseDialog(yes) PROVE Done /\ Pends /\ Stays
  <2>1. /\ dialog # "none" /\ UNCHANGED <<armed, active>>
        /\ \/ Browse([location EXCEPT !.part = active]) /\ dirty' = FALSE
           \/ UNCHANGED <<location, dirty>>
    BY <1>16 DEF CloseDialog, UpdateLocation, pending
  <2>2. Stays
    BY <1>0, <1>1, <1>2, <2>1, BrowseShows DEF Stays
  <2> QED
    BY <1>1, <2>1, <2>2 DEF Done, Pends
<1>17. ASSUME NEW o, NEW b, NEW s, ProgramChange(o, b, s) PROVE Done /\ Pends /\ Stays
  <2>1. "Program" \in setup.events /\ armed' = armed
    BY <1>17 DEF ProgramChange, pending
  <2>2. "Turn" \notin setup.events
    BY <2>1 DEF OnlyTheEncoderMoves
  <2> QED
    BY <1>1, <2>1, <2>2 DEF Done, Pends, Stays
<1>18. ASSUME NEW k \in 1..4, PowerFails(k) PROVE Done /\ Pends /\ Stays
  <2>1. /\ action = "save" \/ page # "library"
        /\ armed' = FALSE /\ dirty' = FALSE /\ active' = 0 /\ location'.part = 0
    BY <1>18 DEF PowerFails, Saving
  <2> QED
    BY <1>1, <2>1 DEF Done, Pends, Stays
<1>19. ASSUME NEW idle \in BOOLEAN, EndOfTurn(idle) PROVE Done /\ Pends /\ Stays
  <2>1. /\ UNCHANGED <<page, dialog, active, chosen>>
        /\ CommitLoad(location) \/ (UNCHANGED <<armed, loaded>>)
    BY <1>19 DEF EndOfTurn
  <2>2. CASE "Turn" \in setup.events
    <3>1. ~(location.part # active \/ dirty)
      BY <1>1, <2>2
    <3>2. UNCHANGED <<action, location, dirty>>
      BY <1>19, <3>1 DEF EndOfTurn
    <3> QED
      BY <1>1, <1>4, <1>5, <2>1, <3>2 DEF Stays
  <2>3. CASE "Turn" \notin setup.events
    BY <1>1, <1>4, <1>5, <2>1, <2>3 DEF Stays
  <2> QED
    BY <2>2, <2>3
<1> QED
  BY <1>7, <1>8, <1>9, <1>10, <1>11, <1>12, <1>13, <1>14, <1>15, <1>16, <1>17, <1>18, <1>19 DEF Next

\* A load that waits for the encoder to be still is done before anything else moves the
\* location, for the slot that was chosen (TickDeferredLoad, FlushDeferredLoad).
THEOREM PendingLoadsAreDone == Spec => PendingLoadIsNotLost
<1> DEFINE A == OnlyTheEncoderMoves /\ armed /\ ~armed' => loaded'[IndexOf(chosen)] = BankSlot(chosen)
<1>1. PlaceInv /\ [Next]_vars => PlaceInv'
  BY NextPlaces
<1>2. PlaceInv /\ PlaceInv' /\ PendingInv /\ [Next]_vars => PendingInv' /\ [A]_vars
  <2> SUFFICES ASSUME PlaceInv, PlaceInv', PendingInv, [Next]_vars PROVE PendingInv' /\ A
    OBVIOUS
  <2>1. setup' = setup
    BY SetupStays
  <2>2. OnlyTheEncoderMoves => Done /\ Pends /\ Stays
    BY PendingKept
  <2>3. PendingInv'
    BY <2>1, <2>2 DEF PendingInv, Pends, Stays, OnlyTheEncoderMoves, Browsing, OnLibrary
  <2>4. A
    BY <2>2 DEF Done
  <2> QED
    BY <2>3, <2>4
<1> HIDE DEF A
<1>3. Spec => [][A]_vars
  BY <1>1, <1>2, InitPlaces, PendingInit, PTL DEF Spec
<1> QED
  BY <1>3 DEF PendingLoadIsNotLost, A

-----------------------------------------------------------------------------
(* The rows of the table.                                                  *)

Single(level, offset, unit, min, max, cc) ==
  [level |-> level, offset |-> offset, unit |-> unit, min |-> min, max |-> max, cc |-> cc,
   instances |-> 1, stride |-> 0, indexedBy |-> None]

Bank(level, offset, unit, min, max, cc, instances, stride, indexedBy) ==
  [level |-> level, offset |-> offset, unit |-> unit, min |-> min, max |-> max, cc |-> cc,
   instances |-> instances, stride |-> stride, indexedBy |-> indexedBy]

\* The tuples of the table, whatever group they are of.
RowSet == {OscillatorRows[i] : i \in 1..8} \cup {MixerRows[i] : i \in 1..8}
            \cup {FilterRows[i] : i \in 1..8} \cup {EnvelopeRows[i] : i \in 1..10}
            \cup {ModulationRows[i] : i \in 1..8} \cup {PartRows[i] : i \in 1..16}
            \cup {MultiRows[i] : i \in 1..8} \cup {OtherRows[i] : i \in 1..13}

\* A sequence of n elements of R.
IsRun(s, R, n) == s \in Seq(R) /\ Len(s) = n

LEMMA SequenceOfItsRows ==
  ASSUME NEW T, NEW S \in SUBSET T, NEW rows \in Seq(S)
  PROVE  rows \in Seq(T)
OBVIOUS

LEMMA Groups ==
  /\ IsRun(OscillatorRows, RowSet, 8) /\ IsRun(MixerRows, RowSet, 8) /\ IsRun(FilterRows, RowSet, 8)
  /\ IsRun(EnvelopeRows, RowSet, 10) /\ IsRun(ModulationRows, RowSet, 8) /\ IsRun(PartRows, RowSet, 16)
  /\ IsRun(MultiRows, RowSet, 8) /\ IsRun(OtherRows, RowSet, 13)
<1>1. IsRun(OscillatorRows, RowSet, 8)
  <2> DEFINE S == {OscillatorRows[i] : i \in 1..8}
  <2>1. OscillatorRows \in Seq(S) /\ Len(OscillatorRows) = 8
    BY DEF OscillatorRows, Oscillator
  <2>2. S \subseteq RowSet
    BY DEF RowSet
  <2> HIDE DEF S
  <2> QED
    BY <2>1, <2>2, SequenceOfItsRows DEF IsRun
<1>2. IsRun(MixerRows, RowSet, 8)
  <2> DEFINE S == {MixerRows[i] : i \in 1..8}
  <2>1. MixerRows \in Seq(S) /\ Len(MixerRows) = 8
    BY DEF MixerRows
  <2>2. S \subseteq RowSet
    BY DEF RowSet
  <2> HIDE DEF S
  <2> QED
    BY <2>1, <2>2, SequenceOfItsRows DEF IsRun
<1>3. IsRun(FilterRows, RowSet, 8)
  <2> DEFINE S == {FilterRows[i] : i \in 1..8}
  <2>1. FilterRows \in Seq(S) /\ Len(FilterRows) = 8
    BY DEF FilterRows
  <2>2. S \subseteq RowSet
    BY DEF RowSet
  <2> HIDE DEF S
  <2> QED
    BY <2>1, <2>2, SequenceOfItsRows DEF IsRun
<1>4. IsRun(EnvelopeRows, RowSet, 10)
  <2> DEFINE S == {EnvelopeRows[i] : i \in 1..10}
  <2>1. EnvelopeRows \in Seq(S) /\ Len(EnvelopeRows) = 10
    BY DEF EnvelopeRows, Envelope
  <2>2. S \subseteq RowSet
    BY DEF RowSet
  <2> HIDE DEF S
  <2> QED
    BY <2>1, <2>2, SequenceOfItsRows DEF IsRun
<1>5. IsRun(ModulationRows, RowSet, 8)
  <2> DEFINE S == {ModulationRows[i] : i \in 1..8}
  <2>1. ModulationRows \in Seq(S) /\ Len(ModulationRows) = 8
    BY DEF ModulationRows
  <2>2. S \subseteq RowSet
    BY DEF RowSet
  <2> HIDE DEF S
  <2> QED
    BY <2>1, <2>2, SequenceOfItsRows DEF IsRun
<1>6. IsRun(PartRows, RowSet, 16)
  <2> DEFINE S == {PartRows[i] : i \in 1..16}
  <2>1. PartRows \in Seq(S) /\ Len(PartRows) = 16
    BY DEF PartRows
  <2>2. S \subseteq RowSet
    BY DEF RowSet
  <2> HIDE DEF S
  <2> QED
    BY <2>1, <2>2, SequenceOfItsRows DEF IsRun
<1>7. IsRun(MultiRows, RowSet, 8)
  <2> DEFINE S == {MultiRows[i] : i \in 1..8}
  <2>1. MultiRows \in Seq(S) /\ Len(MultiRows) = 8
    BY DEF MultiRows, OfPart
  <2>2. S \subseteq RowSet
    BY DEF RowSet
  <2> HIDE DEF S
  <2> QED
    BY <2>1, <2>2, SequenceOfItsRows DEF IsRun
<1>8. IsRun(OtherRows, RowSet, 13)
  <2> DEFINE S == {OtherRows[i] : i \in 1..13}
  <2>1. OtherRows \in Seq(S) /\ Len(OtherRows) = 13
    BY DEF OtherRows, Setting
  <2>2. S \subseteq RowSet
    BY DEF RowSet
  <2> HIDE DEF S
  <2> QED
    BY <2>1, <2>2, SequenceOfItsRows DEF IsRun
<1> QED
  BY <1>1, <1>2, <1>3, <1>4, <1>5, <1>6, <1>7, <1>8

\* r is s followed by t.
Joined(r, s, m, t, n) ==
  /\ \A i \in 1..m : r[i] = s[i]
  /\ \A i \in 1..n : r[m + i] = t[i]

LEMMA Concatenation ==
  ASSUME NEW m \in Nat, NEW n \in Nat, NEW s, NEW t, NEW R,
         IsRun(s, R, m), IsRun(t, R, n)
  PROVE  IsRun(s \o t, R, m + n) /\ Joined(s \o t, s, m, t, n)
<1>1. s \in Seq(R) /\ t \in Seq(R) /\ Len(s) = m /\ Len(t) = n
  BY DEF IsRun
<1>2. s \o t \in Seq(R) /\ Len(s \o t) = m + n
  BY <1>1
<1>3. \A i \in 1..m : (s \o t)[i] = s[i]
  BY <1>1
<1>4. \A i \in 1..n : (s \o t)[m + i] = t[i]
  BY <1>1
<1> QED
  BY <1>2, <1>3, <1>4 DEF IsRun, Joined

\* Where the groups are in the table.
LEMMA TableOfGroups ==
  /\ \A i \in 1..8 : Rows[i] = OscillatorRows[i]
  /\ \A i \in 1..8 : Rows[8 + i] = MixerRows[i]
  /\ \A i \in 1..8 : Rows[16 + i] = FilterRows[i]
  /\ \A i \in 1..10 : Rows[24 + i] = EnvelopeRows[i]
  /\ \A i \in 1..8 : Rows[34 + i] = ModulationRows[i]
  /\ \A i \in 1..16 : Rows[42 + i] = PartRows[i]
  /\ \A i \in 1..8 : Rows[58 + i] = MultiRows[i]
  /\ \A i \in 1..13 : Rows[66 + i] = OtherRows[i]
<1> DEFINE r2 == OscillatorRows \o MixerRows
           r3 == r2 \o FilterRows
           r4 == r3 \o EnvelopeRows
           r5 == r4 \o ModulationRows
           r6 == r5 \o PartRows
           r7 == r6 \o MultiRows
           r8 == r7 \o OtherRows
<1>1. /\ IsRun(r2, RowSet, 16)
      /\ \A i \in 1..8 : r2[i] = OscillatorRows[i]
      /\ \A i \in 1..8 : r2[8 + i] = MixerRows[i]
  <2>1. IsRun(OscillatorRows, RowSet, 8) /\ IsRun(MixerRows, RowSet, 8)
    BY Groups
  <2>2. 8 + 8 = 16
    OBVIOUS
  <2>3. IsRun(r2, RowSet, 8 + 8) /\ Joined(r2, OscillatorRows, 8, MixerRows, 8)
    BY <2>1, Concatenation, ZenonT(10)
  <2> HIDE DEF r2
  <2> QED
    BY <2>2, <2>3 DEF Joined
<1>2. /\ IsRun(r3, RowSet, 24)
      /\ \A i \in 1..16 : r3[i] = r2[i]
      /\ \A i \in 1..8 : r3[16 + i] = FilterRows[i]
  <2>1. IsRun(r2, RowSet, 16) /\ IsRun(FilterRows, RowSet, 8)
    BY Groups, <1>1
  <2>2. 16 + 8 = 24
    OBVIOUS
  <2> HIDE DEF r2
  <2>3. IsRun(r3, RowSet, 16 + 8) /\ Joined(r3, r2, 16, FilterRows, 8)
    BY <2>1, Concatenation, ZenonT(10)
  <2> HIDE DEF r3
  <2> QED
    BY <2>2, <2>3 DEF Joined
<1>3. /\ IsRun(r4, RowSet, 34)
      /\ \A i \in 1..24 : r4[i] = r3[i]
      /\ \A i \in 1..10 : r4[24 + i] = EnvelopeRows[i]
  <2>1. IsRun(r3, RowSet, 24) /\ IsRun(EnvelopeRows, RowSet, 10)
    BY Groups, <1>2
  <2>2. 24 + 10 = 34
    OBVIOUS
  <2> HIDE DEF r3
  <2>3. IsRun(r4, RowSet, 24 + 10) /\ Joined(r4, r3, 24, EnvelopeRows, 10)
    BY <2>1, Concatenation, ZenonT(10)
  <2> HIDE DEF r4
  <2> QED
    BY <2>2, <2>3 DEF Joined
<1>4. /\ IsRun(r5, RowSet, 42)
      /\ \A i \in 1..34 : r5[i] = r4[i]
      /\ \A i \in 1..8 : r5[34 + i] = ModulationRows[i]
  <2>1. IsRun(r4, RowSet, 34) /\ IsRun(ModulationRows, RowSet, 8)
    BY Groups, <1>3
  <2>2. 34 + 8 = 42
    OBVIOUS
  <2> HIDE DEF r4
  <2>3. IsRun(r5, RowSet, 34 + 8) /\ Joined(r5, r4, 34, ModulationRows, 8)
    BY <2>1, Concatenation, ZenonT(10)
  <2> HIDE DEF r5
  <2> QED
    BY <2>2, <2>3 DEF Joined
<1>5. /\ IsRun(r6, RowSet, 58)
      /\ \A i \in 1..42 : r6[i] = r5[i]
      /\ \A i \in 1..16 : r6[42 + i] = PartRows[i]
  <2>1. IsRun(r5, RowSet, 42) /\ IsRun(PartRows, RowSet, 16)
    BY Groups, <1>4
  <2>2. 42 + 16 = 58
    OBVIOUS
  <2> HIDE DEF r5
  <2>3. IsRun(r6, RowSet, 42 + 16) /\ Joined(r6, r5, 42, PartRows, 16)
    BY <2>1, Concatenation, ZenonT(10)
  <2> HIDE DEF r6
  <2> QED
    BY <2>2, <2>3 DEF Joined
<1>6. /\ IsRun(r7, RowSet, 66)
      /\ \A i \in 1..58 : r7[i] = r6[i]
      /\ \A i \in 1..8 : r7[58 + i] = MultiRows[i]
  <2>1. IsRun(r6, RowSet, 58) /\ IsRun(MultiRows, RowSet, 8)
    BY Groups, <1>5
  <2>2. 58 + 8 = 66
    OBVIOUS
  <2> HIDE DEF r6
  <2>3. IsRun(r7, RowSet, 58 + 8) /\ Joined(r7, r6, 58, MultiRows, 8)
    BY <2>1, Concatenation, ZenonT(10)
  <2> HIDE DEF r7
  <2> QED
    BY <2>2, <2>3 DEF Joined
<1>7. /\ IsRun(r8, RowSet, 79)
      /\ \A i \in 1..66 : r8[i] = r7[i]
      /\ \A i \in 1..13 : r8[66 + i] = OtherRows[i]
  <2>1. IsRun(r7, RowSet, 66) /\ IsRun(OtherRows, RowSet, 13)
    BY Groups, <1>6
  <2>2. 66 + 13 = 79
    OBVIOUS
  <2> HIDE DEF r7
  <2>3. IsRun(r8, RowSet, 66 + 13) /\ Joined(r8, r7, 66, OtherRows, 13)
    BY <2>1, Concatenation, ZenonT(10)
  <2> HIDE DEF r8
  <2> QED
    BY <2>2, <2>3 DEF Joined
<1>8. Rows = r8
  BY DEF Rows
<1> HIDE DEF r2, r3, r4, r5, r6, r7, r8
<1> QED
  BY <1>1, <1>2, <1>3, <1>4, <1>5, <1>6, <1>7, <1>8

LEMMA ByteOf ==
  /\ Byte(-36) = 220 /\ Byte(-64) = 192 /\ Byte(-63) = 193 /\ Byte(-2) = 254 /\ Byte(-127) = 129
  /\ Byte(0) = 0 /\ Byte(1) = 1 /\ Byte(39) = 39
<1>1. ASSUME NEW n \in Int, -256 <= n, n < 0 PROVE Byte(n) = n + 256
  BY <1>1 DEF Byte
<1>2. ASSUME NEW n \in Int, 0 <= n, n < 256 PROVE Byte(n) = n
  BY <1>2 DEF Byte
<1>3. Byte(-36) = 220 /\ Byte(-64) = 192 /\ Byte(-63) = 193 /\ Byte(-2) = 254 /\ Byte(-127) = 129
  BY <1>1
<1>4. Byte(0) = 0 /\ Byte(1) = 1 /\ Byte(39) = 39
  BY <1>2
<1> QED
  BY <1>3, <1>4

LEMMA ParameterOfSix ==
  ASSUME NEW a, NEW b, NEW c, NEW d, NEW e, NEW f
  PROVE  Parameter(<<a, b, c, d, e, f>>) = Single(a, b, c, Byte(d), e, f)
BY DEF Parameter, Single

LEMMA ParameterOfNine ==
  ASSUME NEW a, NEW b, NEW c, NEW d, NEW e, NEW f, NEW g, NEW h, NEW i
  PROVE  Parameter(<<a, b, c, d, e, f, g, h, i>>) = Bank(a, b, c, Byte(d), e, f, g, h, i)
BY DEF Parameter, Bank

LEMMA ParameterAt ==
  ASSUME NEW id \in 0..78
  PROVE  parameter[id] = Parameter(Rows[id + 1])
BY DEF parameter, kNumParameters

LEMMA OscillatorParameters ==
  /\ parameter[0] = Single("Patch", 0, "Number", 0, 42, 16)
  /\ parameter[1] = Single("Patch", 1, "Raw", 0, 127, 17)
  /\ parameter[2] = Single("Patch", 2, "Signed", 220, 36, 14)
  /\ parameter[3] = Single("Patch", 3, "Signed", 192, 64, 15)
  /\ parameter[4] = Single("Patch", 4, "Number", 0, 42, 18)
  /\ parameter[5] = Single("Patch", 5, "Raw", 0, 127, 19)
  /\ parameter[6] = Single("Patch", 6, "Signed", 220, 36, 20)
  /\ parameter[7] = Single("Patch", 7, "Signed", 192, 64, 21)
<1>1. /\ parameter[0] = Parameter(OscillatorRows[1])
      /\ parameter[1] = Parameter(OscillatorRows[2])
      /\ parameter[2] = Parameter(OscillatorRows[3])
      /\ parameter[3] = Parameter(OscillatorRows[4])
      /\ parameter[4] = Parameter(OscillatorRows[5])
      /\ parameter[5] = Parameter(OscillatorRows[6])
      /\ parameter[6] = Parameter(OscillatorRows[7])
      /\ parameter[7] = Parameter(OscillatorRows[8])
  BY ParameterAt, TableOfGroups
<1>2. /\ OscillatorRows[1] = <<"Patch", 0, "Number", 0, 42, 16>>
      /\ OscillatorRows[2] = <<"Patch", 1, "Raw", 0, 127, 17>>
      /\ OscillatorRows[3] = <<"Patch", 2, "Signed", -36, 36, 14>>
      /\ OscillatorRows[4] = <<"Patch", 3, "Signed", -64, 64, 15>>
      /\ OscillatorRows[5] = <<"Patch", 4, "Number", 0, 42, 18>>
      /\ OscillatorRows[6] = <<"Patch", 5, "Raw", 0, 127, 19>>
      /\ OscillatorRows[7] = <<"Patch", 6, "Signed", -36, 36, 20>>
      /\ OscillatorRows[8] = <<"Patch", 7, "Signed", -64, 64, 21>>
  BY DEF OscillatorRows, Oscillator
<1> QED
  BY <1>1, <1>2, ByteOf, ParameterOfSix

LEMMA MixerParameters ==
  /\ parameter[8] = Single("Patch", 8, "Number", 0, 63, 22)
  /\ parameter[9] = Single("Patch", 9, "Number", 0, 5, 23)
  /\ parameter[10] = Single("Patch", 10, "Number", 0, 63, 24)
  /\ parameter[11] = Single("Patch", 11, "Number", 0, 10, 25)
  /\ parameter[12] = Single("Patch", 12, "Number", 0, 63, 26)
  /\ parameter[13] = Single("Patch", 13, "Number", 0, 63, 27)
  /\ parameter[14] = Single("Patch", 14, "Number", 0, 63, 12)
  /\ parameter[15] = Single("Patch", 15, "Number", 0, 31, 13)
<1>1. /\ parameter[8] = Parameter(MixerRows[1])
      /\ parameter[9] = Parameter(MixerRows[2])
      /\ parameter[10] = Parameter(MixerRows[3])
      /\ parameter[11] = Parameter(MixerRows[4])
      /\ parameter[12] = Parameter(MixerRows[5])
      /\ parameter[13] = Parameter(MixerRows[6])
      /\ parameter[14] = Parameter(MixerRows[7])
      /\ parameter[15] = Parameter(MixerRows[8])
  BY ParameterAt, TableOfGroups
<1>2. /\ MixerRows[1] = <<"Patch", 8, "Number", 0, 63, 22>>
      /\ MixerRows[2] = <<"Patch", 9, "Number", 0, 5, 23>>
      /\ MixerRows[3] = <<"Patch", 10, "Number", 0, 63, 24>>
      /\ MixerRows[4] = <<"Patch", 11, "Number", 0, 10, 25>>
      /\ MixerRows[5] = <<"Patch", 12, "Number", 0, 63, 26>>
      /\ MixerRows[6] = <<"Patch", 13, "Number", 0, 63, 27>>
      /\ MixerRows[7] = <<"Patch", 14, "Number", 0, 63, 12>>
      /\ MixerRows[8] = <<"Patch", 15, "Number", 0, 31, 13>>
  BY DEF MixerRows
<1> QED
  BY <1>1, <1>2, ByteOf, ParameterOfSix

LEMMA FilterParameters ==
  /\ parameter[16] = Single("Patch", 16, "Raw", 0, 127, 74)
  /\ parameter[17] = Single("Patch", 17, "Number", 0, 63, 71)
  /\ parameter[18] = Single("Patch", 18, "Number", 0, 2, 28)
  /\ parameter[19] = Single("Patch", 19, "Raw", 0, 127, 29)
  /\ parameter[20] = Single("Patch", 20, "Number", 0, 63, 30)
  /\ parameter[21] = Single("Patch", 21, "Number", 0, 2, 31)
  /\ parameter[22] = Single("Patch", 22, "Number", 0, 63, 3)
  /\ parameter[23] = Single("Patch", 23, "Number", 0, 63, 9)
<1>1. /\ parameter[16] = Parameter(FilterRows[1])
      /\ parameter[17] = Parameter(FilterRows[2])
      /\ parameter[18] = Parameter(FilterRows[3])
      /\ parameter[19] = Parameter(FilterRows[4])
      /\ parameter[20] = Parameter(FilterRows[5])
      /\ parameter[21] = Parameter(FilterRows[6])
      /\ parameter[22] = Parameter(FilterRows[7])
      /\ parameter[23] = Parameter(FilterRows[8])
  BY ParameterAt, TableOfGroups
<1>2. /\ FilterRows[1] = <<"Patch", 16, "Raw", 0, 127, 74>>
      /\ FilterRows[2] = <<"Patch", 17, "Number", 0, 63, 71>>
      /\ FilterRows[3] = <<"Patch", 18, "Number", 0, 2, 28>>
      /\ FilterRows[4] = <<"Patch", 19, "Raw", 0, 127, 29>>
      /\ FilterRows[5] = <<"Patch", 20, "Number", 0, 63, 30>>
      /\ FilterRows[6] = <<"Patch", 21, "Number", 0, 2, 31>>
      /\ FilterRows[7] = <<"Patch", 22, "Number", 0, 63, 3>>
      /\ FilterRows[8] = <<"Patch", 23, "Number", 0, 63, 9>>
  BY DEF FilterRows
<1> QED
  BY <1>1, <1>2, ByteOf, ParameterOfSix

LEMMA EnvelopeParameters ==
  /\ parameter[24] = Single("UI", ActiveEnvLfo, "Number", 0, 2, None)
  /\ parameter[25] = Bank("Patch", 24, "Raw", 0, 127, 73, 3, 8, ActiveEnvLfo)
  /\ parameter[26] = Bank("Patch", 25, "Raw", 0, 127, 75, 3, 8, ActiveEnvLfo)
  /\ parameter[27] = Bank("Patch", 26, "Raw", 0, 127, 70, 3, 8, ActiveEnvLfo)
  /\ parameter[28] = Bank("Patch", 27, "Raw", 0, 127, 72, 3, 8, ActiveEnvLfo)
  /\ parameter[29] = Bank("Patch", 31, "Number", 0, 2, 44, 3, 8, ActiveEnvLfo)
  /\ parameter[30] = Bank("Patch", 29, "Number", 0, 142, 45, 3, 8, ActiveEnvLfo)
  /\ parameter[31] = Bank("Patch", 28, "Number", 0, 19, 46, 3, 8, ActiveEnvLfo)
  /\ parameter[32] = Single("Patch", 49, "Raw", 0, 127, 47)
  /\ parameter[33] = Single("Patch", 48, "Number", 0, 3, 48)
<1>1. /\ parameter[24] = Parameter(EnvelopeRows[1])
      /\ parameter[25] = Parameter(EnvelopeRows[2])
      /\ parameter[26] = Parameter(EnvelopeRows[3])
      /\ parameter[27] = Parameter(EnvelopeRows[4])
      /\ parameter[28] = Parameter(EnvelopeRows[5])
      /\ parameter[29] = Parameter(EnvelopeRows[6])
      /\ parameter[30] = Parameter(EnvelopeRows[7])
      /\ parameter[31] = Parameter(EnvelopeRows[8])
      /\ parameter[32] = Parameter(EnvelopeRows[9])
      /\ parameter[33] = Parameter(EnvelopeRows[10])
  BY ParameterAt, TableOfGroups
<1>2. /\ EnvelopeRows[1] = <<"UI", ActiveEnvLfo, "Number", 0, 2, None>>
      /\ EnvelopeRows[2] = <<"Patch", 24, "Raw", 0, 127, 73, 3, 8, ActiveEnvLfo>>
      /\ EnvelopeRows[3] = <<"Patch", 25, "Raw", 0, 127, 75, 3, 8, ActiveEnvLfo>>
      /\ EnvelopeRows[4] = <<"Patch", 26, "Raw", 0, 127, 70, 3, 8, ActiveEnvLfo>>
      /\ EnvelopeRows[5] = <<"Patch", 27, "Raw", 0, 127, 72, 3, 8, ActiveEnvLfo>>
      /\ EnvelopeRows[6] = <<"Patch", 31, "Number", 0, 2, 44, 3, 8, ActiveEnvLfo>>
      /\ EnvelopeRows[7] = <<"Patch", 29, "Number", 0, 142, 45, 3, 8, ActiveEnvLfo>>
      /\ EnvelopeRows[8] = <<"Patch", 28, "Number", 0, 19, 46, 3, 8, ActiveEnvLfo>>
      /\ EnvelopeRows[9] = <<"Patch", 49, "Raw", 0, 127, 47>>
      /\ EnvelopeRows[10] = <<"Patch", 48, "Number", 0, 3, 48>>
  BY DEF EnvelopeRows, Envelope
<1> QED
  BY <1>1, <1>2, ByteOf, ParameterOfSix, ParameterOfNine

LEMMA ModulationParameters ==
  /\ parameter[34] = Single("UI", ActiveModulation, "Number", 0, 13, None)
  /\ parameter[35] = Bank("Patch", 50, "Number", 0, 24, None, 14, 3, ActiveModulation)
  /\ parameter[36] = Bank("Patch", 51, "Number", 0, 20, None, 14, 3, ActiveModulation)
  /\ parameter[37] = Bank("Patch", 52, "Signed", 193, 63, None, 14, 3, ActiveModulation)
  /\ parameter[38] = Single("UI", ActiveModifier, "Number", 0, 3, None)
  /\ parameter[39] = Bank("Patch", 92, "Number", 0, 30, None, 4, 3, ActiveModifier)
  /\ parameter[40] = Bank("Patch", 93, "Number", 0, 30, None, 4, 3, ActiveModifier)
  /\ parameter[41] = Bank("Patch", 94, "Number", 0, 10, None, 4, 3, ActiveModifier)
<1>1. /\ parameter[34] = Parameter(ModulationRows[1])
      /\ parameter[35] = Parameter(ModulationRows[2])
      /\ parameter[36] = Parameter(ModulationRows[3])
      /\ parameter[37] = Parameter(ModulationRows[4])
      /\ parameter[38] = Parameter(ModulationRows[5])
      /\ parameter[39] = Parameter(ModulationRows[6])
      /\ parameter[40] = Parameter(ModulationRows[7])
      /\ parameter[41] = Parameter(ModulationRows[8])
  BY ParameterAt, TableOfGroups
<1>2. /\ ModulationRows[1] = <<"UI", ActiveModulation, "Number", 0, 13, None>>
      /\ ModulationRows[2] = <<"Patch", 50, "Number", 0, 24, None, 14, 3, ActiveModulation>>
      /\ ModulationRows[3] = <<"Patch", 51, "Number", 0, 20, None, 14, 3, ActiveModulation>>
      /\ ModulationRows[4] = <<"Patch", 52, "Signed", -63, 63, None, 14, 3, ActiveModulation>>
      /\ ModulationRows[5] = <<"UI", ActiveModifier, "Number", 0, 3, None>>
      /\ ModulationRows[6] = <<"Patch", 92, "Number", 0, 30, None, 4, 3, ActiveModifier>>
      /\ ModulationRows[7] = <<"Patch", 93, "Number", 0, 30, None, 4, 3, ActiveModifier>>
      /\ ModulationRows[8] = <<"Patch", 94, "Number", 0, 10, None, 4, 3, ActiveModifier>>
  BY DEF ModulationRows
<1> QED
  BY <1>1, <1>2, ByteOf, ParameterOfSix, ParameterOfNine

LEMMA PartParameters ==
  /\ parameter[42] = Single("Part", 112, "Raw", 0, 127, 7)
  /\ parameter[43] = Single("Part", 113, "Signed", 254, 2, None)
  /\ parameter[44] = Single("Part", 114, "Signed", 129, 127, 94)
  /\ parameter[45] = Single("Part", 115, "Number", 0, 40, 95)
  /\ parameter[46] = Single("Part", 116, "Number", 0, 31, None)
  /\ parameter[47] = Single("Part", 117, "Number", 0, 1, 68)
  /\ parameter[48] = Single("Part", 118, "Number", 0, 63, 5)
  /\ parameter[49] = Single("Part", 119, "Number", 0, 4, 102)
  /\ parameter[50] = Single("Part", 120, "Number", 0, 5, 103)
  /\ parameter[51] = Single("Part", 121, "Signed", 1, 4, 104)
  /\ parameter[52] = Single("Part", 122, "Number", 0, 29, 105)
  /\ parameter[53] = Single("Part", 123, "Number", 0, 14, 106)
  /\ parameter[54] = Single("Part", 124, "Number", 1, 32, None)
  /\ parameter[55] = Single("Part", 125, "Number", 1, 32, None)
  /\ parameter[56] = Single("Part", 126, "Number", 1, 32, None)
  /\ parameter[57] = Single("Part", 127, "Number", 0, 5, 107)
<1>1. /\ parameter[42] = Parameter(PartRows[1])
      /\ parameter[43] = Parameter(PartRows[2])
      /\ parameter[44] = Parameter(PartRows[3])
      /\ parameter[45] = Parameter(PartRows[4])
      /\ parameter[46] = Parameter(PartRows[5])
      /\ parameter[47] = Parameter(PartRows[6])
      /\ parameter[48] = Parameter(PartRows[7])
      /\ parameter[49] = Parameter(PartRows[8])
      /\ parameter[50] = Parameter(PartRows[9])
      /\ parameter[51] = Parameter(PartRows[10])
      /\ parameter[52] = Parameter(PartRows[11])
      /\ parameter[53] = Parameter(PartRows[12])
      /\ parameter[54] = Parameter(PartRows[13])
      /\ parameter[55] = Parameter(PartRows[14])
      /\ parameter[56] = Parameter(PartRows[15])
      /\ parameter[57] = Parameter(PartRows[16])
  BY ParameterAt, TableOfGroups
<1>2. /\ PartRows[1] = <<"Part", 112, "Raw", 0, 127, 7>>
      /\ PartRows[2] = <<"Part", 113, "Signed", -2, 2, None>>
      /\ PartRows[3] = <<"Part", 114, "Signed", -127, 127, 94>>
      /\ PartRows[4] = <<"Part", 115, "Number", 0, 40, 95>>
      /\ PartRows[5] = <<"Part", 116, "Number", 0, 31, None>>
      /\ PartRows[6] = <<"Part", 117, "Number", 0, 1, 68>>
      /\ PartRows[7] = <<"Part", 118, "Number", 0, 63, 5>>
      /\ PartRows[8] = <<"Part", 119, "Number", 0, 4, 102>>
      /\ PartRows[9] = <<"Part", 120, "Number", 0, 5, 103>>
      /\ PartRows[10] = <<"Part", 121, "Signed", 1, 4, 104>>
      /\ PartRows[11] = <<"Part", 122, "Number", 0, 29, 105>>
      /\ PartRows[12] = <<"Part", 123, "Number", 0, 14, 106>>
      /\ PartRows[13] = <<"Part", 124, "Number", 1, 32, None>>
      /\ PartRows[14] = <<"Part", 125, "Number", 1, 32, None>>
      /\ PartRows[15] = <<"Part", 126, "Number", 1, 32, None>>
      /\ PartRows[16] = <<"Part", 127, "Number", 0, 5, 107>>
  BY DEF PartRows
<1> QED
  BY <1>1, <1>2, ByteOf, ParameterOfSix

LEMMA MultiParameters ==
  /\ parameter[58] = Single("UI", ActivePart, "Number", 0, 5, None)
  /\ parameter[59] = Bank("Multi", 0, "Number", 0, 16, None, 6, 4, ActivePart)
  /\ parameter[60] = Bank("Multi", 1, "Note", 0, 127, None, 6, 4, ActivePart)
  /\ parameter[61] = Bank("Multi", 2, "Note", 0, 127, None, 6, 4, ActivePart)
  /\ parameter[62] = Single("Multi", 24, "Tempo", 39, 240, None)
  /\ parameter[63] = Single("Multi", 25, "Number", 0, 5, None)
  /\ parameter[64] = Single("Multi", 26, "Raw", 0, 127, None)
  /\ parameter[65] = Single("Multi", 27, "Number", 0, 8, None)
<1>1. /\ parameter[58] = Parameter(MultiRows[1])
      /\ parameter[59] = Parameter(MultiRows[2])
      /\ parameter[60] = Parameter(MultiRows[3])
      /\ parameter[61] = Parameter(MultiRows[4])
      /\ parameter[62] = Parameter(MultiRows[5])
      /\ parameter[63] = Parameter(MultiRows[6])
      /\ parameter[64] = Parameter(MultiRows[7])
      /\ parameter[65] = Parameter(MultiRows[8])
  BY ParameterAt, TableOfGroups
<1>2. /\ MultiRows[1] = <<"UI", ActivePart, "Number", 0, 5, None>>
      /\ MultiRows[2] = <<"Multi", 0, "Number", 0, 16, None, 6, 4, ActivePart>>
      /\ MultiRows[3] = <<"Multi", 1, "Note", 0, 127, None, 6, 4, ActivePart>>
      /\ MultiRows[4] = <<"Multi", 2, "Note", 0, 127, None, 6, 4, ActivePart>>
      /\ MultiRows[5] = <<"Multi", 24, "Tempo", 39, 240, None>>
      /\ MultiRows[6] = <<"Multi", 25, "Number", 0, 5, None>>
      /\ MultiRows[7] = <<"Multi", 26, "Raw", 0, 127, None>>
      /\ MultiRows[8] = <<"Multi", 27, "Number", 0, 8, None>>
  BY DEF MultiRows, OfPart
<1> QED
  BY <1>1, <1>2, ByteOf, ParameterOfSix, ParameterOfNine

LEMMA OtherParameters ==
  /\ parameter[66] = Single("System", 0, "Number", 0, 15, None)
  /\ parameter[67] = Single("System", 1, "Number", 0, 4, None)
  /\ parameter[68] = Single("System", 2, "Number", 0, 1, None)
  /\ parameter[69] = Single("System", 3, "Number", 0, 1, None)
  /\ parameter[70] = Single("System", 4, "Number", 0, 1, None)
  /\ parameter[71] = Single("System", 5, "Number", 0, 1, None)
  /\ parameter[72] = Single("System", 6, "Number", 0, 1, None)
  /\ parameter[73] = Single("Patch", 104, "Signed", 193, 63, 108)
  /\ parameter[74] = Single("Patch", 105, "Signed", 193, 63, 109)
  /\ parameter[75] = Single("System", 7, "Number", 0, 2, None)
  /\ parameter[76] = Single("System", 8, "Number", 0, 1, None)
  /\ parameter[77] = Single("System", 9, "Number", 0, 200, None)
  /\ parameter[78] = Single("System", 10, "Number", 0, 1, None)
<1>1. /\ parameter[66] = Parameter(OtherRows[1])
      /\ parameter[67] = Parameter(OtherRows[2])
      /\ parameter[68] = Parameter(OtherRows[3])
      /\ parameter[69] = Parameter(OtherRows[4])
      /\ parameter[70] = Parameter(OtherRows[5])
      /\ parameter[71] = Parameter(OtherRows[6])
      /\ parameter[72] = Parameter(OtherRows[7])
      /\ parameter[73] = Parameter(OtherRows[8])
      /\ parameter[74] = Parameter(OtherRows[9])
      /\ parameter[75] = Parameter(OtherRows[10])
      /\ parameter[76] = Parameter(OtherRows[11])
      /\ parameter[77] = Parameter(OtherRows[12])
      /\ parameter[78] = Parameter(OtherRows[13])
  BY ParameterAt, TableOfGroups
<1>2. /\ OtherRows[1] = <<"System", 0, "Number", 0, 15, None>>
      /\ OtherRows[2] = <<"System", 1, "Number", 0, 4, None>>
      /\ OtherRows[3] = <<"System", 2, "Number", 0, 1, None>>
      /\ OtherRows[4] = <<"System", 3, "Number", 0, 1, None>>
      /\ OtherRows[5] = <<"System", 4, "Number", 0, 1, None>>
      /\ OtherRows[6] = <<"System", 5, "Number", 0, 1, None>>
      /\ OtherRows[7] = <<"System", 6, "Number", 0, 1, None>>
      /\ OtherRows[8] = <<"Patch", 104, "Signed", -63, 63, 108>>
      /\ OtherRows[9] = <<"Patch", 105, "Signed", -63, 63, 109>>
      /\ OtherRows[10] = <<"System", 7, "Number", 0, 2, None>>
      /\ OtherRows[11] = <<"System", 8, "Number", 0, 1, None>>
      /\ OtherRows[12] = <<"System", 9, "Number", 0, 200, None>>
      /\ OtherRows[13] = <<"System", 10, "Number", 0, 1, None>>
  BY DEF OtherRows, Setting
<1> QED
  BY <1>1, <1>2, ByteOf, ParameterOfSix

-----------------------------------------------------------------------------
(* What the rows have in common.                                           *)

Ids == 0..(kNumParameters - 1)

\* The limits are bytes in order.
LimitsInOrder(p) ==
  /\ p.min \in 0..255 /\ p.max \in 0..255
  /\ Number(p, p.min) <= Number(p, p.max)
  /\ p.unit = "Raw" => p.min = 0 /\ p.max = 127
  /\ p.unit = "Tempo" => p.min = 39 /\ p.max = 240

\* What the panel calls zero, and the settings that are on from the start.
StartsInLimits(p) ==
  /\ p.level = "UI" => p.min = 0 /\ p.unit = "Number"
  /\ p.level = "System" => p.min = 0 /\ p.max >= 1 /\ p.unit = "Number"

\* The last instance that a byte of the panel chooses.
LastInstance == [byte \in 0..3 |-> IF byte = 0 THEN 2 ELSE IF byte = 1 THEN 13 ELSE IF byte = 2 THEN 3 ELSE 5]

\* The bytes of a parameter lie inside of their space.
InSpace(p) ==
  /\ p.level \in {"Patch", "Part", "Multi", "System", "UI"}
  /\ p.offset \in Nat /\ p.stride \in Nat /\ p.instances \in 1..14
  /\ \A i \in 0..(p.instances - 1) : p.offset + p.stride * i <= 255
  /\ p.indexedBy = None => p.instances = 1
  /\ p.indexedBy # None => p.indexedBy \in 0..3 /\ p.instances = LastInstance[p.indexedBy] + 1

WellPlaced(id) ==
  LimitsInOrder(parameter[id]) /\ StartsInLimits(parameter[id]) /\ InSpace(parameter[id])

LEMMA IdsAre == Ids = 0..78 /\ 79 = kNumParameters
BY DEF Ids, kNumParameters

LEMMA RowsAreWellPlaced ==
  ASSUME NEW id \in Ids
  PROVE  WellPlaced(id)
<1> USE DEF LimitsInOrder, StartsInLimits, InSpace, LastInstance, Number, Signed, Single, Bank, None,
        ActiveEnvLfo, ActiveModulation, ActiveModifier, ActivePart
<1>1. CASE id \in 0..7
  <2>1. CASE id = 0
    BY <2>1, OscillatorParameters DEF WellPlaced
  <2>2. CASE id = 1
    BY <2>2, OscillatorParameters DEF WellPlaced
  <2>3. CASE id = 2
    BY <2>3, OscillatorParameters DEF WellPlaced
  <2>4. CASE id = 3
    BY <2>4, OscillatorParameters DEF WellPlaced
  <2>5. CASE id = 4
    BY <2>5, OscillatorParameters DEF WellPlaced
  <2>6. CASE id = 5
    BY <2>6, OscillatorParameters DEF WellPlaced
  <2>7. CASE id = 6
    BY <2>7, OscillatorParameters DEF WellPlaced
  <2>8. CASE id = 7
    BY <2>8, OscillatorParameters DEF WellPlaced
  <2> QED
    BY ONLY <1>1, id \in Int, <2>1, <2>2, <2>3, <2>4, <2>5, <2>6, <2>7, <2>8
<1>2. CASE id \in 8..15
  <2>1. CASE id = 8
    BY <2>1, MixerParameters DEF WellPlaced
  <2>2. CASE id = 9
    BY <2>2, MixerParameters DEF WellPlaced
  <2>3. CASE id = 10
    BY <2>3, MixerParameters DEF WellPlaced
  <2>4. CASE id = 11
    BY <2>4, MixerParameters DEF WellPlaced
  <2>5. CASE id = 12
    BY <2>5, MixerParameters DEF WellPlaced
  <2>6. CASE id = 13
    BY <2>6, MixerParameters DEF WellPlaced
  <2>7. CASE id = 14
    BY <2>7, MixerParameters DEF WellPlaced
  <2>8. CASE id = 15
    BY <2>8, MixerParameters DEF WellPlaced
  <2> QED
    BY ONLY <1>2, id \in Int, <2>1, <2>2, <2>3, <2>4, <2>5, <2>6, <2>7, <2>8
<1>3. CASE id \in 16..23
  <2>1. CASE id = 16
    BY <2>1, FilterParameters DEF WellPlaced
  <2>2. CASE id = 17
    BY <2>2, FilterParameters DEF WellPlaced
  <2>3. CASE id = 18
    BY <2>3, FilterParameters DEF WellPlaced
  <2>4. CASE id = 19
    BY <2>4, FilterParameters DEF WellPlaced
  <2>5. CASE id = 20
    BY <2>5, FilterParameters DEF WellPlaced
  <2>6. CASE id = 21
    BY <2>6, FilterParameters DEF WellPlaced
  <2>7. CASE id = 22
    BY <2>7, FilterParameters DEF WellPlaced
  <2>8. CASE id = 23
    BY <2>8, FilterParameters DEF WellPlaced
  <2> QED
    BY ONLY <1>3, id \in Int, <2>1, <2>2, <2>3, <2>4, <2>5, <2>6, <2>7, <2>8
<1>4. CASE id \in 24..33
  <2>1. CASE id = 24
    BY <2>1, EnvelopeParameters DEF WellPlaced
  <2>2. CASE id = 25
    BY <2>2, EnvelopeParameters DEF WellPlaced
  <2>3. CASE id = 26
    BY <2>3, EnvelopeParameters DEF WellPlaced
  <2>4. CASE id = 27
    BY <2>4, EnvelopeParameters DEF WellPlaced
  <2>5. CASE id = 28
    BY <2>5, EnvelopeParameters DEF WellPlaced
  <2>6. CASE id = 29
    BY <2>6, EnvelopeParameters DEF WellPlaced
  <2>7. CASE id = 30
    BY <2>7, EnvelopeParameters DEF WellPlaced
  <2>8. CASE id = 31
    BY <2>8, EnvelopeParameters DEF WellPlaced
  <2>9. CASE id = 32
    BY <2>9, EnvelopeParameters DEF WellPlaced
  <2>10. CASE id = 33
    BY <2>10, EnvelopeParameters DEF WellPlaced
  <2> QED
    BY ONLY <1>4, id \in Int, <2>1, <2>2, <2>3, <2>4, <2>5, <2>6, <2>7, <2>8, <2>9, <2>10
<1>5. CASE id \in 34..41
  <2>1. CASE id = 34
    BY <2>1, ModulationParameters DEF WellPlaced
  <2>2. CASE id = 35
    BY <2>2, ModulationParameters DEF WellPlaced
  <2>3. CASE id = 36
    BY <2>3, ModulationParameters DEF WellPlaced
  <2>4. CASE id = 37
    BY <2>4, ModulationParameters DEF WellPlaced
  <2>5. CASE id = 38
    BY <2>5, ModulationParameters DEF WellPlaced
  <2>6. CASE id = 39
    BY <2>6, ModulationParameters DEF WellPlaced
  <2>7. CASE id = 40
    BY <2>7, ModulationParameters DEF WellPlaced
  <2>8. CASE id = 41
    BY <2>8, ModulationParameters DEF WellPlaced
  <2> QED
    BY ONLY <1>5, id \in Int, <2>1, <2>2, <2>3, <2>4, <2>5, <2>6, <2>7, <2>8
<1>6. CASE id \in 42..49
  <2>1. CASE id = 42
    BY <2>1, PartParameters DEF WellPlaced
  <2>2. CASE id = 43
    BY <2>2, PartParameters DEF WellPlaced
  <2>3. CASE id = 44
    BY <2>3, PartParameters DEF WellPlaced
  <2>4. CASE id = 45
    BY <2>4, PartParameters DEF WellPlaced
  <2>5. CASE id = 46
    BY <2>5, PartParameters DEF WellPlaced
  <2>6. CASE id = 47
    BY <2>6, PartParameters DEF WellPlaced
  <2>7. CASE id = 48
    BY <2>7, PartParameters DEF WellPlaced
  <2>8. CASE id = 49
    BY <2>8, PartParameters DEF WellPlaced
  <2> QED
    BY ONLY <1>6, id \in Int, <2>1, <2>2, <2>3, <2>4, <2>5, <2>6, <2>7, <2>8
<1>7. CASE id \in 50..57
  <2>1. CASE id = 50
    BY <2>1, PartParameters DEF WellPlaced
  <2>2. CASE id = 51
    BY <2>2, PartParameters DEF WellPlaced
  <2>3. CASE id = 52
    BY <2>3, PartParameters DEF WellPlaced
  <2>4. CASE id = 53
    BY <2>4, PartParameters DEF WellPlaced
  <2>5. CASE id = 54
    BY <2>5, PartParameters DEF WellPlaced
  <2>6. CASE id = 55
    BY <2>6, PartParameters DEF WellPlaced
  <2>7. CASE id = 56
    BY <2>7, PartParameters DEF WellPlaced
  <2>8. CASE id = 57
    BY <2>8, PartParameters DEF WellPlaced
  <2> QED
    BY ONLY <1>7, id \in Int, <2>1, <2>2, <2>3, <2>4, <2>5, <2>6, <2>7, <2>8
<1>8. CASE id \in 58..65
  <2>1. CASE id = 58
    BY <2>1, MultiParameters DEF WellPlaced
  <2>2. CASE id = 59
    BY <2>2, MultiParameters DEF WellPlaced
  <2>3. CASE id = 60
    BY <2>3, MultiParameters DEF WellPlaced
  <2>4. CASE id = 61
    BY <2>4, MultiParameters DEF WellPlaced
  <2>5. CASE id = 62
    BY <2>5, MultiParameters DEF WellPlaced
  <2>6. CASE id = 63
    BY <2>6, MultiParameters DEF WellPlaced
  <2>7. CASE id = 64
    BY <2>7, MultiParameters DEF WellPlaced
  <2>8. CASE id = 65
    BY <2>8, MultiParameters DEF WellPlaced
  <2> QED
    BY ONLY <1>8, id \in Int, <2>1, <2>2, <2>3, <2>4, <2>5, <2>6, <2>7, <2>8
<1>9. CASE id \in 66..78
  <2>1. CASE id = 66
    BY <2>1, OtherParameters DEF WellPlaced
  <2>2. CASE id = 67
    BY <2>2, OtherParameters DEF WellPlaced
  <2>3. CASE id = 68
    BY <2>3, OtherParameters DEF WellPlaced
  <2>4. CASE id = 69
    BY <2>4, OtherParameters DEF WellPlaced
  <2>5. CASE id = 70
    BY <2>5, OtherParameters DEF WellPlaced
  <2>6. CASE id = 71
    BY <2>6, OtherParameters DEF WellPlaced
  <2>7. CASE id = 72
    BY <2>7, OtherParameters DEF WellPlaced
  <2>8. CASE id = 73
    BY <2>8, OtherParameters DEF WellPlaced
  <2>9. CASE id = 74
    BY <2>9, OtherParameters DEF WellPlaced
  <2>10. CASE id = 75
    BY <2>10, OtherParameters DEF WellPlaced
  <2>11. CASE id = 76
    BY <2>11, OtherParameters DEF WellPlaced
  <2>12. CASE id = 77
    BY <2>12, OtherParameters DEF WellPlaced
  <2>13. CASE id = 78
    BY <2>13, OtherParameters DEF WellPlaced
  <2> QED
    BY ONLY <1>9, id \in Int, <2>1, <2>2, <2>3, <2>4, <2>5, <2>6, <2>7, <2>8, <2>9, <2>10, <2>11, <2>12, <2>13
<1> QED
  BY ONLY IdsAre, id \in Ids, <1>1, <1>2, <1>3, <1>4, <1>5, <1>6, <1>7, <1>8, <1>9

\* The bytes of an instance do not wrap.
LEMMA AddressOf ==
  ASSUME NEW id \in Ids, NEW i \in 0..(parameter[id].instances - 1)
  PROVE  /\ get_address(parameter[id], i) = parameter[id].offset + parameter[id].stride * i
         /\ get_address(parameter[id], i) \in 0..255
<1> DEFINE p == parameter[id]
<1>1. InSpace(p)
  BY RowsAreWellPlaced DEF WellPlaced
<1> DEFINE n == p.offset + p.stride * i
<1>2. n \in Int /\ 0 <= n /\ n <= 255
  <2>1. p.offset \in Nat /\ p.stride \in Nat /\ i \in Nat /\ p.offset + p.stride * i <= 255
    BY <1>1 DEF InSpace
  <2>2. p.stride * i \in Nat
    BY <2>1
  <2> QED
    BY <2>1, <2>2
<1>3. get_address(p, i) = Byte(n)
  BY DEF get_address
<1> HIDE DEF n
<1>4. Byte(n) = n
  BY <1>2 DEF Byte
<1> QED
  BY <1>2, <1>3, <1>4 DEF n

\* The parameter at an address, in closed form.
PartIdAt(a) ==
  CASE a <= 23       -> a
    [] a \in 24..47  -> LET i == (a - 24) % 8 IN IF i < 4 THEN 25 + i ELSE IF i = 4 THEN 31 ELSE IF i = 5 THEN 30 ELSE 29
    [] a = 48        -> 33
    [] a = 49        -> 32
    [] a \in 50..91  -> 35 + ((a - 50) % 3)
    [] a \in 92..103 -> 39 + ((a - 92) % 3)
    [] a \in 104..105 -> a - 31
    [] OTHER         -> a - 70

IdAt(space, a) ==
  CASE space = "Part"   -> PartIdAt(a)
    [] space = "Multi"  -> IF a <= 23 THEN 59 + (a % 4) ELSE a + 38
    [] space = "System" -> IF a <= 6 THEN a + 66 ELSE a + 68
    [] OTHER            -> IF a = 0 THEN 24 ELSE IF a = 1 THEN 34 ELSE IF a = 2 THEN 38 ELSE 58

\* No two parameters share a byte.
Told(id) ==
  \A i \in 0..(parameter[id].instances - 1) :
    IdAt(Space(parameter[id]), parameter[id].offset + parameter[id].stride * i) = id

LEMMA AddressTells ==
  ASSUME NEW id \in Ids
  PROVE  Told(id)
<1> USE DEF IdAt, PartIdAt, Space, Single, Bank, None, ActiveEnvLfo, ActiveModulation, ActiveModifier, ActivePart
<1>1. CASE id \in 0..7
  <2>1. CASE id = 0
    BY <2>1, OscillatorParameters DEF Told
  <2>2. CASE id = 1
    BY <2>2, OscillatorParameters DEF Told
  <2>3. CASE id = 2
    BY <2>3, OscillatorParameters DEF Told
  <2>4. CASE id = 3
    BY <2>4, OscillatorParameters DEF Told
  <2>5. CASE id = 4
    BY <2>5, OscillatorParameters DEF Told
  <2>6. CASE id = 5
    BY <2>6, OscillatorParameters DEF Told
  <2>7. CASE id = 6
    BY <2>7, OscillatorParameters DEF Told
  <2>8. CASE id = 7
    BY <2>8, OscillatorParameters DEF Told
  <2> QED
    BY ONLY <1>1, id \in Int, <2>1, <2>2, <2>3, <2>4, <2>5, <2>6, <2>7, <2>8
<1>2. CASE id \in 8..15
  <2>1. CASE id = 8
    BY <2>1, MixerParameters DEF Told
  <2>2. CASE id = 9
    BY <2>2, MixerParameters DEF Told
  <2>3. CASE id = 10
    BY <2>3, MixerParameters DEF Told
  <2>4. CASE id = 11
    BY <2>4, MixerParameters DEF Told
  <2>5. CASE id = 12
    BY <2>5, MixerParameters DEF Told
  <2>6. CASE id = 13
    BY <2>6, MixerParameters DEF Told
  <2>7. CASE id = 14
    BY <2>7, MixerParameters DEF Told
  <2>8. CASE id = 15
    BY <2>8, MixerParameters DEF Told
  <2> QED
    BY ONLY <1>2, id \in Int, <2>1, <2>2, <2>3, <2>4, <2>5, <2>6, <2>7, <2>8
<1>3. CASE id \in 16..23
  <2>1. CASE id = 16
    BY <2>1, FilterParameters DEF Told
  <2>2. CASE id = 17
    BY <2>2, FilterParameters DEF Told
  <2>3. CASE id = 18
    BY <2>3, FilterParameters DEF Told
  <2>4. CASE id = 19
    BY <2>4, FilterParameters DEF Told
  <2>5. CASE id = 20
    BY <2>5, FilterParameters DEF Told
  <2>6. CASE id = 21
    BY <2>6, FilterParameters DEF Told
  <2>7. CASE id = 22
    BY <2>7, FilterParameters DEF Told
  <2>8. CASE id = 23
    BY <2>8, FilterParameters DEF Told
  <2> QED
    BY ONLY <1>3, id \in Int, <2>1, <2>2, <2>3, <2>4, <2>5, <2>6, <2>7, <2>8
<1>4. CASE id \in 24..33
  <2>1. CASE id = 24
    BY <2>1, EnvelopeParameters DEF Told
  <2>2. CASE id = 25
    <3>1. \A i \in 0..2 : PartIdAt(24 + 8 * i) = 25
      <4> TAKE i \in 0..2
      <4>1. i = 0 \/ i = 1 \/ i = 2
        OBVIOUS
      <4>2. PartIdAt(24) = 25 /\ PartIdAt(32) = 25 /\ PartIdAt(40) = 25
        OBVIOUS
      <4> QED
        BY ONLY <4>1, <4>2
    <3> HIDE DEF PartIdAt
    <3> QED
      BY <2>2, <3>1, EnvelopeParameters DEF Told
  <2>3. CASE id = 26
    BY <2>3, EnvelopeParameters DEF Told
  <2>4. CASE id = 27
    BY <2>4, EnvelopeParameters DEF Told
  <2>5. CASE id = 28
    BY <2>5, EnvelopeParameters DEF Told
  <2>6. CASE id = 29
    BY <2>6, EnvelopeParameters DEF Told
  <2>7. CASE id = 30
    BY <2>7, EnvelopeParameters DEF Told
  <2>8. CASE id = 31
    BY <2>8, EnvelopeParameters DEF Told
  <2>9. CASE id = 32
    BY <2>9, EnvelopeParameters DEF Told
  <2>10. CASE id = 33
    BY <2>10, EnvelopeParameters DEF Told
  <2> QED
    BY ONLY <1>4, id \in Int, <2>1, <2>2, <2>3, <2>4, <2>5, <2>6, <2>7, <2>8, <2>9, <2>10
<1>5. CASE id \in 34..41
  <2>1. CASE id = 34
    BY <2>1, ModulationParameters DEF Told
  <2>2. CASE id = 35
    BY <2>2, ModulationParameters DEF Told
  <2>3. CASE id = 36
    BY <2>3, ModulationParameters DEF Told
  <2>4. CASE id = 37
    BY <2>4, ModulationParameters DEF Told
  <2>5. CASE id = 38
    BY <2>5, ModulationParameters DEF Told
  <2>6. CASE id = 39
    BY <2>6, ModulationParameters DEF Told
  <2>7. CASE id = 40
    BY <2>7, ModulationParameters DEF Told
  <2>8. CASE id = 41
    BY <2>8, ModulationParameters DEF Told
  <2> QED
    BY ONLY <1>5, id \in Int, <2>1, <2>2, <2>3, <2>4, <2>5, <2>6, <2>7, <2>8
<1>6. CASE id \in 42..49
  <2>1. CASE id = 42
    BY <2>1, PartParameters DEF Told
  <2>2. CASE id = 43
    BY <2>2, PartParameters DEF Told
  <2>3. CASE id = 44
    BY <2>3, PartParameters DEF Told
  <2>4. CASE id = 45
    BY <2>4, PartParameters DEF Told
  <2>5. CASE id = 46
    BY <2>5, PartParameters DEF Told
  <2>6. CASE id = 47
    BY <2>6, PartParameters DEF Told
  <2>7. CASE id = 48
    BY <2>7, PartParameters DEF Told
  <2>8. CASE id = 49
    BY <2>8, PartParameters DEF Told
  <2> QED
    BY ONLY <1>6, id \in Int, <2>1, <2>2, <2>3, <2>4, <2>5, <2>6, <2>7, <2>8
<1>7. CASE id \in 50..57
  <2>1. CASE id = 50
    BY <2>1, PartParameters DEF Told
  <2>2. CASE id = 51
    BY <2>2, PartParameters DEF Told
  <2>3. CASE id = 52
    BY <2>3, PartParameters DEF Told
  <2>4. CASE id = 53
    BY <2>4, PartParameters DEF Told
  <2>5. CASE id = 54
    BY <2>5, PartParameters DEF Told
  <2>6. CASE id = 55
    BY <2>6, PartParameters DEF Told
  <2>7. CASE id = 56
    BY <2>7, PartParameters DEF Told
  <2>8. CASE id = 57
    BY <2>8, PartParameters DEF Told
  <2> QED
    BY ONLY <1>7, id \in Int, <2>1, <2>2, <2>3, <2>4, <2>5, <2>6, <2>7, <2>8
<1>8. CASE id \in 58..65
  <2>1. CASE id = 58
    BY <2>1, MultiParameters DEF Told
  <2>2. CASE id = 59
    BY <2>2, MultiParameters DEF Told
  <2>3. CASE id = 60
    BY <2>3, MultiParameters DEF Told
  <2>4. CASE id = 61
    BY <2>4, MultiParameters DEF Told
  <2>5. CASE id = 62
    BY <2>5, MultiParameters DEF Told
  <2>6. CASE id = 63
    BY <2>6, MultiParameters DEF Told
  <2>7. CASE id = 64
    BY <2>7, MultiParameters DEF Told
  <2>8. CASE id = 65
    BY <2>8, MultiParameters DEF Told
  <2> QED
    BY ONLY <1>8, id \in Int, <2>1, <2>2, <2>3, <2>4, <2>5, <2>6, <2>7, <2>8
<1>9. CASE id \in 66..78
  <2>1. CASE id = 66
    BY <2>1, OtherParameters DEF Told
  <2>2. CASE id = 67
    BY <2>2, OtherParameters DEF Told
  <2>3. CASE id = 68
    BY <2>3, OtherParameters DEF Told
  <2>4. CASE id = 69
    BY <2>4, OtherParameters DEF Told
  <2>5. CASE id = 70
    BY <2>5, OtherParameters DEF Told
  <2>6. CASE id = 71
    BY <2>6, OtherParameters DEF Told
  <2>7. CASE id = 72
    BY <2>7, OtherParameters DEF Told
  <2>8. CASE id = 73
    BY <2>8, OtherParameters DEF Told
  <2>9. CASE id = 74
    BY <2>9, OtherParameters DEF Told
  <2>10. CASE id = 75
    BY <2>10, OtherParameters DEF Told
  <2>11. CASE id = 76
    BY <2>11, OtherParameters DEF Told
  <2>12. CASE id = 77
    BY <2>12, OtherParameters DEF Told
  <2>13. CASE id = 78
    BY <2>13, OtherParameters DEF Told
  <2> QED
    BY ONLY <1>9, id \in Int, <2>1, <2>2, <2>3, <2>4, <2>5, <2>6, <2>7, <2>8, <2>9, <2>10, <2>11, <2>12, <2>13
<1> QED
  BY ONLY IdsAre, id \in Ids, <1>1, <1>2, <1>3, <1>4, <1>5, <1>6, <1>7, <1>8, <1>9

LEMMA OwnerIs ==
  ASSUME NEW id \in Ids, NEW space, NEW address, IsAt(parameter[id], space, address)
  PROVE  Owner(space, address) = id
<1>1. ASSUME NEW other \in Ids, IsAt(parameter[other], space, address)
      PROVE  IdAt(space, address) = other
  <2>1. PICK i \in 0..(parameter[other].instances - 1) : get_address(parameter[other], i) = address
    BY <1>1 DEF IsAt
  <2>2. address = parameter[other].offset + parameter[other].stride * i
    BY <2>1, AddressOf
  <2>3. Space(parameter[other]) = space
    BY <1>1 DEF IsAt
  <2> QED
    BY <2>1, <2>2, <2>3, AddressTells DEF Told
<1> DEFINE owners == {x \in 0..(kNumParameters - 1) : IsAt(parameter[x], space, address)}
<1>2. owners = {id}
  BY <1>1 DEF Ids
<1>3. Owner(space, address) = CHOOSE x \in owners : TRUE
  BY <1>2 DEF Owner
<1> QED
  BY <1>2, <1>3

\* The byte that an instance of a parameter is in belongs to this parameter.
LEMMA OwnerOfInstance ==
  ASSUME NEW id \in Ids, NEW i \in 0..(parameter[id].instances - 1)
  PROVE  owner[Space(parameter[id])][get_address(parameter[id], i)] = id
<1> DEFINE s == Space(parameter[id])
           a == get_address(parameter[id], i)
<1>1. a \in 0..255
  BY AddressOf
<1>2. s \in {"Part", "Multi", "System", "UI"}
  <2>1. InSpace(parameter[id])
    BY RowsAreWellPlaced DEF WellPlaced
  <2> QED
    BY <2>1 DEF InSpace, Space
<1>3. IsAt(parameter[id], s, a)
  BY DEF IsAt
<1> HIDE DEF s, a
<1>4. owner[s][a] = Owner(s, a)
  BY <1>1, <1>2 DEF owner
<1>5. Owner(s, a) = id
  BY <1>3, OwnerIs
<1> QED
  BY <1>4, <1>5 DEF s, a

-----------------------------------------------------------------------------
(* What the conversions return.                                            *)

\* A byte that a parameter may hold: 38 is the external clock, below the tempos.
Holds(p, byte) == byte \in 0..255 /\ (IsLegal(p, byte) \/ (p.unit = "Tempo" /\ byte = 38))

LEMMA SignedIs ==
  ASSUME NEW p, NEW byte \in 0..255
  PROVE  /\ Number(p, byte) \in Int
         /\ p.unit # "Signed" => Number(p, byte) = byte
         /\ p.unit = "Signed" => Number(p, byte) = IF byte > 127 THEN byte - 256 ELSE byte
BY DEF Number, Signed

\* A number of the range of a unit comes back from its byte.
LEMMA ByteOfNumber ==
  ASSUME NEW p, NEW low \in 0..255, NEW high \in 0..255, NEW n \in Int,
         Number(p, low) <= n, n <= Number(p, high)
  PROVE  Byte(n) \in 0..255 /\ Number(p, Byte(n)) = n
<1>1. Byte(n) = n % 256
  BY DEF Byte
<1>2. CASE p.unit = "Signed"
  <2>1. -128 <= n /\ n <= 127
    BY <1>2, SignedIs
  <2>2. n % 256 = IF n < 0 THEN n + 256 ELSE n
    BY <2>1
  <2> QED
    BY <1>1, <1>2, <2>1, <2>2, SignedIs
<1>3. CASE p.unit # "Signed"
  <2>1. 0 <= n /\ n <= 255
    BY <1>3, SignedIs
  <2>2. n % 256 = n
    BY <2>1
  <2> QED
    BY <1>1, <1>3, <2>1, <2>2, SignedIs
<1> QED
  BY <1>2, <1>3

LEMMA ClampHolds ==
  ASSUME NEW p, LimitsInOrder(p), NEW byte \in 0..255
  PROVE  Holds(p, Clamp(p, byte))
<1>1. Number(p, p.min) \in Int /\ Number(p, p.max) \in Int /\ Number(p, byte) \in Int
  BY SignedIs DEF LimitsInOrder
<1> QED
  BY <1>1 DEF Holds, Clamp, IsLegal, LimitsInOrder

LEMMA IncrementHolds ==
  ASSUME NEW p, LimitsInOrder(p), NEW byte, Holds(p, byte), NEW by \in Int
  PROVE  Holds(p, Increment(p, byte, by))
<1> DEFINE n == Number(p, byte) + by
<1>1. n \in Int /\ p.min \in 0..255 /\ p.max \in 0..255
  BY SignedIs DEF LimitsInOrder, Holds
<1>2. CASE Number(p, p.min) <= n /\ n <= Number(p, p.max)
  <2>1. Increment(p, byte, by) = Byte(n)
    BY <1>2 DEF Increment
  <2> HIDE DEF n
  <2>2. ASSUME NEW a \in 0..255, NEW b \in 0..255, NEW m \in Int,
               Number(p, a) <= m, m <= Number(p, b)
        PROVE  Byte(m) \in 0..255 /\ Number(p, Byte(m)) = m
    BY <2>2, ByteOfNumber
  <2>3. Byte(n) \in 0..255 /\ Number(p, Byte(n)) = n
    BY ONLY <1>1, <1>2, <2>2
  <2> QED
    BY <1>2, <2>1, <2>3 DEF Holds, IsLegal
<1>3. CASE ~(Number(p, p.min) <= n /\ n <= Number(p, p.max))
  BY <1>3 DEF Increment
<1> QED
  BY <1>2, <1>3

\* From a byte outside of the limits, a step leads into them or is not taken.
LEMMA IncrementStays ==
  ASSUME NEW p, LimitsInOrder(p), NEW byte \in 0..255, NEW by \in Int
  PROVE  Increment(p, byte, by) = byte \/ Holds(p, Increment(p, byte, by))
<1> DEFINE n == Number(p, byte) + by
<1>1. n \in Int /\ p.min \in 0..255 /\ p.max \in 0..255
  BY SignedIs DEF LimitsInOrder
<1>2. CASE Number(p, p.min) <= n /\ n <= Number(p, p.max)
  <2>1. Increment(p, byte, by) = Byte(n)
    BY <1>2 DEF Increment
  <2> HIDE DEF n
  <2>2. ASSUME NEW a \in 0..255, NEW b \in 0..255, NEW m \in Int,
               Number(p, a) <= m, m <= Number(p, b)
        PROVE  Byte(m) \in 0..255 /\ Number(p, Byte(m)) = m
    BY <2>2, ByteOfNumber
  <2>3. Byte(n) \in 0..255 /\ Number(p, Byte(n)) = n
    BY ONLY <1>1, <1>2, <2>2
  <2> QED
    BY <1>2, <2>1, <2>3 DEF Holds, IsLegal
<1>3. CASE ~(Number(p, p.min) <= n /\ n <= Number(p, p.max))
  BY <1>3 DEF Increment
<1> QED
  BY <1>2, <1>3

\* A product of a range and of less than one, rounded down, is below the range.
LEMMA PartOfRange ==
  ASSUME NEW range \in Nat, NEW w \in 0..255, range > 0
  PROVE  (range * w) \div 256 \in 0..(range - 1)
<1>1. range * w \in Nat
  OBVIOUS
<1>2. range * w < range * 256
  BY Z3
<1> DEFINE x == range * w
<1>3. x \in Nat /\ x < range * 256
  BY <1>1, <1>2
<1> HIDE DEF x
<1>4. x \div 256 \in Nat /\ x \div 256 < range
  BY <1>3
<1> QED
  BY <1>4 DEF x

\* Bytes that differ by 256 are the same byte.
LEMMA SameByte ==
  ASSUME NEW a \in Int, NEW b \in Int, a = b \/ a = b + 256 \/ b = a + 256
  PROVE  Byte(a) = Byte(b)
BY DEF Byte

LEMMA ScaleHolds ==
  ASSUME NEW p, LimitsInOrder(p), NEW value \in 0..127
  PROVE  Holds(p, Scale(p, value))
<1> DEFINE low == Number(p, p.min)
           high == Number(p, p.max)
           range == Byte(p.max - p.min + 1)
           q == (range * Byte(2 * value)) \div 256
           scaled == Byte(q + p.min)
<1>1. p.min \in 0..255 /\ p.max \in 0..255 /\ low \in Int /\ high \in Int /\ low <= high
  BY SignedIs DEF LimitsInOrder
<1>2. (low = p.min \/ low = p.min - 256) /\ (high = p.max \/ high = p.max - 256) /\ high - low <= 255
  <2>1. CASE p.unit = "Signed"
    BY <2>1, <1>1, SignedIs
  <2>2. CASE p.unit # "Signed"
    BY <2>2, <1>1, SignedIs
  <2> QED
    BY <2>1, <2>2
<1> HIDE DEF low, high
<1>3. range \in Nat /\ range <= high - low + 1
  <2>1. Byte(p.max - p.min + 1) = Byte(high - low + 1)
    <3> DEFINE x == p.max - p.min + 1
               y == high - low + 1
    <3>0. ASSUME NEW a \in Int, NEW b \in Int, NEW c \in Int, NEW d \in Int,
                 c = a \/ c = a - 256, d = b \/ d = b - 256
          PROVE  LET u == b - a + 1  v == d - c + 1 IN u \in Int /\ v \in Int /\ (u = v \/ u = v + 256 \/ v = u + 256)
      BY <3>0
    <3>1. x \in Int /\ y \in Int /\ (x = y \/ x = y + 256 \/ y = x + 256)
      <4>1. p.min \in Int /\ p.max \in Int
        BY <1>1
      <4> QED
        BY <1>1, <1>2, <3>0, <4>1
    <3> HIDE DEF x, y
    <3>2. Byte(x) = Byte(y)
      BY <3>1, SameByte
    <3> QED
      BY <3>2 DEF x, y
  <2> DEFINE d == high - low + 1
  <2>2. d \in Nat
    BY <1>1
  <2> HIDE DEF d
  <2>3. Byte(d) \in Nat /\ Byte(d) <= d
    BY <2>2 DEF Byte
  <2> QED
    BY <2>1, <2>3 DEF d
<1>4. Byte(2 * value) \in 0..255
  BY DEF Byte
<1> DEFINE w == Byte(2 * value)
<1> HIDE DEF range, w
<1>5. q \in Nat /\ q <= high - low
  <2>0. q = (range * w) \div 256
    BY DEF w
  <2>1. CASE range = 0
    <3>1. range * w = 0
      BY <1>4, <2>1 DEF w
    <3>2. q = 0
      BY <2>0, <3>1
    <3> QED
      BY <3>2, <1>1
  <2>2. CASE range > 0
    <3>1. (range * w) \div 256 \in 0..(range - 1)
      BY <2>2, <1>3, <1>4, PartOfRange DEF w
    <3> HIDE DEF q
    <3> QED
      BY <3>1, <2>0, <1>1, <1>3
  <2> QED
    BY <2>1, <2>2, <1>3
<1> HIDE DEF q
<1>6. scaled = Byte(q + low)
  <2>1. q + p.min = q + low \/ q + p.min = (q + low) + 256
    BY <1>1, <1>2, <1>5
  <2> QED
    BY <2>1, <1>1, <1>5, SameByte
<1> DEFINE n == q + low
<1>7. n \in Int /\ low <= n /\ n <= high
  BY <1>1, <1>5
<1> HIDE DEF n
<1>8. scaled \in 0..255 /\ Number(p, scaled) = n
  <2>0. Number(p, p.min) <= n /\ n <= Number(p, p.max) /\ n \in Int /\ p.min \in 0..255 /\ p.max \in 0..255
    BY <1>1, <1>7 DEF low, high
  <2>1. ASSUME NEW a \in 0..255, NEW b \in 0..255, NEW m \in Int,
               Number(p, a) <= m, m <= Number(p, b)
        PROVE  Byte(m) \in 0..255 /\ Number(p, Byte(m)) = m
    BY <2>1, ByteOfNumber
  <2>2. Byte(n) \in 0..255 /\ Number(p, Byte(n)) = n
    BY ONLY <2>0, <2>1
  <2> QED
    BY <2>2, <1>6 DEF n
<1>9. IsLegal(p, scaled)
  BY <1>7, <1>8 DEF IsLegal, low, high
<1> DEFINE even == IF scaled >= 239 THEN 240 ELSE scaled - (scaled % 2)
<1>10. Scale(p, value) = CASE p.unit = "Raw" -> value [] p.unit = "Tempo" -> even [] OTHER -> scaled
  BY DEF Scale, q, range
<1> HIDE DEF scaled
<1>11. CASE p.unit = "Raw"
  <2>1. Scale(p, value) = value
    BY <1>10, <1>11
  <2>2. p.min = 0 /\ p.max = 127 /\ p.unit # "Signed"
    BY <1>11 DEF LimitsInOrder
  <2> QED
    BY <2>1, <2>2, SignedIs DEF Holds, IsLegal
<1>12. CASE p.unit = "Tempo"
  <2>1. Scale(p, value) = even
    BY <1>10, <1>12
  <2>2. p.min = 39 /\ p.max = 240 /\ p.unit # "Signed"
    BY <1>12 DEF LimitsInOrder
  <2>3. 39 <= scaled /\ scaled <= 240
    BY <2>2, <1>8, <1>9, SignedIs DEF IsLegal
  <2>4. even \in 38..240
    BY <2>3, <1>8
  <2> HIDE DEF even
  <2>5. Number(p, even) = even /\ Number(p, p.min) = 39 /\ Number(p, p.max) = 240
    BY <2>2, <2>4, SignedIs
  <2> QED
    BY <2>1, <2>4, <2>5, <1>12 DEF Holds, IsLegal
<1>13. CASE p.unit # "Raw" /\ p.unit # "Tempo"
  BY <1>8, <1>9, <1>10, <1>13 DEF Holds
<1> QED
  BY <1>11, <1>12, <1>13

\* Every set of numbers that is not empty has a least one.
LEMMA LeastNumber ==
  ASSUME NEW S \in SUBSET Nat, S # {}
  PROVE  \E least \in S : \A j \in S : least <= j
<1>1. PICK least \in S : \A j \in S : ~ <<j, least>> \in OpToRel(<, Nat)
  BY NatLessThanWellFounded, WFMin
<1>2. ASSUME NEW j \in S PROVE least <= j
  <2>1. j \in Nat /\ least \in Nat
    OBVIOUS
  <2>2. ~ (j < least)
    BY <1>1, <2>1 DEF OpToRel
  <2> QED
    BY <2>1, <2>2
<1> QED
  BY <1>2
-----------------------------------------------------------------------------
(* What is received by MIDI reaches a parameter.                           *)

\* A control change has no parameter, or one of a part and an instance of it.
Reaches(cc) ==
  LET id == midi_cc_map[cc + 1]
  IN  id # None => /\ id \in Ids /\ Space(parameter[id]) = "Part"
                   /\ \E i \in 0..(parameter[id].instances - 1) :
                        Byte(cc - parameter[id].stride * i) = parameter[id].cc

LEMMA ByteOfController ==
  ASSUME NEW n \in 0..255
  PROVE  Byte(n) = n
BY DEF Byte

LEMMA ControllersReach ==
  ASSUME NEW cc \in 0..111
  PROVE  Reaches(cc)
<1> USE DEF Space, Single, Bank, None
<1>1. CASE cc \in 0..15
  <2>1. /\ midi_cc_map[1] = 255 /\ midi_cc_map[2] = 255 /\ midi_cc_map[3] = 255 /\ midi_cc_map[4] = 22
        /\ midi_cc_map[5] = 255 /\ midi_cc_map[6] = 48 /\ midi_cc_map[7] = 255 /\ midi_cc_map[8] = 42
        /\ midi_cc_map[9] = 255 /\ midi_cc_map[10] = 23 /\ midi_cc_map[11] = 255 /\ midi_cc_map[12] = 255
        /\ midi_cc_map[13] = 14 /\ midi_cc_map[14] = 15 /\ midi_cc_map[15] = 2 /\ midi_cc_map[16] = 3
    BY DEF midi_cc_map
  <2>2. CASE cc \in {0, 1, 2, 4, 6, 8, 10, 11}
    BY <2>1, <2>2 DEF Reaches
  <2>3. CASE cc = 3
    <3>1. midi_cc_map[cc + 1] = 22 /\ cc - parameter[22].stride * 0 = parameter[22].cc /\ 0 \in 0..(parameter[22].instances - 1)
      BY <2>1, <2>3, FilterParameters
    <3> QED
      BY <3>1, IdsAre, ByteOfController, FilterParameters DEF Reaches
  <2>4. CASE cc = 5
    <3>1. midi_cc_map[cc + 1] = 48 /\ cc - parameter[48].stride * 0 = parameter[48].cc /\ 0 \in 0..(parameter[48].instances - 1)
      BY <2>1, <2>4, PartParameters
    <3> QED
      BY <3>1, IdsAre, ByteOfController, PartParameters DEF Reaches
  <2>5. CASE cc = 7
    <3>1. midi_cc_map[cc + 1] = 42 /\ cc - parameter[42].stride * 0 = parameter[42].cc /\ 0 \in 0..(parameter[42].instances - 1)
      BY <2>1, <2>5, PartParameters
    <3> QED
      BY <3>1, IdsAre, ByteOfController, PartParameters DEF Reaches
  <2>6. CASE cc = 9
    <3>1. midi_cc_map[cc + 1] = 23 /\ cc - parameter[23].stride * 0 = parameter[23].cc /\ 0 \in 0..(parameter[23].instances - 1)
      BY <2>1, <2>6, FilterParameters
    <3> QED
      BY <3>1, IdsAre, ByteOfController, FilterParameters DEF Reaches
  <2>7. CASE cc = 12
    <3>1. midi_cc_map[cc + 1] = 14 /\ cc - parameter[14].stride * 0 = parameter[14].cc /\ 0 \in 0..(parameter[14].instances - 1)
      BY <2>1, <2>7, MixerParameters
    <3> QED
      BY <3>1, IdsAre, ByteOfController, MixerParameters DEF Reaches
  <2>8. CASE cc = 13
    <3>1. midi_cc_map[cc + 1] = 15 /\ cc - parameter[15].stride * 0 = parameter[15].cc /\ 0 \in 0..(parameter[15].instances - 1)
      BY <2>1, <2>8, MixerParameters
    <3> QED
      BY <3>1, IdsAre, ByteOfController, MixerParameters DEF Reaches
  <2>9. CASE cc = 14
    <3>1. midi_cc_map[cc + 1] = 2 /\ cc - parameter[2].stride * 0 = parameter[2].cc /\ 0 \in 0..(parameter[2].instances - 1)
      BY <2>1, <2>9, OscillatorParameters
    <3> QED
      BY <3>1, IdsAre, ByteOfController, OscillatorParameters DEF Reaches
  <2>10. CASE cc = 15
    <3>1. midi_cc_map[cc + 1] = 3 /\ cc - parameter[3].stride * 0 = parameter[3].cc /\ 0 \in 0..(parameter[3].instances - 1)
      BY <2>1, <2>10, OscillatorParameters
    <3> QED
      BY <3>1, IdsAre, ByteOfController, OscillatorParameters DEF Reaches
  <2> QED
    BY ONLY <1>1, <2>2, <2>3, <2>4, <2>5, <2>6, <2>7, <2>8, <2>9, <2>10
<1>2. CASE cc \in 16..31
  <2>1. /\ midi_cc_map[17] = 0 /\ midi_cc_map[18] = 1 /\ midi_cc_map[19] = 4 /\ midi_cc_map[20] = 5
        /\ midi_cc_map[21] = 6 /\ midi_cc_map[22] = 7 /\ midi_cc_map[23] = 8 /\ midi_cc_map[24] = 9
        /\ midi_cc_map[25] = 10 /\ midi_cc_map[26] = 11 /\ midi_cc_map[27] = 12 /\ midi_cc_map[28] = 13
        /\ midi_cc_map[29] = 18 /\ midi_cc_map[30] = 19 /\ midi_cc_map[31] = 20 /\ midi_cc_map[32] = 21
    BY DEF midi_cc_map
  <2>2. CASE cc = 16
    <3>1. midi_cc_map[cc + 1] = 0 /\ cc - parameter[0].stride * 0 = parameter[0].cc /\ 0 \in 0..(parameter[0].instances - 1)
      BY <2>1, <2>2, OscillatorParameters
    <3> QED
      BY <3>1, IdsAre, ByteOfController, OscillatorParameters DEF Reaches
  <2>3. CASE cc = 17
    <3>1. midi_cc_map[cc + 1] = 1 /\ cc - parameter[1].stride * 0 = parameter[1].cc /\ 0 \in 0..(parameter[1].instances - 1)
      BY <2>1, <2>3, OscillatorParameters
    <3> QED
      BY <3>1, IdsAre, ByteOfController, OscillatorParameters DEF Reaches
  <2>4. CASE cc = 18
    <3>1. midi_cc_map[cc + 1] = 4 /\ cc - parameter[4].stride * 0 = parameter[4].cc /\ 0 \in 0..(parameter[4].instances - 1)
      BY <2>1, <2>4, OscillatorParameters
    <3> QED
      BY <3>1, IdsAre, ByteOfController, OscillatorParameters DEF Reaches
  <2>5. CASE cc = 19
    <3>1. midi_cc_map[cc + 1] = 5 /\ cc - parameter[5].stride * 0 = parameter[5].cc /\ 0 \in 0..(parameter[5].instances - 1)
      BY <2>1, <2>5, OscillatorParameters
    <3> QED
      BY <3>1, IdsAre, ByteOfController, OscillatorParameters DEF Reaches
  <2>6. CASE cc = 20
    <3>1. midi_cc_map[cc + 1] = 6 /\ cc - parameter[6].stride * 0 = parameter[6].cc /\ 0 \in 0..(parameter[6].instances - 1)
      BY <2>1, <2>6, OscillatorParameters
    <3> QED
      BY <3>1, IdsAre, ByteOfController, OscillatorParameters DEF Reaches
  <2>7. CASE cc = 21
    <3>1. midi_cc_map[cc + 1] = 7 /\ cc - parameter[7].stride * 0 = parameter[7].cc /\ 0 \in 0..(parameter[7].instances - 1)
      BY <2>1, <2>7, OscillatorParameters
    <3> QED
      BY <3>1, IdsAre, ByteOfController, OscillatorParameters DEF Reaches
  <2>8. CASE cc = 22
    <3>1. midi_cc_map[cc + 1] = 8 /\ cc - parameter[8].stride * 0 = parameter[8].cc /\ 0 \in 0..(parameter[8].instances - 1)
      BY <2>1, <2>8, MixerParameters
    <3> QED
      BY <3>1, IdsAre, ByteOfController, MixerParameters DEF Reaches
  <2>9. CASE cc = 23
    <3>1. midi_cc_map[cc + 1] = 9 /\ cc - parameter[9].stride * 0 = parameter[9].cc /\ 0 \in 0..(parameter[9].instances - 1)
      BY <2>1, <2>9, MixerParameters
    <3> QED
      BY <3>1, IdsAre, ByteOfController, MixerParameters DEF Reaches
  <2>10. CASE cc = 24
    <3>1. midi_cc_map[cc + 1] = 10 /\ cc - parameter[10].stride * 0 = parameter[10].cc /\ 0 \in 0..(parameter[10].instances - 1)
      BY <2>1, <2>10, MixerParameters
    <3> QED
      BY <3>1, IdsAre, ByteOfController, MixerParameters DEF Reaches
  <2>11. CASE cc = 25
    <3>1. midi_cc_map[cc + 1] = 11 /\ cc - parameter[11].stride * 0 = parameter[11].cc /\ 0 \in 0..(parameter[11].instances - 1)
      BY <2>1, <2>11, MixerParameters
    <3> QED
      BY <3>1, IdsAre, ByteOfController, MixerParameters DEF Reaches
  <2>12. CASE cc = 26
    <3>1. midi_cc_map[cc + 1] = 12 /\ cc - parameter[12].stride * 0 = parameter[12].cc /\ 0 \in 0..(parameter[12].instances - 1)
      BY <2>1, <2>12, MixerParameters
    <3> QED
      BY <3>1, IdsAre, ByteOfController, MixerParameters DEF Reaches
  <2>13. CASE cc = 27
    <3>1. midi_cc_map[cc + 1] = 13 /\ cc - parameter[13].stride * 0 = parameter[13].cc /\ 0 \in 0..(parameter[13].instances - 1)
      BY <2>1, <2>13, MixerParameters
    <3> QED
      BY <3>1, IdsAre, ByteOfController, MixerParameters DEF Reaches
  <2>14. CASE cc = 28
    <3>1. midi_cc_map[cc + 1] = 18 /\ cc - parameter[18].stride * 0 = parameter[18].cc /\ 0 \in 0..(parameter[18].instances - 1)
      BY <2>1, <2>14, FilterParameters
    <3> QED
      BY <3>1, IdsAre, ByteOfController, FilterParameters DEF Reaches
  <2>15. CASE cc = 29
    <3>1. midi_cc_map[cc + 1] = 19 /\ cc - parameter[19].stride * 0 = parameter[19].cc /\ 0 \in 0..(parameter[19].instances - 1)
      BY <2>1, <2>15, FilterParameters
    <3> QED
      BY <3>1, IdsAre, ByteOfController, FilterParameters DEF Reaches
  <2>16. CASE cc = 30
    <3>1. midi_cc_map[cc + 1] = 20 /\ cc - parameter[20].stride * 0 = parameter[20].cc /\ 0 \in 0..(parameter[20].instances - 1)
      BY <2>1, <2>16, FilterParameters
    <3> QED
      BY <3>1, IdsAre, ByteOfController, FilterParameters DEF Reaches
  <2>17. CASE cc = 31
    <3>1. midi_cc_map[cc + 1] = 21 /\ cc - parameter[21].stride * 0 = parameter[21].cc /\ 0 \in 0..(parameter[21].instances - 1)
      BY <2>1, <2>17, FilterParameters
    <3> QED
      BY <3>1, IdsAre, ByteOfController, FilterParameters DEF Reaches
  <2> QED
    BY ONLY <1>2, <2>2, <2>3, <2>4, <2>5, <2>6, <2>7, <2>8, <2>9, <2>10, <2>11, <2>12, <2>13, <2>14, <2>15, <2>16, <2>17
<1>3. CASE cc \in 32..47
  <2>1. /\ midi_cc_map[33] = 255 /\ midi_cc_map[34] = 255 /\ midi_cc_map[35] = 255 /\ midi_cc_map[36] = 255
        /\ midi_cc_map[37] = 255 /\ midi_cc_map[38] = 255 /\ midi_cc_map[39] = 255 /\ midi_cc_map[40] = 255
        /\ midi_cc_map[41] = 255 /\ midi_cc_map[42] = 255 /\ midi_cc_map[43] = 255 /\ midi_cc_map[44] = 255
        /\ midi_cc_map[45] = 29 /\ midi_cc_map[46] = 30 /\ midi_cc_map[47] = 31 /\ midi_cc_map[48] = 32
    BY DEF midi_cc_map
  <2>2. CASE cc \in {32, 33, 34, 35, 36, 37, 38, 39, 40, 41, 42, 43}
    BY <2>1, <2>2 DEF Reaches
  <2>3. CASE cc = 44
    <3>1. midi_cc_map[cc + 1] = 29 /\ cc - parameter[29].stride * 0 = parameter[29].cc /\ 0 \in 0..(parameter[29].instances - 1)
      BY <2>1, <2>3, EnvelopeParameters
    <3> QED
      BY <3>1, IdsAre, ByteOfController, EnvelopeParameters DEF Reaches
  <2>4. CASE cc = 45
    <3>1. midi_cc_map[cc + 1] = 30 /\ cc - parameter[30].stride * 0 = parameter[30].cc /\ 0 \in 0..(parameter[30].instances - 1)
      BY <2>1, <2>4, EnvelopeParameters
    <3> QED
      BY <3>1, IdsAre, ByteOfController, EnvelopeParameters DEF Reaches
  <2>5. CASE cc = 46
    <3>1. midi_cc_map[cc + 1] = 31 /\ cc - parameter[31].stride * 0 = parameter[31].cc /\ 0 \in 0..(parameter[31].instances - 1)
      BY <2>1, <2>5, EnvelopeParameters
    <3> QED
      BY <3>1, IdsAre, ByteOfController, EnvelopeParameters DEF Reaches
  <2>6. CASE cc = 47
    <3>1. midi_cc_map[cc + 1] = 32 /\ cc - parameter[32].stride * 0 = parameter[32].cc /\ 0 \in 0..(parameter[32].instances - 1)
      BY <2>1, <2>6, EnvelopeParameters
    <3> QED
      BY <3>1, IdsAre, ByteOfController, EnvelopeParameters DEF Reaches
  <2> QED
    BY ONLY <1>3, <2>2, <2>3, <2>4, <2>5, <2>6
<1>4. CASE cc \in 48..63
  <2>1. /\ midi_cc_map[49] = 33 /\ midi_cc_map[50] = 255 /\ midi_cc_map[51] = 255 /\ midi_cc_map[52] = 255
        /\ midi_cc_map[53] = 29 /\ midi_cc_map[54] = 30 /\ midi_cc_map[55] = 31 /\ midi_cc_map[56] = 255
        /\ midi_cc_map[57] = 255 /\ midi_cc_map[58] = 255 /\ midi_cc_map[59] = 255 /\ midi_cc_map[60] = 255
        /\ midi_cc_map[61] = 29 /\ midi_cc_map[62] = 30 /\ midi_cc_map[63] = 31 /\ midi_cc_map[64] = 255
    BY DEF midi_cc_map
  <2>2. CASE cc \in {49, 50, 51, 55, 56, 57, 58, 59, 63}
    BY <2>1, <2>2 DEF Reaches
  <2>3. CASE cc = 48
    <3>1. midi_cc_map[cc + 1] = 33 /\ cc - parameter[33].stride * 0 = parameter[33].cc /\ 0 \in 0..(parameter[33].instances - 1)
      BY <2>1, <2>3, EnvelopeParameters
    <3> QED
      BY <3>1, IdsAre, ByteOfController, EnvelopeParameters DEF Reaches
  <2>4. CASE cc = 52
    <3>1. midi_cc_map[cc + 1] = 29 /\ cc - parameter[29].stride * 1 = parameter[29].cc /\ 1 \in 0..(parameter[29].instances - 1)
      BY <2>1, <2>4, EnvelopeParameters
    <3> QED
      BY <3>1, IdsAre, ByteOfController, EnvelopeParameters DEF Reaches
  <2>5. CASE cc = 53
    <3>1. midi_cc_map[cc + 1] = 30 /\ cc - parameter[30].stride * 1 = parameter[30].cc /\ 1 \in 0..(parameter[30].instances - 1)
      BY <2>1, <2>5, EnvelopeParameters
    <3> QED
      BY <3>1, IdsAre, ByteOfController, EnvelopeParameters DEF Reaches
  <2>6. CASE cc = 54
    <3>1. midi_cc_map[cc + 1] = 31 /\ cc - parameter[31].stride * 1 = parameter[31].cc /\ 1 \in 0..(parameter[31].instances - 1)
      BY <2>1, <2>6, EnvelopeParameters
    <3> QED
      BY <3>1, IdsAre, ByteOfController, EnvelopeParameters DEF Reaches
  <2>7. CASE cc = 60
    <3>1. midi_cc_map[cc + 1] = 29 /\ cc - parameter[29].stride * 2 = parameter[29].cc /\ 2 \in 0..(parameter[29].instances - 1)
      BY <2>1, <2>7, EnvelopeParameters
    <3> QED
      BY <3>1, IdsAre, ByteOfController, EnvelopeParameters DEF Reaches
  <2>8. CASE cc = 61
    <3>1. midi_cc_map[cc + 1] = 30 /\ cc - parameter[30].stride * 2 = parameter[30].cc /\ 2 \in 0..(parameter[30].instances - 1)
      BY <2>1, <2>8, EnvelopeParameters
    <3> QED
      BY <3>1, IdsAre, ByteOfController, EnvelopeParameters DEF Reaches
  <2>9. CASE cc = 62
    <3>1. midi_cc_map[cc + 1] = 31 /\ cc - parameter[31].stride * 2 = parameter[31].cc /\ 2 \in 0..(parameter[31].instances - 1)
      BY <2>1, <2>9, EnvelopeParameters
    <3> QED
      BY <3>1, IdsAre, ByteOfController, EnvelopeParameters DEF Reaches
  <2> QED
    BY ONLY <1>4, <2>2, <2>3, <2>4, <2>5, <2>6, <2>7, <2>8, <2>9
<1>5. CASE cc \in 64..79
  <2>1. /\ midi_cc_map[65] = 255 /\ midi_cc_map[66] = 255 /\ midi_cc_map[67] = 255 /\ midi_cc_map[68] = 255
        /\ midi_cc_map[69] = 47 /\ midi_cc_map[70] = 255 /\ midi_cc_map[71] = 27 /\ midi_cc_map[72] = 17
        /\ midi_cc_map[73] = 28 /\ midi_cc_map[74] = 25 /\ midi_cc_map[75] = 16 /\ midi_cc_map[76] = 26
        /\ midi_cc_map[77] = 255 /\ midi_cc_map[78] = 255 /\ midi_cc_map[79] = 27 /\ midi_cc_map[80] = 255
    BY DEF midi_cc_map
  <2>2. CASE cc \in {64, 65, 66, 67, 69, 76, 77, 79}
    BY <2>1, <2>2 DEF Reaches
  <2>3. CASE cc = 68
    <3>1. midi_cc_map[cc + 1] = 47 /\ cc - parameter[47].stride * 0 = parameter[47].cc /\ 0 \in 0..(parameter[47].instances - 1)
      BY <2>1, <2>3, PartParameters
    <3> QED
      BY <3>1, IdsAre, ByteOfController, PartParameters DEF Reaches
  <2>4. CASE cc = 70
    <3>1. midi_cc_map[cc + 1] = 27 /\ cc - parameter[27].stride * 0 = parameter[27].cc /\ 0 \in 0..(parameter[27].instances - 1)
      BY <2>1, <2>4, EnvelopeParameters
    <3>2. Space(parameter[27]) = "Part" /\ parameter[27].cc \in 0..255
      BY EnvelopeParameters
    <3> QED
      BY ONLY <3>1, <3>2, IdsAre, ByteOfController DEF Reaches
  <2>5. CASE cc = 71
    <3>1. midi_cc_map[cc + 1] = 17 /\ cc - parameter[17].stride * 0 = parameter[17].cc /\ 0 \in 0..(parameter[17].instances - 1)
      BY <2>1, <2>5, FilterParameters
    <3> QED
      BY <3>1, IdsAre, ByteOfController, FilterParameters DEF Reaches
  <2>6. CASE cc = 72
    <3>1. midi_cc_map[cc + 1] = 28 /\ cc - parameter[28].stride * 0 = parameter[28].cc /\ 0 \in 0..(parameter[28].instances - 1)
      BY <2>1, <2>6, EnvelopeParameters
    <3> QED
      BY <3>1, IdsAre, ByteOfController, EnvelopeParameters DEF Reaches
  <2>7. CASE cc = 73
    <3>1. midi_cc_map[cc + 1] = 25 /\ cc - parameter[25].stride * 0 = parameter[25].cc /\ 0 \in 0..(parameter[25].instances - 1)
      BY <2>1, <2>7, EnvelopeParameters
    <3> QED
      BY <3>1, IdsAre, ByteOfController, EnvelopeParameters DEF Reaches
  <2>8. CASE cc = 74
    <3>1. midi_cc_map[cc + 1] = 16 /\ cc - parameter[16].stride * 0 = parameter[16].cc /\ 0 \in 0..(parameter[16].instances - 1)
      BY <2>1, <2>8, FilterParameters
    <3> QED
      BY <3>1, IdsAre, ByteOfController, FilterParameters DEF Reaches
  <2>9. CASE cc = 75
    <3>1. midi_cc_map[cc + 1] = 26 /\ cc - parameter[26].stride * 0 = parameter[26].cc /\ 0 \in 0..(parameter[26].instances - 1)
      BY <2>1, <2>9, EnvelopeParameters
    <3> QED
      BY <3>1, IdsAre, ByteOfController, EnvelopeParameters DEF Reaches
  <2>10. CASE cc = 78
    <3>1. midi_cc_map[cc + 1] = 27 /\ cc - parameter[27].stride * 1 = parameter[27].cc /\ 1 \in 0..(parameter[27].instances - 1)
      BY <2>1, <2>10, EnvelopeParameters
    <3> QED
      BY <3>1, IdsAre, ByteOfController, EnvelopeParameters DEF Reaches
  <2> QED
    BY ONLY <1>5, <2>2, <2>3, <2>4, <2>5, <2>6, <2>7, <2>8, <2>9, <2>10
<1>6. CASE cc \in 80..95
  <2>1. /\ midi_cc_map[81] = 28 /\ midi_cc_map[82] = 25 /\ midi_cc_map[83] = 255 /\ midi_cc_map[84] = 26
        /\ midi_cc_map[85] = 255 /\ midi_cc_map[86] = 255 /\ midi_cc_map[87] = 27 /\ midi_cc_map[88] = 255
        /\ midi_cc_map[89] = 28 /\ midi_cc_map[90] = 25 /\ midi_cc_map[91] = 255 /\ midi_cc_map[92] = 26
        /\ midi_cc_map[93] = 255 /\ midi_cc_map[94] = 255 /\ midi_cc_map[95] = 44 /\ midi_cc_map[96] = 45
    BY DEF midi_cc_map
  <2>2. CASE cc \in {82, 84, 85, 87, 90, 92, 93}
    BY <2>1, <2>2 DEF Reaches
  <2>3. CASE cc = 80
    <3>1. midi_cc_map[cc + 1] = 28 /\ cc - parameter[28].stride * 1 = parameter[28].cc /\ 1 \in 0..(parameter[28].instances - 1)
      BY <2>1, <2>3, EnvelopeParameters
    <3> QED
      BY <3>1, IdsAre, ByteOfController, EnvelopeParameters DEF Reaches
  <2>4. CASE cc = 81
    <3>1. midi_cc_map[cc + 1] = 25 /\ cc - parameter[25].stride * 1 = parameter[25].cc /\ 1 \in 0..(parameter[25].instances - 1)
      BY <2>1, <2>4, EnvelopeParameters
    <3> QED
      BY <3>1, IdsAre, ByteOfController, EnvelopeParameters DEF Reaches
  <2>5. CASE cc = 83
    <3>1. midi_cc_map[cc + 1] = 26 /\ cc - parameter[26].stride * 1 = parameter[26].cc /\ 1 \in 0..(parameter[26].instances - 1)
      BY <2>1, <2>5, EnvelopeParameters
    <3> QED
      BY <3>1, IdsAre, ByteOfController, EnvelopeParameters DEF Reaches
  <2>6. CASE cc = 86
    <3>1. midi_cc_map[cc + 1] = 27 /\ cc - parameter[27].stride * 2 = parameter[27].cc /\ 2 \in 0..(parameter[27].instances - 1)
      BY <2>1, <2>6, EnvelopeParameters
    <3> QED
      BY <3>1, IdsAre, ByteOfController, EnvelopeParameters DEF Reaches
  <2>7. CASE cc = 88
    <3>1. midi_cc_map[cc + 1] = 28 /\ cc - parameter[28].stride * 2 = parameter[28].cc /\ 2 \in 0..(parameter[28].instances - 1)
      BY <2>1, <2>7, EnvelopeParameters
    <3> QED
      BY <3>1, IdsAre, ByteOfController, EnvelopeParameters DEF Reaches
  <2>8. CASE cc = 89
    <3>1. midi_cc_map[cc + 1] = 25 /\ cc - parameter[25].stride * 2 = parameter[25].cc /\ 2 \in 0..(parameter[25].instances - 1)
      BY <2>1, <2>8, EnvelopeParameters
    <3> QED
      BY <3>1, IdsAre, ByteOfController, EnvelopeParameters DEF Reaches
  <2>9. CASE cc = 91
    <3>1. midi_cc_map[cc + 1] = 26 /\ cc - parameter[26].stride * 2 = parameter[26].cc /\ 2 \in 0..(parameter[26].instances - 1)
      BY <2>1, <2>9, EnvelopeParameters
    <3> QED
      BY <3>1, IdsAre, ByteOfController, EnvelopeParameters DEF Reaches
  <2>10. CASE cc = 94
    <3>1. midi_cc_map[cc + 1] = 44 /\ cc - parameter[44].stride * 0 = parameter[44].cc /\ 0 \in 0..(parameter[44].instances - 1)
      BY <2>1, <2>10, PartParameters
    <3> QED
      BY <3>1, IdsAre, ByteOfController, PartParameters DEF Reaches
  <2>11. CASE cc = 95
    <3>1. midi_cc_map[cc + 1] = 45 /\ cc - parameter[45].stride * 0 = parameter[45].cc /\ 0 \in 0..(parameter[45].instances - 1)
      BY <2>1, <2>11, PartParameters
    <3> QED
      BY <3>1, IdsAre, ByteOfController, PartParameters DEF Reaches
  <2> QED
    BY ONLY <1>6, <2>2, <2>3, <2>4, <2>5, <2>6, <2>7, <2>8, <2>9, <2>10, <2>11
<1>7. CASE cc \in 96..111
  <2>1. /\ midi_cc_map[97] = 255 /\ midi_cc_map[98] = 255 /\ midi_cc_map[99] = 255 /\ midi_cc_map[100] = 255
        /\ midi_cc_map[101] = 255 /\ midi_cc_map[102] = 255 /\ midi_cc_map[103] = 49 /\ midi_cc_map[104] = 50
        /\ midi_cc_map[105] = 51 /\ midi_cc_map[106] = 52 /\ midi_cc_map[107] = 53 /\ midi_cc_map[108] = 57
        /\ midi_cc_map[109] = 73 /\ midi_cc_map[110] = 74 /\ midi_cc_map[111] = 255 /\ midi_cc_map[112] = 255
    BY DEF midi_cc_map
  <2>2. CASE cc \in {96, 97, 98, 99, 100, 101, 110, 111}
    BY <2>1, <2>2 DEF Reaches
  <2>3. CASE cc = 102
    <3>1. midi_cc_map[cc + 1] = 49 /\ cc - parameter[49].stride * 0 = parameter[49].cc /\ 0 \in 0..(parameter[49].instances - 1)
      BY <2>1, <2>3, PartParameters
    <3> QED
      BY <3>1, IdsAre, ByteOfController, PartParameters DEF Reaches
  <2>4. CASE cc = 103
    <3>1. midi_cc_map[cc + 1] = 50 /\ cc - parameter[50].stride * 0 = parameter[50].cc /\ 0 \in 0..(parameter[50].instances - 1)
      BY <2>1, <2>4, PartParameters
    <3> QED
      BY <3>1, IdsAre, ByteOfController, PartParameters DEF Reaches
  <2>5. CASE cc = 104
    <3>1. midi_cc_map[cc + 1] = 51 /\ cc - parameter[51].stride * 0 = parameter[51].cc /\ 0 \in 0..(parameter[51].instances - 1)
      BY <2>1, <2>5, PartParameters
    <3> QED
      BY <3>1, IdsAre, ByteOfController, PartParameters DEF Reaches
  <2>6. CASE cc = 105
    <3>1. midi_cc_map[cc + 1] = 52 /\ cc - parameter[52].stride * 0 = parameter[52].cc /\ 0 \in 0..(parameter[52].instances - 1)
      BY <2>1, <2>6, PartParameters
    <3> QED
      BY <3>1, IdsAre, ByteOfController, PartParameters DEF Reaches
  <2>7. CASE cc = 106
    <3>1. midi_cc_map[cc + 1] = 53 /\ cc - parameter[53].stride * 0 = parameter[53].cc /\ 0 \in 0..(parameter[53].instances - 1)
      BY <2>1, <2>7, PartParameters
    <3> QED
      BY <3>1, IdsAre, ByteOfController, PartParameters DEF Reaches
  <2>8. CASE cc = 107
    <3>1. midi_cc_map[cc + 1] = 57 /\ cc - parameter[57].stride * 0 = parameter[57].cc /\ 0 \in 0..(parameter[57].instances - 1)
      BY <2>1, <2>8, PartParameters
    <3> QED
      BY <3>1, IdsAre, ByteOfController, PartParameters DEF Reaches
  <2>9. CASE cc = 108
    <3>1. midi_cc_map[cc + 1] = 73 /\ cc - parameter[73].stride * 0 = parameter[73].cc /\ 0 \in 0..(parameter[73].instances - 1)
      BY <2>1, <2>9, OtherParameters
    <3> QED
      BY <3>1, IdsAre, ByteOfController, OtherParameters DEF Reaches
  <2>10. CASE cc = 109
    <3>1. midi_cc_map[cc + 1] = 74 /\ cc - parameter[74].stride * 0 = parameter[74].cc /\ 0 \in 0..(parameter[74].instances - 1)
      BY <2>1, <2>10, OtherParameters
    <3> QED
      BY <3>1, IdsAre, ByteOfController, OtherParameters DEF Reaches
  <2> QED
    BY ONLY <1>7, <2>2, <2>3, <2>4, <2>5, <2>6, <2>7, <2>8, <2>9, <2>10
<1> QED
  BY ONLY cc \in 0..111, <1>1, <1>2, <1>3, <1>4, <1>5, <1>6, <1>7

\* The search for an instance ends at one, or behind the last.
LEMMA InstanceOfIs ==
  ASSUME NEW p, p.instances \in Nat, NEW cc
  PROVE  /\ InstanceOf(p, cc) \in 0..p.instances
         /\ (\E i \in 0..(p.instances - 1) : Byte(cc - p.stride * i) = p.cc)
              => InstanceOf(p, cc) \in 0..(p.instances - 1)
<1> DEFINE found == {i \in 0..(p.instances - 1) : Byte(cc - p.stride * i) = p.cc}
<1>1. CASE found = {}
  BY <1>1 DEF InstanceOf
<1>2. CASE found # {}
  <2>1. found \in SUBSET Nat
    OBVIOUS
  <2>2. InstanceOf(p, cc) = CHOOSE i \in found : \A j \in found : i <= j
    BY <1>2 DEF InstanceOf
  <2>3. \A i \in found : i \in 0..(p.instances - 1)
    OBVIOUS
  <2> HIDE DEF found
  <2>4. PICK least \in found : \A j \in found : least <= j
    BY <1>2, <2>1, LeastNumber
  <2>5. InstanceOf(p, cc) \in found
    BY <2>2, <2>4
  <2> QED
    BY <2>3, <2>5
<1> QED
  BY <1>1, <1>2

\* With the map of the Ambika an instance is found.
LEMMA InstanceOfReached ==
  ASSUME NEW cc \in 0..111, midi_cc_map[cc + 1] # None
  PROVE  LET p == parameter[midi_cc_map[cc + 1]]
         IN  /\ midi_cc_map[cc + 1] \in Ids /\ Space(p) = "Part"
             /\ InstanceOf(p, cc) \in 0..(p.instances - 1)
<1> DEFINE id == midi_cc_map[cc + 1]
           p == parameter[id]
<1>1. /\ id \in Ids /\ Space(p) = "Part"
      /\ \E i \in 0..(p.instances - 1) : Byte(cc - p.stride * i) = p.cc
  BY ControllersReach DEF Reaches
<1>2. p.instances \in Nat
  <2>1. InSpace(p)
    BY <1>1, RowsAreWellPlaced DEF WellPlaced
  <2> QED
    BY <2>1 DEF InSpace
<1> HIDE DEF id
<1> QED
  BY <1>1, <1>2, InstanceOfIs DEF id

\* What the knobs of a Launchkey are for, and the byte behind their map.
LaunchkeyIds == {1, 6, 7, 8, 12, 13, 16, 17, 22, 25, 26, 27, 28, 30, 32, 48, 49}

LEMMA LaunchkeyReaches ==
  ASSUME NEW cc \in 0..63
  PROVE  launchkey_cc_map[cc + 1] \in LaunchkeyIds \cup {None}
<1> USE DEF LaunchkeyIds, None
<1>1. CASE cc \in 0..20
  BY <1>1 DEF launchkey_cc_map
<1>2. CASE cc \in 21..31
  BY <1>2 DEF launchkey_cc_map
<1>3. CASE cc \in 32..47
  BY <1>3 DEF launchkey_cc_map
<1>4. CASE cc \in 48..63
  BY <1>4 DEF launchkey_cc_map
<1> QED
  BY <1>1, <1>2, <1>3, <1>4

LEMMA LaunchkeyIdsAre ==
  ASSUME NEW id \in LaunchkeyIds
  PROVE  /\ id \in Ids /\ Space(parameter[id]) = "Part" /\ parameter[id].instances \in 1..3
         /\ parameter[id].stride > 0 \/ (parameter[id].stride = 0 /\ parameter[id].instances = 1)
<1> USE DEF Space, Single, Bank, None
<1>1. CASE id \in {1, 6, 7}
  BY <1>1, IdsAre, OscillatorParameters
<1>2. CASE id \in {8, 12, 13}
  BY <1>2, IdsAre, MixerParameters
<1>3. CASE id \in {16, 17, 22}
  BY <1>3, IdsAre, FilterParameters
<1>4. CASE id \in {25, 26, 27, 28, 30, 32}
  BY <1>4, IdsAre, EnvelopeParameters
<1>5. CASE id \in {48, 49}
  BY <1>5, IdsAre, PartParameters
<1> QED
  BY <1>1, <1>2, <1>3, <1>4, <1>5 DEF LaunchkeyIds

\* An address has no parameter, or the one that its byte belongs to.
LEMMA MapOfAddresses ==
  ASSUME NEW a \in 0..127
  PROVE  AddressToParameterId(a) =
           IF a \in {30, 38, 46} \cup 106..111 THEN None ELSE PartIdAt(a)
<1> DEFINE head == <<0,  1,  2,  3,  4,  5,  6,  7,  8,  9, 10, 11, 12, 13, 14, 15,
                     16, 17, 18, 19, 20, 21, 22, 23, 25, 26, 27, 28, 31, 30,255, 29,
                     25, 26, 27, 28, 31, 30,255, 29, 25, 26, 27, 28, 31, 30,255, 29, 33, 32>>
           slots == [i \in 1..42 |-> 35 + ((i - 1) % 3)]
           modifiers == [i \in 1..12 |-> 39 + ((i - 1) % 3)]
           added == <<73, 74>>
           gap == [i \in 1..6 |-> 255]
           parts == [i \in 1..16 |-> 41 + i]
<1>1. midi_nrpn_map = head \o slots \o modifiers \o added \o gap \o parts
  BY DEF midi_nrpn_map
<1>2. IsRun(head, Int, 50)
  BY DEF IsRun
<1>3. IsRun(slots, Int, 42) /\ IsRun(modifiers, Int, 12)
  BY DEF IsRun
<1>4. IsRun(added, Int, 2) /\ IsRun(gap, Int, 6) /\ IsRun(parts, Int, 16)
  BY DEF IsRun
<1>5. \A i \in 1..42 : slots[i] = 35 + ((i - 1) % 3)
  OBVIOUS
<1>6. \A i \in 1..12 : modifiers[i] = 39 + ((i - 1) % 3)
  OBVIOUS
<1>7. added[1] = 73 /\ added[2] = 74 /\ (\A i \in 1..6 : gap[i] = 255) /\ \A i \in 1..16 : parts[i] = 41 + i
  OBVIOUS
<1>8. \A k \in 0..49 : head[k + 1] = IF k \in {30, 38, 46} THEN 255 ELSE PartIdAt(k)
  <2> TAKE k \in 0..49
  <2>1. k \in 0..23 => head[k + 1] = k
    OBVIOUS
  <2>2. k \in 24..31 => head[k + 1] = IF k = 30 THEN 255 ELSE PartIdAt(k)
    BY DEF PartIdAt
  <2>3. k \in 32..39 => head[k + 1] = IF k = 38 THEN 255 ELSE PartIdAt(k)
    BY DEF PartIdAt
  <2>4. k \in 40..49 => head[k + 1] = IF k = 46 THEN 255 ELSE PartIdAt(k)
    BY DEF PartIdAt
  <2>5. k \in 0..23 => PartIdAt(k) = k
    BY DEF PartIdAt
  <2> HIDE DEF head
  <2> QED
    BY <2>1, <2>2, <2>3, <2>4, <2>5
<1> HIDE DEF head, slots, modifiers, added, gap, parts
<1>9. AddressToParameterId(a) = midi_nrpn_map[a + 1]
  BY DEF AddressToParameterId
<1> DEFINE r1 == head \o slots
           r2 == r1 \o modifiers
           r3 == r2 \o added
           r4 == r3 \o gap
           r5 == r4 \o parts
<1>10. IsRun(r1, Int, 92) /\ Joined(r1, head, 50, slots, 42)
  <2>1. IsRun(head, Int, 50) /\ IsRun(slots, Int, 42)
    BY <1>2, <1>3
  <2>2. IsRun(r1, Int, 50 + 42) /\ Joined(r1, head, 50, slots, 42)
    BY <2>1, Concatenation, ZenonT(10)
  <2> HIDE DEF r1
  <2> QED
    BY <2>2
<1> HIDE DEF r1
<1>11. IsRun(r2, Int, 104) /\ Joined(r2, r1, 92, modifiers, 12)
  <2>1. IsRun(r1, Int, 92) /\ IsRun(modifiers, Int, 12)
    BY <1>10, <1>3
  <2>2. IsRun(r2, Int, 92 + 12) /\ Joined(r2, r1, 92, modifiers, 12)
    BY <2>1, Concatenation, ZenonT(10)
  <2> HIDE DEF r2
  <2> QED
    BY <2>2
<1> HIDE DEF r2
<1>12. IsRun(r3, Int, 106) /\ Joined(r3, r2, 104, added, 2)
  <2>1. IsRun(r2, Int, 104) /\ IsRun(added, Int, 2)
    BY <1>11, <1>4
  <2>2. IsRun(r3, Int, 104 + 2) /\ Joined(r3, r2, 104, added, 2)
    BY <2>1, Concatenation, ZenonT(10)
  <2> HIDE DEF r3
  <2> QED
    BY <2>2
<1> HIDE DEF r3
<1>13. IsRun(r4, Int, 112) /\ Joined(r4, r3, 106, gap, 6)
  <2>1. IsRun(r3, Int, 106) /\ IsRun(gap, Int, 6)
    BY <1>12, <1>4
  <2>2. IsRun(r4, Int, 106 + 6) /\ Joined(r4, r3, 106, gap, 6)
    BY <2>1, Concatenation, ZenonT(10)
  <2> HIDE DEF r4
  <2> QED
    BY <2>2
<1> HIDE DEF r4
<1>14. IsRun(r5, Int, 128) /\ Joined(r5, r4, 112, parts, 16)
  <2>1. IsRun(r4, Int, 112) /\ IsRun(parts, Int, 16)
    BY <1>13, <1>4
  <2>2. IsRun(r5, Int, 112 + 16) /\ Joined(r5, r4, 112, parts, 16)
    BY <2>1, Concatenation, ZenonT(10)
  <2> HIDE DEF r5
  <2> QED
    BY <2>2
<1> HIDE DEF r5
<1>21. midi_nrpn_map = r5
  BY <1>1 DEF r1, r2, r3, r4, r5
<1>22. \A i \in 1..112 : midi_nrpn_map[i] = r4[i]
  BY <1>14, <1>21 DEF Joined
<1>23. \A i \in 1..106 : midi_nrpn_map[i] = r3[i]
  BY <1>13, <1>22 DEF Joined
<1>24. \A i \in 1..104 : midi_nrpn_map[i] = r2[i]
  BY <1>12, <1>23 DEF Joined
<1>25. \A i \in 1..92 : midi_nrpn_map[i] = r1[i]
  BY <1>11, <1>24 DEF Joined
<1>26. \A i \in 1..50 : midi_nrpn_map[i] = head[i]
  BY <1>10, <1>25 DEF Joined
<1>15. CASE a \in 0..49
  <2>1. AddressToParameterId(a) = head[a + 1]
    BY <1>9, <1>26, <1>15
  <2> QED
    BY <2>1, <1>8, <1>15 DEF None
<1>16. CASE a \in 50..91
  <2>1. AddressToParameterId(a) = slots[a - 49]
    <3>1. a - 49 \in 1..42 /\ 50 + (a - 49) = a + 1
      BY <1>16
    <3>2. r1[50 + (a - 49)] = slots[a - 49]
      BY <1>10, <3>1 DEF Joined
    <3> QED
      BY <1>9, <1>25, <1>16, <3>1, <3>2
  <2>2. slots[a - 49] = 35 + ((a - 50) % 3)
    BY <1>5, <1>16
  <2>3. PartIdAt(a) = 35 + ((a - 50) % 3)
    BY <1>16 DEF PartIdAt
  <2> QED
    BY <2>1, <2>2, <2>3, <1>16
<1>17. CASE a \in 92..103
  <2>1. AddressToParameterId(a) = modifiers[a - 91]
    <3>1. a - 91 \in 1..12 /\ 92 + (a - 91) = a + 1
      BY <1>17
    <3>2. r2[92 + (a - 91)] = modifiers[a - 91]
      BY <1>11, <3>1 DEF Joined
    <3> QED
      BY <1>9, <1>24, <1>17, <3>1, <3>2
  <2>2. modifiers[a - 91] = 39 + ((a - 92) % 3)
    BY <1>6, <1>17
  <2>3. PartIdAt(a) = 39 + ((a - 92) % 3)
    BY <1>17 DEF PartIdAt
  <2> QED
    BY <2>1, <2>2, <2>3, <1>17
<1>18. CASE a \in 104..105
  <2>0. AddressToParameterId(a) = r3[a + 1]
    BY <1>9, <1>23, <1>18
  <2>4. r3[104 + 1] = 73 /\ r3[104 + 2] = 74
    BY <1>7, <1>12 DEF Joined
  <2>5. (a = 104 /\ a + 1 = 104 + 1) \/ (a = 105 /\ a + 1 = 104 + 2)
    BY <1>18
  <2>1. AddressToParameterId(a) = a - 31
    BY <2>0, <2>4, <2>5
  <2>2. PartIdAt(a) = a - 31
    BY <1>18 DEF PartIdAt
  <2> QED
    BY <2>1, <2>2, <1>18
<1>19. CASE a \in 106..111
  <2>1. a - 105 \in 1..6 /\ 106 + (a - 105) = a + 1
    BY <1>19
  <2>2. r4[106 + (a - 105)] = 255
    BY <1>7, <1>13, <2>1 DEF Joined
  <2> QED
    BY <2>1, <2>2, <1>9, <1>22, <1>19 DEF None
<1>20. CASE a \in 112..127
  <2>1. a - 111 \in 1..16 /\ 112 + (a - 111) = a + 1
    BY <1>20
  <2>2. midi_nrpn_map[112 + (a - 111)] = 41 + (a - 111)
    BY <1>7, <1>14, <1>21, <2>1 DEF Joined
  <2>3. PartIdAt(a) = a - 70
    BY <1>20 DEF PartIdAt
  <2> QED
    BY <2>1, <2>2, <2>3, <1>9, <1>20
<1> QED
  BY <1>15, <1>16, <1>17, <1>18, <1>19, <1>20

\* Address a is the i-th of parameter id.
LiesAt(id, i, a) ==
  /\ Space(parameter[id]) = "Part" /\ i \in 0..(parameter[id].instances - 1)
  /\ parameter[id].offset + parameter[id].stride * i = a

\* The one at address n of a patch or of a part.
Alone(id, n) ==
  /\ Space(parameter[id]) = "Part" /\ parameter[id].offset = n
  /\ parameter[id].stride = 0 /\ parameter[id].instances = 1

\* Those from address n on, in steps of size stride.
InBank(id, n, stride, instances) ==
  /\ Space(parameter[id]) = "Part" /\ parameter[id].offset = n
  /\ parameter[id].stride = stride /\ parameter[id].instances = instances

LEMMA AloneLies ==
  ASSUME NEW id, NEW n \in Nat, Alone(id, n)
  PROVE  LiesAt(id, 0, n)
<1>1. 0 \in 0..(1 - 1) /\ n + 0 * 0 = n
  OBVIOUS
<1> QED
  BY <1>1 DEF Alone, LiesAt

\* The parameters of one byte, by their addresses.
LEMMA OfOneByte ==
  ASSUME NEW a \in (0..23) \cup {48, 49, 104, 105} \cup 112..127
  PROVE  Alone(PartIdAt(a), a) /\ PartIdAt(a) \in Ids
<1>1. /\ Alone(0, 0) /\ Alone(1, 1) /\ Alone(2, 2) /\ Alone(3, 3)
      /\ Alone(4, 4) /\ Alone(5, 5) /\ Alone(6, 6) /\ Alone(7, 7)
  BY OscillatorParameters DEF Single, Space, Alone
<1>2. /\ Alone(8, 8) /\ Alone(9, 9) /\ Alone(10, 10) /\ Alone(11, 11)
      /\ Alone(12, 12) /\ Alone(13, 13) /\ Alone(14, 14) /\ Alone(15, 15)
  BY MixerParameters DEF Single, Space, Alone
<1>3. /\ Alone(16, 16) /\ Alone(17, 17) /\ Alone(18, 18) /\ Alone(19, 19)
      /\ Alone(20, 20) /\ Alone(21, 21) /\ Alone(22, 22) /\ Alone(23, 23)
  BY FilterParameters DEF Single, Space, Alone
<1>4. /\ Alone(32, 49) /\ Alone(33, 48)
  BY EnvelopeParameters DEF Single, Space, Alone
<1>5. /\ Alone(73, 104) /\ Alone(74, 105)
  BY OtherParameters DEF Single, Space, Alone
<1>6. /\ Alone(42, 112) /\ Alone(43, 113) /\ Alone(44, 114) /\ Alone(45, 115)
      /\ Alone(46, 116) /\ Alone(47, 117) /\ Alone(48, 118) /\ Alone(49, 119)
  BY PartParameters DEF Single, Space, Alone
<1>7. /\ Alone(50, 120) /\ Alone(51, 121) /\ Alone(52, 122) /\ Alone(53, 123)
      /\ Alone(54, 124) /\ Alone(55, 125) /\ Alone(56, 126) /\ Alone(57, 127)
  BY PartParameters DEF Single, Space, Alone
<1>8. PartIdAt(a) = (IF a <= 23 THEN a ELSE IF a = 48 THEN 33 ELSE IF a = 49 THEN 32 ELSE IF a <= 105 THEN a - 31 ELSE a - 70)
  BY DEF PartIdAt
<1>9. PartIdAt(a) \in Ids
  BY ONLY a \in (0..23) \cup {48, 49, 104, 105} \cup 112..127, <1>8, IdsAre
<1>10. CASE a \in 0..7
  BY ONLY <1>10, <1>1, <1>8, <1>9
<1>11. CASE a \in 8..15
  BY ONLY <1>11, <1>2, <1>8, <1>9
<1>12. CASE a \in 16..23
  BY ONLY <1>12, <1>3, <1>8, <1>9
<1>13. CASE a \in {48, 49}
  BY ONLY <1>13, <1>4, <1>8, <1>9
<1>14. CASE a \in {104, 105}
  BY ONLY <1>14, <1>5, <1>8, <1>9
<1>15. CASE a \in 112..119
  BY ONLY <1>15, <1>6, <1>8, <1>9
<1>16. CASE a \in 120..127
  BY ONLY <1>16, <1>7, <1>8, <1>9
<1> QED
  BY ONLY a \in (0..23) \cup {48, 49, 104, 105} \cup 112..127, <1>10, <1>11, <1>12, <1>13, <1>14, <1>15, <1>16

\* Those of the banks.
LEMMA OfBanks ==
  /\ InBank(25, 24, 8, 3) /\ InBank(26, 25, 8, 3) /\ InBank(27, 26, 8, 3) /\ InBank(28, 27, 8, 3)
  /\ InBank(31, 28, 8, 3) /\ InBank(30, 29, 8, 3) /\ InBank(29, 31, 8, 3)
  /\ InBank(35, 50, 3, 14) /\ InBank(36, 51, 3, 14) /\ InBank(37, 52, 3, 14)
  /\ InBank(39, 92, 3, 4) /\ InBank(40, 93, 3, 4) /\ InBank(41, 94, 3, 4)
<1>1. /\ InBank(25, 24, 8, 3) /\ InBank(26, 25, 8, 3) /\ InBank(27, 26, 8, 3) /\ InBank(28, 27, 8, 3)
      /\ InBank(31, 28, 8, 3) /\ InBank(30, 29, 8, 3) /\ InBank(29, 31, 8, 3)
  BY EnvelopeParameters DEF Bank, Space, InBank
<1>2. /\ InBank(35, 50, 3, 14) /\ InBank(36, 51, 3, 14) /\ InBank(37, 52, 3, 14)
      /\ InBank(39, 92, 3, 4) /\ InBank(40, 93, 3, 4) /\ InBank(41, 94, 3, 4)
  BY ModulationParameters DEF Bank, Space, InBank
<1> QED
  BY <1>1, <1>2

\* The instance of the parameter that an address is of.
LEMMA AddressIsAt ==
  ASSUME NEW a \in 0..127, AddressToParameterId(a) # None
  PROVE  AddressToParameterId(a) \in Ids /\ IsAt(parameter[AddressToParameterId(a)], "Part", a)
<1>1. AddressToParameterId(a) = PartIdAt(a) /\ a \notin {30, 38, 46} \cup 106..111
  BY MapOfAddresses
<1> DEFINE Goal == AddressToParameterId(a) \in Ids /\ IsAt(parameter[AddressToParameterId(a)], "Part", a)
<1>2. ASSUME NEW id \in Ids, NEW i, LiesAt(id, i, a), PartIdAt(a) = id
      PROVE  Goal
  <2>1. get_address(parameter[id], i) = a
    BY <1>2, AddressOf DEF LiesAt
  <2> QED
    BY <1>1, <1>2, <2>1 DEF IsAt, LiesAt
<1> SUFFICES Goal
  OBVIOUS
<1> HIDE DEF Goal
<1>3. CASE a \in (0..23) \cup {48, 49, 104, 105} \cup 112..127
  <2>1. Alone(PartIdAt(a), a) /\ PartIdAt(a) \in Ids
    BY <1>3, OfOneByte
  <2>2. LiesAt(PartIdAt(a), 0, a)
    BY <2>1, AloneLies
  <2> QED
    BY <1>2, <2>1, <2>2
<1>4. CASE a \in 24..47
  <2>1. ASSUME NEW i \in 0..2, a = 24 + 8 * i PROVE Goal
    <3>1. PartIdAt(a) = 25
      BY <2>1 DEF PartIdAt
    <3>2. InBank(25, 24, 8, 3)
      BY OfBanks
    <3>3. 25 \in Ids
      BY IdsAre
    <3>4. LiesAt(25, i, a)
      BY ONLY <2>1, <3>2 DEF InBank, LiesAt
    <3> QED
      BY ONLY <1>2, <3>1, <3>3, <3>4
  <2>2. ASSUME NEW i \in 0..2, a = 25 + 8 * i PROVE Goal
    <3>1. PartIdAt(a) = 26
      BY <2>2 DEF PartIdAt
    <3>2. InBank(26, 25, 8, 3)
      BY OfBanks
    <3>3. 26 \in Ids
      BY IdsAre
    <3>4. LiesAt(26, i, a)
      BY ONLY <2>2, <3>2 DEF InBank, LiesAt
    <3> QED
      BY ONLY <1>2, <3>1, <3>3, <3>4
  <2>3. ASSUME NEW i \in 0..2, a = 26 + 8 * i PROVE Goal
    <3>1. PartIdAt(a) = 27
      BY <2>3 DEF PartIdAt
    <3>2. InBank(27, 26, 8, 3)
      BY OfBanks
    <3>3. 27 \in Ids
      BY IdsAre
    <3>4. LiesAt(27, i, a)
      BY ONLY <2>3, <3>2 DEF InBank, LiesAt
    <3> QED
      BY ONLY <1>2, <3>1, <3>3, <3>4
  <2>4. ASSUME NEW i \in 0..2, a = 27 + 8 * i PROVE Goal
    <3>1. PartIdAt(a) = 28
      BY <2>4 DEF PartIdAt
    <3>2. InBank(28, 27, 8, 3)
      BY OfBanks
    <3>3. 28 \in Ids
      BY IdsAre
    <3>4. LiesAt(28, i, a)
      BY ONLY <2>4, <3>2 DEF InBank, LiesAt
    <3> QED
      BY ONLY <1>2, <3>1, <3>3, <3>4
  <2>5. ASSUME NEW i \in 0..2, a = 28 + 8 * i PROVE Goal
    <3>1. PartIdAt(a) = 31
      BY <2>5 DEF PartIdAt
    <3>2. InBank(31, 28, 8, 3)
      BY OfBanks
    <3>3. 31 \in Ids
      BY IdsAre
    <3>4. LiesAt(31, i, a)
      BY ONLY <2>5, <3>2 DEF InBank, LiesAt
    <3> QED
      BY ONLY <1>2, <3>1, <3>3, <3>4
  <2>6. ASSUME NEW i \in 0..2, a = 29 + 8 * i PROVE Goal
    <3>1. PartIdAt(a) = 30
      BY <2>6 DEF PartIdAt
    <3>2. InBank(30, 29, 8, 3)
      BY OfBanks
    <3>3. 30 \in Ids
      BY IdsAre
    <3>4. LiesAt(30, i, a)
      BY ONLY <2>6, <3>2 DEF InBank, LiesAt
    <3> QED
      BY ONLY <1>2, <3>1, <3>3, <3>4
  <2>7. ASSUME NEW i \in 0..2, a = 31 + 8 * i PROVE Goal
    <3>1. PartIdAt(a) = 29
      BY <2>7 DEF PartIdAt
    <3>2. InBank(29, 31, 8, 3)
      BY OfBanks
    <3>3. 29 \in Ids
      BY IdsAre
    <3>4. LiesAt(29, i, a)
      BY ONLY <2>7, <3>2 DEF InBank, LiesAt
    <3> QED
      BY ONLY <1>2, <3>1, <3>3, <3>4
  <2>8. (a - 24) \div 8 \in 0..2 /\ (a - 24) % 8 \in 0..7
          /\ a = 24 + 8 * ((a - 24) \div 8) + ((a - 24) % 8)
    BY <1>4
  <2>9. PICK i \in 0..2, k \in 0..7 : a = 24 + 8 * i + k
    BY <2>8
  <2>10. a = 24 + 8 * i \/ a = 25 + 8 * i \/ a = 26 + 8 * i \/ a = 27 + 8 * i \/ a = 28 + 8 * i \/ a = 29 + 8 * i \/ a = 31 + 8 * i
    BY <1>1, <2>9
  <2> QED
    BY ONLY <2>1, <2>2, <2>3, <2>4, <2>5, <2>6, <2>7, <2>10, i \in 0..2
<1>5. CASE a \in 50..91
  <2>1. ASSUME NEW i \in 0..13, a = 50 + 3 * i PROVE Goal
    <3>1. PartIdAt(a) = 35
      BY <2>1 DEF PartIdAt
    <3>2. InBank(35, 50, 3, 14)
      BY OfBanks
    <3>3. 35 \in Ids
      BY IdsAre
    <3>4. LiesAt(35, i, a)
      BY ONLY <2>1, <3>2 DEF InBank, LiesAt
    <3> QED
      BY ONLY <1>2, <3>1, <3>3, <3>4
  <2>2. ASSUME NEW i \in 0..13, a = 51 + 3 * i PROVE Goal
    <3>1. PartIdAt(a) = 36
      BY <2>2 DEF PartIdAt
    <3>2. InBank(36, 51, 3, 14)
      BY OfBanks
    <3>3. 36 \in Ids
      BY IdsAre
    <3>4. LiesAt(36, i, a)
      BY ONLY <2>2, <3>2 DEF InBank, LiesAt
    <3> QED
      BY ONLY <1>2, <3>1, <3>3, <3>4
  <2>3. ASSUME NEW i \in 0..13, a = 52 + 3 * i PROVE Goal
    <3>1. PartIdAt(a) = 37
      BY <2>3 DEF PartIdAt
    <3>2. InBank(37, 52, 3, 14)
      BY OfBanks
    <3>3. 37 \in Ids
      BY IdsAre
    <3>4. LiesAt(37, i, a)
      BY ONLY <2>3, <3>2 DEF InBank, LiesAt
    <3> QED
      BY ONLY <1>2, <3>1, <3>3, <3>4
  <2>4. (a - 50) \div 3 \in 0..13 /\ (a - 50) % 3 \in 0..2
          /\ a = 50 + 3 * ((a - 50) \div 3) + ((a - 50) % 3)
    BY <1>5
  <2>5. PICK i \in 0..13, k \in 0..2 : a = 50 + 3 * i + k
    BY <2>4
  <2>6. a = 50 + 3 * i \/ a = 51 + 3 * i \/ a = 52 + 3 * i
    BY <1>1, <2>5
  <2> QED
    BY ONLY <2>1, <2>2, <2>3, <2>6, i \in 0..13
<1>6. CASE a \in 92..103
  <2>1. ASSUME NEW i \in 0..3, a = 92 + 3 * i PROVE Goal
    <3>1. PartIdAt(a) = 39
      BY <2>1 DEF PartIdAt
    <3>2. InBank(39, 92, 3, 4)
      BY OfBanks
    <3>3. 39 \in Ids
      BY IdsAre
    <3>4. LiesAt(39, i, a)
      BY ONLY <2>1, <3>2 DEF InBank, LiesAt
    <3> QED
      BY ONLY <1>2, <3>1, <3>3, <3>4
  <2>2. ASSUME NEW i \in 0..3, a = 93 + 3 * i PROVE Goal
    <3>1. PartIdAt(a) = 40
      BY <2>2 DEF PartIdAt
    <3>2. InBank(40, 93, 3, 4)
      BY OfBanks
    <3>3. 40 \in Ids
      BY IdsAre
    <3>4. LiesAt(40, i, a)
      BY ONLY <2>2, <3>2 DEF InBank, LiesAt
    <3> QED
      BY ONLY <1>2, <3>1, <3>3, <3>4
  <2>3. ASSUME NEW i \in 0..3, a = 94 + 3 * i PROVE Goal
    <3>1. PartIdAt(a) = 41
      BY <2>3 DEF PartIdAt
    <3>2. InBank(41, 94, 3, 4)
      BY OfBanks
    <3>3. 41 \in Ids
      BY IdsAre
    <3>4. LiesAt(41, i, a)
      BY ONLY <2>3, <3>2 DEF InBank, LiesAt
    <3> QED
      BY ONLY <1>2, <3>1, <3>3, <3>4
  <2>4. (a - 92) \div 3 \in 0..3 /\ (a - 92) % 3 \in 0..2
          /\ a = 92 + 3 * ((a - 92) \div 3) + ((a - 92) % 3)
    BY <1>6
  <2>5. PICK i \in 0..3, k \in 0..2 : a = 92 + 3 * i + k
    BY <2>4
  <2>6. a = 92 + 3 * i \/ a = 93 + 3 * i \/ a = 94 + 3 * i
    BY <1>1, <2>5
  <2> QED
    BY ONLY <2>1, <2>2, <2>3, <2>6, i \in 0..3
<1> QED
  BY <1>1, <1>3, <1>4, <1>5, <1>6

-----------------------------------------------------------------------------
(* The pages.                                                              *)

PageNames == DOMAIN pages

\* The settings are edited on their own pages only, which lead to each other.
Editable == 0..65 \cup {73, 74} \cup 79..247 \cup {255}

\* The pages that the encoder scrolls through.
ScrolledNames == {"Oscillators", "Mixer", "Filter", "EnvLfo", "VoiceLfo", "Modulations", "Part",
                  "PartArpeggiator", "PartSequencer", "Multi", "MultiClock"}

PageOK(pg) ==
  LET p == pages[pg]
  IN  /\ \A k \in 1..8 : p.data[k] \in 0..255
      /\ pg \notin SettingsPages => \A k \in 1..8 : p.data[k] \in Editable
      /\ p.handlers \in {"ParameterEditor", "PerformancePage", "VoiceAssigner"} => p.data[2] # 255
      /\ p.handlers = "VoiceAssigner" => pg = "Multi"
      /\ p.next \in PageNames \cup {"INCREMENT_ENV", "INCREMENT_MODULATION_SLOT"}
      /\ pg \in SettingsPages => p.next \in SettingsPages /\ p.handlers = "ParameterEditor"
      /\ p.group \in 0..8
      /\ p.handlers \in {"ParameterEditor", "SequenceEditor", "VoiceAssigner"}
           <=> pg \in ScrolledNames \cup SettingsPages

LEMMA PagesAre == PageNames = {"Oscillators", "Mixer", "Filter", "EnvLfo", "VoiceLfo", "Modulations",
                            "Part", "PartArpeggiator", "PartSequencer", "Multi", "MultiClock", "Performance",
                            "KnobAssign", "Library", "VersionManager", "SystemSettings", "SystemSettingsB", "OsInfo"}
BY DEF PageNames, pages

LEMMA PagesAreOK ==
  ASSUME NEW pg \in PageNames
  PROVE  PageOK(pg)
<1> USE DEF Editable, Nothing, None, More, Back
<1>1. CASE pg = "Oscillators"
  <2>1. pages["Oscillators"] = Page("ParameterEditor", <<0, 1, 2, 3, 4, 5, 6, 7>>, "Mixer", 0)
    BY DEF pages
  <2>2. /\ pages[pg].handlers = "ParameterEditor" /\ pages[pg].next = "Mixer" /\ pages[pg].group = 0
        /\ pages[pg].data = <<0, 1, 2, 3, 4, 5, 6, 7>>
    BY <1>1, <2>1 DEF Page
  <2>3. (\A k \in 1..8 : pages[pg].data[k] \in (0..255) \cap Editable) /\ pages[pg].data[2] # 255
    BY <2>2
  <2> QED
    BY <1>1, <2>2, <2>3, PagesAre DEF PageOK, SettingsPages, ScrolledNames
<1>2. CASE pg = "Mixer"
  <2>1. pages["Mixer"] = Page("ParameterEditor", <<8, 13, 12, 11, 9, 10, 14, 15>>, "Oscillators", 0)
    BY DEF pages
  <2>2. /\ pages[pg].handlers = "ParameterEditor" /\ pages[pg].next = "Oscillators" /\ pages[pg].group = 0
        /\ pages[pg].data = <<8, 13, 12, 11, 9, 10, 14, 15>>
    BY <1>2, <2>1 DEF Page
  <2>3. (\A k \in 1..8 : pages[pg].data[k] \in (0..255) \cap Editable) /\ pages[pg].data[2] # 255
    BY <2>2
  <2> QED
    BY <1>2, <2>2, <2>3, PagesAre DEF PageOK, SettingsPages, ScrolledNames
<1>3. CASE pg = "Filter"
  <2>1. pages["Filter"] = Page("ParameterEditor", <<16, 17, None, 18, 22, 23, 73, 74>>, "Filter", 1)
    BY DEF pages
  <2>2. /\ pages[pg].handlers = "ParameterEditor" /\ pages[pg].next = "Filter" /\ pages[pg].group = 1
        /\ pages[pg].data = <<16, 17, None, 18, 22, 23, 73, 74>>
    BY <1>3, <2>1 DEF Page
  <2>3. (\A k \in 1..8 : pages[pg].data[k] \in (0..255) \cap Editable) /\ pages[pg].data[2] # 255
    BY <2>2
  <2> QED
    BY <1>3, <2>2, <2>3, PagesAre DEF PageOK, SettingsPages, ScrolledNames
<1>4. CASE pg = "EnvLfo"
  <2>1. pages["EnvLfo"] = Page("ParameterEditor", <<24, 30, 31, 29, 25, 26, 27, 28>>, "INCREMENT_ENV", 2)
    BY DEF pages
  <2>2. /\ pages[pg].handlers = "ParameterEditor" /\ pages[pg].next = "INCREMENT_ENV" /\ pages[pg].group = 2
        /\ pages[pg].data = <<24, 30, 31, 29, 25, 26, 27, 28>>
    BY <1>4, <2>1 DEF Page
  <2>3. (\A k \in 1..8 : pages[pg].data[k] \in (0..255) \cap Editable) /\ pages[pg].data[2] # 255
    BY <2>2
  <2> QED
    BY <1>4, <2>2, <2>3, PagesAre DEF PageOK, SettingsPages, ScrolledNames
<1>5. CASE pg = "VoiceLfo"
  <2>1. pages["VoiceLfo"] = Page("ParameterEditor", <<None, 32, 33, None, None, None, None, None>>, "EnvLfo", 2)
    BY DEF pages
  <2>2. /\ pages[pg].handlers = "ParameterEditor" /\ pages[pg].next = "EnvLfo" /\ pages[pg].group = 2
        /\ pages[pg].data = <<None, 32, 33, None, None, None, None, None>>
    BY <1>5, <2>1 DEF Page
  <2>3. (\A k \in 1..8 : pages[pg].data[k] \in (0..255) \cap Editable) /\ pages[pg].data[2] # 255
    BY <2>2
  <2> QED
    BY <1>5, <2>2, <2>3, PagesAre DEF PageOK, SettingsPages, ScrolledNames
<1>6. CASE pg = "Modulations"
  <2>1. pages["Modulations"] = Page("ParameterEditor", <<34, 35, 36, 37, 38, 39, 40, 41>>, "INCREMENT_MODULATION_SLOT", 3)
    BY DEF pages
  <2>2. /\ pages[pg].handlers = "ParameterEditor" /\ pages[pg].next = "INCREMENT_MODULATION_SLOT" /\ pages[pg].group = 3
        /\ pages[pg].data = <<34, 35, 36, 37, 38, 39, 40, 41>>
    BY <1>6, <2>1 DEF Page
  <2>3. (\A k \in 1..8 : pages[pg].data[k] \in (0..255) \cap Editable) /\ pages[pg].data[2] # 255
    BY <2>2
  <2> QED
    BY <1>6, <2>2, <2>3, PagesAre DEF PageOK, SettingsPages, ScrolledNames
<1>7. CASE pg = "Part"
  <2>1. pages["Part"] = Page("ParameterEditor", <<42, 57, 47, 48, 43, 44, 45, 46>>, "PartArpeggiator", 4)
    BY DEF pages
  <2>2. /\ pages[pg].handlers = "ParameterEditor" /\ pages[pg].next = "PartArpeggiator" /\ pages[pg].group = 4
        /\ pages[pg].data = <<42, 57, 47, 48, 43, 44, 45, 46>>
    BY <1>7, <2>1 DEF Page
  <2>3. (\A k \in 1..8 : pages[pg].data[k] \in (0..255) \cap Editable) /\ pages[pg].data[2] # 255
    BY <2>2
  <2> QED
    BY <1>7, <2>2, <2>3, PagesAre DEF PageOK, SettingsPages, ScrolledNames
<1>8. CASE pg = "PartArpeggiator"
  <2>1. pages["PartArpeggiator"] = Page("ParameterEditor", <<49, 50, 51, 52, 53, 54, 55, 56>>, "PartSequencer", 4)
    BY DEF pages
  <2>2. /\ pages[pg].handlers = "ParameterEditor" /\ pages[pg].next = "PartSequencer" /\ pages[pg].group = 4
        /\ pages[pg].data = <<49, 50, 51, 52, 53, 54, 55, 56>>
    BY <1>8, <2>1 DEF Page
  <2>3. (\A k \in 1..8 : pages[pg].data[k] \in (0..255) \cap Editable) /\ pages[pg].data[2] # 255
    BY <2>2
  <2> QED
    BY <1>8, <2>2, <2>3, PagesAre DEF PageOK, SettingsPages, ScrolledNames
<1>9. CASE pg = "PartSequencer"
  <2>1. pages["PartSequencer"] = Page("SequenceEditor", Nothing, "Part", 4)
    BY DEF pages
  <2>2. /\ pages[pg].handlers = "SequenceEditor" /\ pages[pg].next = "Part" /\ pages[pg].group = 4
        /\ pages[pg].data = Nothing
    BY <1>9, <2>1 DEF Page
  <2>3. (\A k \in 1..8 : pages[pg].data[k] \in (0..255) \cap Editable) /\ pages[pg].data[2] # 255
    BY <2>2
  <2> QED
    BY <1>9, <2>2, <2>3, PagesAre DEF PageOK, SettingsPages, ScrolledNames
<1>10. CASE pg = "Multi"
  <2>1. pages["Multi"] = Page("VoiceAssigner", <<58, 59, 60, 61, None, None, None, None>>, "MultiClock", 5)
    BY DEF pages
  <2>2. /\ pages[pg].handlers = "VoiceAssigner" /\ pages[pg].next = "MultiClock" /\ pages[pg].group = 5
        /\ pages[pg].data = <<58, 59, 60, 61, None, None, None, None>>
    BY <1>10, <2>1 DEF Page
  <2>3. (\A k \in 1..8 : pages[pg].data[k] \in (0..255) \cap Editable) /\ pages[pg].data[2] # 255
    BY <2>2
  <2> QED
    BY <1>10, <2>2, <2>3, PagesAre DEF PageOK, SettingsPages, ScrolledNames
<1>11. CASE pg = "MultiClock"
  <2>1. pages["MultiClock"] = Page("ParameterEditor", <<62, 63, 64, 65, None, None, None, None>>, "Multi", 5)
    BY DEF pages
  <2>2. /\ pages[pg].handlers = "ParameterEditor" /\ pages[pg].next = "Multi" /\ pages[pg].group = 5
        /\ pages[pg].data = <<62, 63, 64, 65, None, None, None, None>>
    BY <1>11, <2>1 DEF Page
  <2>3. (\A k \in 1..8 : pages[pg].data[k] \in (0..255) \cap Editable) /\ pages[pg].data[2] # 255
    BY <2>2
  <2> QED
    BY <1>11, <2>2, <2>3, PagesAre DEF PageOK, SettingsPages, ScrolledNames
<1>12. CASE pg = "Performance"
  <2>1. pages["Performance"] = Page("PerformancePage", [k \in 1..8 |-> 239 + k], "KnobAssign", 6)
    BY DEF pages
  <2>2. /\ pages[pg].handlers = "PerformancePage" /\ pages[pg].next = "KnobAssign" /\ pages[pg].group = 6
        /\ pages[pg].data = [k \in 1..8 |-> 239 + k]
    BY <1>12, <2>1 DEF Page
  <2>3. (\A k \in 1..8 : pages[pg].data[k] \in (0..255) \cap Editable) /\ pages[pg].data[2] # 255
    BY <2>2
  <2> QED
    BY <1>12, <2>2, <2>3, PagesAre DEF PageOK, SettingsPages, ScrolledNames
<1>13. CASE pg = "KnobAssign"
  <2>1. pages["KnobAssign"] = Page("KnobAssigner", Nothing, "Performance", 6)
    BY DEF pages
  <2>2. /\ pages[pg].handlers = "KnobAssigner" /\ pages[pg].next = "Performance" /\ pages[pg].group = 6
        /\ pages[pg].data = Nothing
    BY <1>13, <2>1 DEF Page
  <2>3. (\A k \in 1..8 : pages[pg].data[k] \in (0..255) \cap Editable) /\ pages[pg].data[2] # 255
    BY <2>2
  <2> QED
    BY <1>13, <2>2, <2>3, PagesAre DEF PageOK, SettingsPages, ScrolledNames
<1>14. CASE pg = "Library"
  <2>1. pages["Library"] = Page("Library", Nothing, "Library", 7)
    BY DEF pages
  <2>2. /\ pages[pg].handlers = "Library" /\ pages[pg].next = "Library" /\ pages[pg].group = 7
        /\ pages[pg].data = Nothing
    BY <1>14, <2>1 DEF Page
  <2>3. (\A k \in 1..8 : pages[pg].data[k] \in (0..255) \cap Editable) /\ pages[pg].data[2] # 255
    BY <2>2
  <2> QED
    BY <1>14, <2>2, <2>3, PagesAre DEF PageOK, SettingsPages, ScrolledNames
<1>15. CASE pg = "VersionManager"
  <2>1. pages["VersionManager"] = Page("VersionManager", Nothing, "Library", 8)
    BY DEF pages
  <2>2. /\ pages[pg].handlers = "VersionManager" /\ pages[pg].next = "Library" /\ pages[pg].group = 8
        /\ pages[pg].data = Nothing
    BY <1>15, <2>1 DEF Page
  <2>3. (\A k \in 1..8 : pages[pg].data[k] \in (0..255) \cap Editable) /\ pages[pg].data[2] # 255
    BY <2>2
  <2> QED
    BY <1>15, <2>2, <2>3, PagesAre DEF PageOK, SettingsPages, ScrolledNames
<1>16. CASE pg = "SystemSettings"
  <2>1. pages["SystemSettings"] = Page("ParameterEditor", <<66, 67, 71, 72, 68, 69, 70, More>>, "SystemSettingsB", 8)
    BY DEF pages
  <2>2. /\ pages[pg].handlers = "ParameterEditor" /\ pages[pg].next = "SystemSettingsB" /\ pages[pg].group = 8
        /\ pages[pg].data = <<66, 67, 71, 72, 68, 69, 70, More>>
    BY <1>16, <2>1 DEF Page
  <2>3. (\A k \in 1..8 : pages[pg].data[k] \in (0..255)) /\ pages[pg].data[2] # 255
    BY <2>2
  <2> QED
    BY <1>16, <2>2, <2>3, PagesAre DEF PageOK, SettingsPages, ScrolledNames
<1>17. CASE pg = "SystemSettingsB"
  <2>1. pages["SystemSettingsB"] = Page("ParameterEditor", <<75, 76, 77, None, None, None, None, Back>>, "SystemSettings", 8)
    BY DEF pages
  <2>2. /\ pages[pg].handlers = "ParameterEditor" /\ pages[pg].next = "SystemSettings" /\ pages[pg].group = 8
        /\ pages[pg].data = <<75, 76, 77, None, None, None, None, Back>>
    BY <1>17, <2>1 DEF Page
  <2>3. (\A k \in 1..8 : pages[pg].data[k] \in (0..255)) /\ pages[pg].data[2] # 255
    BY <2>2
  <2> QED
    BY <1>17, <2>2, <2>3, PagesAre DEF PageOK, SettingsPages, ScrolledNames
<1>18. CASE pg = "OsInfo"
  <2>1. pages["OsInfo"] = Page("OsInfoPage", Nothing, "OsInfo", 8)
    BY DEF pages
  <2>2. /\ pages[pg].handlers = "OsInfoPage" /\ pages[pg].next = "OsInfo" /\ pages[pg].group = 8
        /\ pages[pg].data = Nothing
    BY <1>18, <2>1 DEF Page
  <2>3. (\A k \in 1..8 : pages[pg].data[k] \in (0..255) \cap Editable) /\ pages[pg].data[2] # 255
    BY <2>2
  <2> QED
    BY <1>18, <2>2, <2>3, PagesAre DEF PageOK, SettingsPages, ScrolledNames
<1> QED
  BY ONLY PagesAre, pg \in PageNames, <1>1, <1>2, <1>3, <1>4, <1>5, <1>6, <1>7, <1>8, <1>9, <1>10, <1>11, <1>12, <1>13, <1>14, <1>15, <1>16, <1>17, <1>18
-----------------------------------------------------------------------------
(* What a control change is for.                                           *)

\* No parameter, or one of a part with an instance of it; or, for a Launchkey, behind the last.
LEMMA ControlChangeReaches ==
  ASSUME NEW cc \in 0..119, NEW map, NEW id \in ControlChangeToParameterId(cc, map), id # None, id # Dummy
  PROVE  LET p == parameter[id]
         IN  /\ id \in Ids /\ Space(p) = "Part"
             /\ \/ InstanceOf(p, cc) \in 0..(p.instances - 1)
                \/ /\ map = Launchkey /\ InstanceOf(p, cc) = p.instances
                   /\ p.stride > 0 \/ (p.stride = 0 /\ p.instances = 1)
<1> DEFINE p == parameter[id]
<1>1. CASE map # Launchkey
  <2>1. cc \in 0..111 /\ id = midi_cc_map[cc + 1]
    BY <1>1 DEF ControlChangeToParameterId
  <2> QED
    BY <2>1, InstanceOfReached
<1>2. CASE map = Launchkey
  <2>1. id \in LaunchkeyIds
    <3>1. CASE cc < 64
      <4>1. id = launchkey_cc_map[cc + 1]
        BY <1>2, <3>1 DEF ControlChangeToParameterId
      <4> QED
        BY <3>1, <4>1, LaunchkeyReaches
    <3>2. CASE cc = 65
      <4>1. id \in {midi_cc_map[2], midi_nrpn_map[2]}
        BY <1>2, <3>2 DEF ControlChangeToParameterId
      <4>2. midi_cc_map[2] = 255
        BY DEF midi_cc_map
      <4>3. midi_nrpn_map[2] = 1
        <5>1. AddressToParameterId(1) = midi_nrpn_map[2]
          BY DEF AddressToParameterId
        <5>2. AddressToParameterId(1) = PartIdAt(1)
          BY MapOfAddresses
        <5> QED
          BY <5>1, <5>2 DEF PartIdAt
      <4> QED
        BY <4>1, <4>2, <4>3 DEF LaunchkeyIds, None
    <3>3. CASE cc >= 64 /\ cc # 65
      <4>1. id = None \/ id = Dummy
        BY <1>2, <3>3 DEF ControlChangeToParameterId
      <4> QED
        BY <4>1
    <3> QED
      BY <3>1, <3>2, <3>3
  <2>2. /\ id \in Ids /\ Space(p) = "Part" /\ p.instances \in 1..3
        /\ p.stride > 0 \/ (p.stride = 0 /\ p.instances = 1)
    BY <2>1, LaunchkeyIdsAre
  <2>3. InstanceOf(p, cc) \in 0..p.instances
    BY <2>2, InstanceOfIs
  <2> QED
    BY <1>2, <2>2, <2>3
<1> QED
  BY <1>1, <1>2

-----------------------------------------------------------------------------
(* What the bytes hold.                                                    *)

\* The least and the greatest of a few numbers.
LEMMA LeastOf ==
  ASSUME NEW S \in SUBSET Nat, S # {}
  PROVE  Min(S) \in S /\ \A j \in S : Min(S) <= j
<1>1. \E least \in S : \A j \in S : least <= j
  BY LeastNumber
<1> QED
  BY <1>1 DEF Min

\* Every byte that was written belongs to a parameter that may hold it, but for those of
\* parts that a Launchkey wrote.
EditsOK ==
  /\ \A c \in strayed : c[1] = "Part"
  /\ \A c \in DOMAIN edited :
       /\ edited[c] \in 0..255
       /\ c \in strayed \/ (owner[c[1]][c[3]] \in Ids /\ Holds(parameter[owner[c[1]][c[3]]], edited[c]))

LEMMA EditsAreInLimits ==
  ASSUME EditsOK
  PROVE  EditsStayInLimits
<1> SUFFICES ASSUME NEW c \in DOMAIN edited \ strayed
             PROVE  LET id == owner[c[1]][c[3]]
                    IN  /\ id # None
                        /\ IsLegal(parameter[id], edited[c])
                             \/ (parameter[id].unit = "Tempo" /\ edited[c] = 38)
  BY DEF EditsStayInLimits
<1> DEFINE id == owner[c[1]][c[3]]
<1>1. id \in Ids /\ Holds(parameter[id], edited[c])
  BY DEF EditsOK
<1>2. 255 \notin Ids
  BY IdsAre
<1> HIDE DEF id
<1> QED
  BY <1>1, <1>2 DEF Holds, None, id

\* Of a parameter, with an instance it has; or of none.
AimOK(a) ==
  a.parameter # None => a.parameter \in Ids /\ a.instance \in 0..(parameter[a.parameter].instances - 1)

\* The byte of an aim.
LEMMA CellIs ==
  ASSUME NEW a, a.parameter \in Ids, a.instance \in 0..(parameter[a.parameter].instances - 1)
  PROVE  LET p == parameter[a.parameter]
             n == p.offset + p.stride * a.instance
         IN  /\ CellOf(a) = <<Space(p), IF Space(p) = "Part" THEN a.part ELSE 0, n>>
             /\ n \in 0..255 /\ owner[CellOf(a)[1]][CellOf(a)[3]] = a.parameter
<1> DEFINE p == parameter[a.parameter]
<1>1. CellOf(a) = <<Space(p), IF Space(p) = "Part" THEN a.part ELSE 0, get_address(p, a.instance)>>
  BY DEF CellOf
<1>2. get_address(p, a.instance) = p.offset + p.stride * a.instance /\ get_address(p, a.instance) \in 0..255
  BY AddressOf
<1>3. owner[Space(p)][get_address(p, a.instance)] = a.parameter
  BY OwnerOfInstance
<1> QED
  BY <1>1, <1>2, <1>3

\* The settings are the eleven bytes of their parameters.
LEMMA SettingIs ==
  ASSUME NEW id \in Ids, parameter[id].level = "System"
  PROVE  /\ parameter[id].offset \in 0..10 /\ parameter[id].stride * 0 = 0
         /\ parameter[id].instances = 1
         /\ id \notin 0..65 \cup {73, 74}
<1>1. InSpace(parameter[id]) /\ Told(id)
  BY RowsAreWellPlaced, AddressTells DEF WellPlaced
<1> DEFINE n == parameter[id].offset
<1>2. 0 \in 0..(parameter[id].instances - 1) /\ n \in Nat /\ parameter[id].stride \in Nat
  BY <1>1 DEF InSpace
<1>3. IdAt("System", n) = id
  <2>1. n + parameter[id].stride * 0 = n
    BY <1>2
  <2>2. Space(parameter[id]) = "System"
    BY DEF Space
  <2> QED
    BY <1>1, <1>2, <2>1, <2>2 DEF Told
<1>4. id = IF n <= 6 THEN n + 66 ELSE n + 68
  BY <1>3 DEF IdAt
<1>5. id \in 0..78
  BY IdsAre
<1> HIDE DEF n
<1>6. n \in 0..10 /\ id \notin 0..65 \cup {73, 74}
  BY <1>2, <1>4, <1>5
<1>7. id \in {66, 67, 68, 69, 70, 71, 72, 75, 76, 77, 78}
  BY <1>5, <1>6
<1>8. parameter[id].instances = 1
  BY <1>7, OtherParameters DEF Single
<1> QED
  BY <1>2, <1>6, <1>8 DEF n

LEMMA PlayerIs ==
  ASSUME player \in Players
  PROVE  /\ player \in Player /\ player.snap \in {0, 1}
         /\ \A k \in 1..11 : init_settings[k] \in {0, 1}
<1>1. player \in Player /\ player.snap \in {0, 1}
  BY PagesAssumption DEF Player
<1> QED
  BY <1>1 DEF init_settings

\* What a byte is loaded with, by the space it is in.
LEMMA LoadedIs ==
  ASSUME NEW cell
  PROVE  /\ cell[1] = "UI" => LoadedByte(cell) = 0
         /\ cell[1] = "System" => LoadedByte(cell) = init_settings[cell[3] + 1]
         /\ cell[1] # "UI" /\ cell[1] # "System" /\ owner[cell[1]][cell[3]] # None
              => LoadedByte(cell) = Limit(parameter[owner[cell[1]][cell[3]]])
<1> DEFINE first == cell[1]
           id == owner[cell[1]][cell[3]]
           setting == init_settings[cell[3] + 1]
           other == IF id = None THEN 0 ELSE Limit(parameter[id])
<1>1. LoadedByte(cell) = CASE first = "UI"     -> 0
                           [] first = "System" -> setting
                           [] OTHER            -> other
  BY DEF LoadedByte
<1> HIDE DEF first, setting, other
<1>2. first = "UI" => LoadedByte(cell) = 0
  BY <1>1
<1>3. first = "System" => LoadedByte(cell) = setting
  BY <1>1
<1>4. first # "UI" /\ first # "System" => LoadedByte(cell) = other
  BY <1>1
<1> QED
  BY <1>2, <1>3, <1>4 DEF first, setting, other

\* Loaded or edited, the byte of a parameter is one it may hold, or has strayed.
LEMMA ByteHolds ==
  ASSUME EditsOK, player \in Players,
         NEW a, a.parameter \in Ids, a.instance \in 0..(parameter[a.parameter].instances - 1)
  PROVE  /\ At(CellOf(a)) \in 0..255
         /\ CellOf(a) \in strayed \/ Holds(parameter[a.parameter], At(CellOf(a)))
         /\ Space(parameter[a.parameter]) # "Part" => Holds(parameter[a.parameter], At(CellOf(a)))
<1> DEFINE id == a.parameter
           p == parameter[id]
           c == CellOf(a)
<1>1. /\ c[1] = Space(p) /\ c[3] = p.offset + p.stride * a.instance
      /\ owner[c[1]][c[3]] = id
  BY CellIs
<1>2. LimitsInOrder(p) /\ StartsInLimits(p) /\ InSpace(p)
  BY RowsAreWellPlaced DEF WellPlaced
<1>3. CASE c \in DOMAIN edited
  <2>1. At(c) = edited[c]
    BY <1>3 DEF At
  <2>2. edited[c] \in 0..255 /\ (c \in strayed \/ Holds(p, edited[c])) /\ (c \in strayed => c[1] = "Part")
    BY <1>1, <1>3 DEF EditsOK
  <2> HIDE DEF c, p
  <2> QED
    BY <1>1, <2>1, <2>2 DEF c, p
<1>4. CASE c \notin DOMAIN edited
  <2> SUFFICES Holds(p, At(c))
    <3>1. Holds(p, At(c)) => At(c) \in 0..255
      BY DEF Holds
    <3> QED
      BY <3>1
  <2>1. At(c) = LoadedByte(c)
    BY <1>4 DEF At
  <2>2. Holds(p, p.min) /\ Holds(p, p.max)
    <3>1. /\ p.min \in 0..255 /\ p.max \in 0..255
          /\ Number(p, p.min) <= Number(p, p.max)
      BY <1>2 DEF LimitsInOrder
    <3>2. Number(p, p.min) \in Int /\ Number(p, p.max) \in Int
      BY <3>1, SignedIs
    <3> HIDE DEF p
    <3> QED
      BY <3>1, <3>2 DEF Holds, IsLegal
  <2>3. CASE p.level = "UI"
    <3>1. LoadedByte(c) = 0
      BY <1>1, <2>3 DEF LoadedByte, Space
    <3> QED
      BY <2>1, <2>2, <2>3, <3>1, <1>2 DEF StartsInLimits
  <2>4. CASE p.level = "System"
    <3>1. c[1] = "System"
      BY <1>1, <2>4 DEF Space
    <3>2. p.indexedBy = None => a.instance = 0
      BY <1>2 DEF InSpace
    <3>3. c[3] = p.offset /\ p.offset \in 0..10
      <4>1. a.instance = 0
        BY <2>4, SettingIs
      <4>2. p.offset \in 0..10 /\ p.stride * 0 = 0
        BY <2>4, SettingIs
      <4> HIDE DEF p, c
      <4> QED
        BY <1>1, <4>1, <4>2
    <3>4. LoadedByte(c) = init_settings[c[3] + 1]
      BY <3>1, LoadedIs
    <3>5. LoadedByte(c) \in {0, 1}
      BY <3>3, <3>4, PlayerIs
    <3>6. p.min = 0 /\ p.max >= 1 /\ p.unit # "Signed"
      BY <1>2, <2>4 DEF StartsInLimits
    <3>7. p.max \in 0..255
      BY <1>2 DEF LimitsInOrder
    <3>8. Number(p, LoadedByte(c)) = LoadedByte(c) /\ Number(p, p.min) = 0 /\ Number(p, p.max) = p.max
      BY <3>5, <3>6, <3>7, SignedIs
    <3> QED
      BY <2>1, <3>5, <3>6, <3>7, <3>8 DEF Holds, IsLegal
  <2>5. CASE p.level # "UI" /\ p.level # "System"
    <3>1. c[1] # "UI" /\ c[1] # "System"
      BY <1>1, <2>5 DEF Space
    <3>2. id # None
      BY IdsAre DEF None
    <3>3. LoadedByte(c) = Limit(p)
      BY <1>1, <3>1, <3>2 DEF LoadedByte
    <3> QED
      BY <2>1, <2>2, <3>3 DEF Limit
  <2> QED
    BY <2>3, <2>4, <2>5
<1> QED
  BY <1>3, <1>4

\* A byte of the panel chooses an instance that there is.
LEMMA SelectedIs ==
  ASSUME EditsOK, player \in Players, NEW id \in Ids
  PROVE  Selected(parameter[id]) \in 0..(parameter[id].instances - 1)
<1> DEFINE p == parameter[id]
<1>1. InSpace(p)
  BY RowsAreWellPlaced DEF WellPlaced
<1>2. CASE p.indexedBy = None
  BY <1>1, <1>2 DEF Selected, InSpace
<1>3. CASE p.indexedBy # None
  <2> DEFINE b == p.indexedBy
             chooser == IF b = 0 THEN 24 ELSE IF b = 1 THEN 34 ELSE IF b = 2 THEN 38 ELSE 58
             a == [part |-> 0, parameter |-> chooser, instance |-> 0]
  <2>1. b \in 0..3 /\ p.instances = LastInstance[b] + 1
    BY <1>1, <1>3 DEF InSpace
  <2>2. /\ parameter[24] = Single("UI", 0, "Number", 0, 2, None)
        /\ parameter[34] = Single("UI", 1, "Number", 0, 13, None)
        /\ parameter[38] = Single("UI", 2, "Number", 0, 3, None)
        /\ parameter[58] = Single("UI", 3, "Number", 0, 5, None)
    BY EnvelopeParameters, ModulationParameters, MultiParameters
       DEF ActiveEnvLfo, ActiveModulation, ActiveModifier, ActivePart
  <2>3. parameter[chooser] = Single("UI", b, "Number", 0, LastInstance[b], None)
    BY <2>1, <2>2 DEF LastInstance
  <2>4. chooser \in Ids
    BY IdsAre
  <2>5. a.parameter = chooser /\ a.instance = 0 /\ a.part = 0
    OBVIOUS
  <2> HIDE DEF chooser, a, b
  <2>6. 0 \in 0..(parameter[chooser].instances - 1) /\ Space(parameter[chooser]) = "UI"
        /\ parameter[chooser].offset + parameter[chooser].stride * 0 = b
    BY <2>1, <2>3 DEF Single, Space
  <2>7. CellOf(a) = Panel(b)
    BY <2>4, <2>5, <2>6, CellIs DEF Panel
  <2>8. Holds(parameter[chooser], At(Panel(b)))
    BY <2>4, <2>5, <2>6, <2>7, ByteHolds
  <2>9. At(Panel(b)) \in 0..LastInstance[b]
    <3>1. /\ parameter[chooser].unit = "Number" /\ parameter[chooser].min = 0
          /\ parameter[chooser].max = LastInstance[b]
      BY <2>3 DEF Single
    <3>2. LastInstance[b] \in 0..255
      BY <2>1 DEF LastInstance
    <3> QED
      BY <2>8, <3>1, <3>2, SignedIs DEF Holds, IsLegal
  <2>10. Selected(p) = At(Panel(b))
    BY <1>3 DEF Selected, b
  <2>11. LastInstance[b] \in Nat
    BY <2>1 DEF LastInstance
  <2> QED
    BY <2>1, <2>9, <2>10, <2>11
<1> QED
  BY <1>2, <1>3
-----------------------------------------------------------------------------
(* What a control, a knob or an instance of the panel is for.              *)

\* The knobs are for parameters of a patch or of a part.
AssignedOK ==
  /\ assigned \in [0..7 -> [part : 0..5, parameter : Ids, instance : 0..13]]
  /\ \A k \in 0..7 : AimOK(assigned[k]) /\ parameter[assigned[k].parameter].level \in {"Patch", "Part"}

LEMMA AssignableIs ==
  ASSUME NEW to \in Assignable
  PROVE  /\ to.parameter \in Ids /\ to.instance \in 0..13 /\ AimOK(to)
         /\ parameter[to.parameter].level \in {"Patch", "Part"}
<1>1. /\ to.parameter \in Ids /\ to.instance \in 0..13
      /\ parameter[to.parameter].level \in {"Patch", "Part"}
      /\ to.instance < parameter[to.parameter].instances
  BY DEF Assignable, Ids
<1>2. parameter[to.parameter].instances \in 1..14
  BY <1>1, RowsAreWellPlaced DEF WellPlaced, InSpace
<1> DEFINE id == to.parameter
           n  == parameter[id].instances
           i  == to.instance
<1>3. i \in 0..(n - 1)
  <2> HIDE DEF id, n, i
  <2> SUFFICES ASSUME i \in 0..13, i < n, n \in 1..14 PROVE i \in 0..(n - 1)
    BY <1>1, <1>2 DEF id, n, i
  <2> QED
    OBVIOUS
<1> QED
  BY <1>1, <1>3 DEF AimOK

LEMMA AssignKeeps ==
  ASSUME AssignedOK, NEW knob \in 0..7, NEW to \in Assignable, Assign(knob, to)
  PROVE  AssignedOK'
<1> DEFINE R == [part : 0..5, parameter : Ids, instance : 0..13]
           new == [assigned[knob] EXCEPT !.parameter = to.parameter, !.instance = to.instance]
<1>1. assigned \in [0..7 -> R] /\ assigned[knob] \in R
  BY DEF AssignedOK
<1>2. /\ to.parameter \in Ids /\ to.instance \in 0..13 /\ AimOK(to)
      /\ parameter[to.parameter].level \in {"Patch", "Part"}
  BY AssignableIs
<1>3. assigned' = [assigned EXCEPT ![knob] = new]
  BY <1>1 DEF Assign
<1>4. new \in R /\ new.parameter = to.parameter /\ new.instance = to.instance
  BY <1>1, <1>2
<1>5. AimOK(new) /\ parameter[new.parameter].level \in {"Patch", "Part"}
  BY <1>2, <1>4 DEF AimOK
<1> HIDE DEF new, R
<1>6. assigned' \in [0..7 -> R]
  BY <1>1, <1>3, <1>4
<1>7. \A k \in 0..7 : assigned'[k] = IF k = knob THEN new ELSE assigned[k]
  BY <1>1, <1>3
<1>8. \A k \in 0..7 : AimOK(assigned'[k]) /\ parameter[assigned'[k].parameter].level \in {"Patch", "Part"}
  BY <1>5, <1>7 DEF AssignedOK
<1> QED
  BY <1>6, <1>8 DEF AssignedOK, R

LEMMA MoveKnobKeeps ==
  ASSUME AssignedOK, NEW knob \in 0..7, NEW part \in 0..5, assigned' = [assigned EXCEPT ![knob].part = part]
  PROVE  AssignedOK'
<1> DEFINE R == [part : 0..5, parameter : Ids, instance : 0..13]
           new == [assigned[knob] EXCEPT !.part = part]
<1>1. assigned \in [0..7 -> R] /\ assigned[knob] \in R
  BY DEF AssignedOK
<1>3. assigned' = [assigned EXCEPT ![knob] = new]
  BY <1>1
<1>4. new \in R /\ new.parameter = assigned[knob].parameter /\ new.instance = assigned[knob].instance
  BY <1>1
<1>5. AimOK(new) /\ parameter[new.parameter].level \in {"Patch", "Part"}
  BY <1>4 DEF AimOK, AssignedOK
<1> HIDE DEF new, R
<1>6. assigned' \in [0..7 -> R]
  BY <1>1, <1>3, <1>4
<1>7. \A k \in 0..7 : assigned'[k] = IF k = knob THEN new ELSE assigned[k]
  BY <1>1, <1>3
<1>8. \A k \in 0..7 : AimOK(assigned'[k]) /\ parameter[assigned'[k].parameter].level \in {"Patch", "Part"}
  BY <1>5, <1>7 DEF AssignedOK
<1> QED
  BY <1>6, <1>8 DEF AssignedOK, R

\* Outside of the pages of the settings, and of the panel, nothing is for a setting.
LEMMA AimIsOK ==
  ASSUME EditsOK, AssignedOK, player \in Players, ui.page \in PageNames, NEW which \in 0..7
  PROVE  /\ AimOK(Aim(which))
         /\ Aim(which).parameter # None /\ ui.page \notin SettingsPages
              => parameter[Aim(which).parameter].level # "System"
<1> DEFINE id == pages[ui.page].data[which + 1]
<1>1. id \in 0..255 /\ (ui.page \notin SettingsPages => id \in Editable)
  <2>1. PageOK(ui.page)
    BY PagesAreOK
  <2>2. which + 1 \in 1..8
    OBVIOUS
  <2> QED
    BY <2>1, <2>2 DEF PageOK
<1>2. Aim(which) =
        CASE id \in 240..247    -> assigned[id - 240]
          [] id < kNumParameters -> [part |-> active_part, parameter |-> id, instance |-> Selected(parameter[id])]
          [] OTHER               -> [part |-> active_part, parameter |-> None, instance |-> None]
  BY DEF Aim
<1> HIDE DEF id
<1>3. CASE id \in 240..247
  <2>1. Aim(which) = assigned[id - 240] /\ id - 240 \in 0..7
    BY <1>2, <1>3, IdsAre
  <2>2. AimOK(assigned[id - 240]) /\ parameter[assigned[id - 240].parameter].level \in {"Patch", "Part"}
    BY <2>1 DEF AssignedOK
  <2> QED
    BY <2>1, <2>2
<1>4. CASE id < kNumParameters
  <2>1. id \in Ids /\ id \notin 240..247 /\ id \in 0..78
    BY <1>1, <1>4, IdsAre
  <2>2. Aim(which) = [part |-> active_part, parameter |-> id, instance |-> Selected(parameter[id])]
    BY <1>2, <1>4, <2>1
  <2>3. AimOK(Aim(which))
    BY <2>1, <2>2, SelectedIs DEF AimOK
  <2>4. ASSUME ui.page \notin SettingsPages, parameter[id].level = "System"
        PROVE  FALSE
    <3>1. id \notin 0..65 \cup {73, 74}
      BY <2>1, <2>4, SettingIs
    <3>2. id \in Editable
      BY <1>1, <2>4
    <3> QED
      BY <2>1, <3>1, <3>2 DEF Editable
  <2> QED
    BY <2>2, <2>3, <2>4
<1>5. CASE id \notin 240..247 /\ ~(id < kNumParameters)
  <2>1. Aim(which) = [part |-> active_part, parameter |-> None, instance |-> None]
    BY <1>2, <1>5
  <2> QED
    BY <2>1 DEF AimOK
<1> QED
  BY <1>3, <1>4, <1>5

-----------------------------------------------------------------------------
(* A byte is written.                                                      *)

LEMMA StoreKeeps ==
  ASSUME EditsOK, UNCHANGED <<strayed, player>>, NEW cell, NEW byte, Store(cell, byte),
         byte \in 0..255,
         cell \in strayed \/ (owner[cell[1]][cell[3]] \in Ids /\ Holds(parameter[owner[cell[1]][cell[3]]], byte))
  PROVE  /\ EditsOK' /\ At(cell)' = byte
         /\ \A c : c # cell => At(c)' = At(c)
<1>1. /\ DOMAIN edited' = {cell} \cup DOMAIN edited
      /\ \A c \in DOMAIN edited' : edited'[c] = IF c = cell THEN byte ELSE edited[c]
  BY DEF Store
<1>2. EditsOK'
  BY <1>1 DEF EditsOK
<1>3. At(cell)' = byte
  BY <1>1 DEF At
<1>4. \A c : LoadedByte(c)' = LoadedByte(c)
  BY DEF LoadedByte, init_settings, Limit
<1>5. ASSUME NEW c, c # cell
      PROVE  At(c)' = At(c)
  <2>1. c \in DOMAIN edited' <=> c \in DOMAIN edited
    BY <1>1, <1>5
  <2>2. c \in DOMAIN edited => edited'[c] = edited[c]
    BY <1>1, <1>5
  <2> QED
    BY <1>4, <2>1, <2>2 DEF At
<1> QED
  BY <1>2, <1>3, <1>5

\* In all the parts that listen.
LEMMA StoreInPartsKeeps ==
  ASSUME EditsOK, player' = player, NEW bytes, StoreInParts(bytes),
         strayed \subseteq strayed', \A c \in strayed' : c[1] = "Part",
         \A c \in DOMAIN bytes :
           /\ c[1] = "Part" /\ bytes[c] \in 0..255
           /\ c \in strayed' \/ (owner[c[1]][c[3]] \in Ids /\ Holds(parameter[owner[c[1]][c[3]]], bytes[c]))
  PROVE  /\ EditsOK'
         /\ \A c : c[1] # "Part" => At(c)' = At(c)
<1>1. /\ DOMAIN edited' = DOMAIN bytes \cup DOMAIN edited
      /\ \A c \in DOMAIN edited' : edited'[c] = IF c \in DOMAIN bytes THEN bytes[c] ELSE edited[c]
  BY DEF StoreInParts
<1>2. EditsOK'
  BY <1>1 DEF EditsOK
<1>4. \A c : LoadedByte(c)' = LoadedByte(c)
  BY DEF LoadedByte, init_settings, Limit
<1>5. ASSUME NEW c, c[1] # "Part"
      PROVE  At(c)' = At(c)
  <2>1. c \notin DOMAIN bytes
    BY <1>5
  <2>2. c \in DOMAIN edited' <=> c \in DOMAIN edited
    BY <1>1, <2>1
  <2>3. c \in DOMAIN edited => edited'[c] = edited[c]
    BY <1>1, <2>1
  <2> QED
    BY <1>4, <2>2, <2>3 DEF At
<1> QED
  BY <1>2, <1>5

LEMMA NothingStored ==
  ASSUME UNCHANGED <<edited, strayed, player>>
  PROVE  (EditsOK => EditsOK') /\ \A c : At(c)' = At(c)
<1>1. \A c : LoadedByte(c)' = LoadedByte(c)
  BY DEF LoadedByte, init_settings, Limit
<1> QED
  BY <1>1 DEF At, EditsOK

-----------------------------------------------------------------------------
(* What is shown.                                                          *)

IsPanel(u) ==
  /\ u = [page |-> u.page, cursor |-> u.cursor, editing |-> u.editing, snapped |-> u.snapped,
          previous |-> u.previous, recent |-> u.recent, step |-> u.step, knob |-> u.knob, written |-> u.written]
  /\ u.page \in PageNames /\ u.previous \in PageNames /\ u.recent \in [1..9 -> PageNames] /\ u.knob \in 0..7

\* The cursor is on a control, and a pot that is snapped has written.
CursorOK(u) ==
  /\ u.cursor \in 0..9
  /\ pages[u.page].handlers = "ParameterEditor" => u.cursor \in 0..7

SnappedOK(u) == pages[u.page].handlers \in SnappingHandlers => u.snapped \subseteq u.written

PanelOK(u) == IsPanel(u) /\ CursorOK(u) /\ SnappedOK(u)

LEMMA GreatestOfControls ==
  ASSUME NEW S \in SUBSET (0..7), S # {}
  PROVE  Max(S) \in S
<1>1. {7 - j : j \in S} \in SUBSET Nat /\ {7 - j : j \in S} # {}
  <2>1. \A j \in 0..7 : 7 - j \in Nat
    OBVIOUS
  <2> QED
    BY <2>1
<1>2. PICK least \in {7 - j : j \in S} : \A j \in {7 - i : i \in S} : least <= j
  BY <1>1, LeastNumber
<1>3. \E greatest \in S : \A j \in S : greatest >= j
  BY <1>2
<1> QED
  BY <1>3 DEF Max

LEMMA ShownControls ==
  ASSUME NEW pg \in PageNames, pages[pg].handlers \in SnappingHandlers
  PROVE  Min(Shown(pg)) \in 0..7 /\ Max(Shown(pg)) \in 0..7
<1>1. pages[pg].data[2] # 255
  <2>1. PageOK(pg)
    BY PagesAreOK
  <2> QED
    BY <2>1 DEF PageOK, SnappingHandlers
<1>2. Shown(pg) \in SUBSET (0..7) /\ Shown(pg) # {}
  <2>1. 1 \in Controls /\ 1 + 1 = 2
    BY DEF Controls
  <2>2. 1 \in Shown(pg)
    BY <1>1, <2>1 DEF Shown, None
  <2> QED
    BY <2>2 DEF Shown, Controls
<1> HIDE DEF Shown
<1> DEFINE S == Shown(pg)
<1>3. S \in SUBSET Nat
  BY <1>2
<1> QED
  BY <1>2, <1>3, LeastOf, GreatestOfControls

LEMMA OpenedIs ==
  ASSUME NEW u, IsPanel(u), NEW pg \in PageNames, CursorOK(u)
  PROVE  LET v == OnInit(u, pg)
         IN  /\ IsPanel(v) /\ CursorOK(v) /\ v.page = pg /\ v.written = u.written
             /\ pages[pg].handlers \in SnappingHandlers => v.snapped = {}
<1> DEFINE h == pages[pg].handlers
           opened == [u EXCEPT !.page = pg, !.editing = "Idle", !.cursor = 0]
           v == OnInit(u, pg)
<1>1. v = CASE h \in SnappingHandlers  -> [opened EXCEPT !.snapped = {}, !.cursor = Min(Shown(pg))]
            [] h = "SequenceEditor"    -> [opened EXCEPT !.cursor = 4, !.step = Min({@, Longest - 1})]
            [] h = "VersionManager"    -> [u EXCEPT !.page = pg]
            [] OTHER                   -> opened
  BY DEF OnInit
<1>2. /\ IsPanel(opened) /\ opened.page = pg /\ opened.written = u.written /\ opened.cursor = 0
  <2> DEFINE turned == [u EXCEPT !.page = pg]
             idle   == [turned EXCEPT !.editing = "Idle"]
  <2>1. opened = [idle EXCEPT !.cursor = 0]
    OBVIOUS
  <2>2. turned = [u EXCEPT !.page = pg] /\ idle = [turned EXCEPT !.editing = "Idle"]
    OBVIOUS
  <2> HIDE DEF opened, idle, turned
  <2>3. IsPanel(turned) /\ turned.page = pg /\ turned.written = u.written
    BY <2>2 DEF IsPanel
  <2>4. IsPanel(idle) /\ idle.page = pg /\ idle.written = u.written
    BY <2>2, <2>3 DEF IsPanel
  <2> QED
    BY <2>1, <2>4 DEF IsPanel
<1> HIDE DEF v, opened
<1>3. CASE h \in SnappingHandlers
  <2>1. v = [opened EXCEPT !.snapped = {}, !.cursor = Min(Shown(pg))]
    BY <1>1, <1>3 DEF SnappingHandlers
  <2>2. Min(Shown(pg)) \in 0..7
    BY <1>3, ShownControls
  <2> DEFINE m == Min(Shown(pg))
  <2> HIDE DEF m
  <2>3. v = [opened EXCEPT !.snapped = {}, !.cursor = m] /\ m \in 0..7
    BY <2>1, <2>2 DEF m
  <2>4. IsPanel(v) /\ v.page = pg /\ v.written = u.written /\ v.cursor = m /\ v.snapped = {}
    BY <1>2, <2>3 DEF IsPanel
  <2> QED
    BY <2>3, <2>4 DEF CursorOK, v
<1>4. CASE h = "SequenceEditor"
  <2>1. v = [opened EXCEPT !.cursor = 4, !.step = Min({@, Longest - 1})]
    BY <1>1, <1>4 DEF SnappingHandlers
  <2> DEFINE m == Min({opened.step, Longest - 1})
  <2>2. v = [opened EXCEPT !.cursor = 4, !.step = m]
    BY <2>1, <1>2 DEF IsPanel
  <2> HIDE DEF m
  <2>3. IsPanel(v) /\ v.page = pg /\ v.written = u.written /\ v.cursor = 4
    BY <1>2, <2>2 DEF IsPanel
  <2> QED
    BY <1>4, <2>3 DEF CursorOK, v, SnappingHandlers
<1>5. CASE h = "VersionManager"
  <2>1. v = [u EXCEPT !.page = pg]
    BY <1>1, <1>5 DEF SnappingHandlers
  <2>2. IsPanel(v) /\ v.page = pg /\ v.written = u.written /\ v.cursor = u.cursor
    BY <2>1 DEF IsPanel
  <2> QED
    BY <1>5, <2>2 DEF CursorOK, v, SnappingHandlers
<1>6. CASE ~(h \in SnappingHandlers \/ h = "SequenceEditor" \/ h = "VersionManager")
  <2>1. v = opened
    BY <1>1, <1>6
  <2> QED
    BY <1>2, <1>6, <2>1 DEF CursorOK, v
<1> QED
  BY <1>3, <1>4, <1>5, <1>6

LEMMA ShowPageIs ==
  ASSUME NEW u, PanelOK(u), NEW pg \in PageNames
  PROVE  PanelOK(ShowPage(u, pg)) /\ ShowPage(u, pg).page = pg /\ ShowPage(u, pg).written = {}
<1> DEFINE g == pages[pg].group + 1
           w == [u EXCEPT !.previous = IF pg \in NonSystemPages THEN pg ELSE @,
                          !.recent[pages[pg].group + 1] = pg, !.written = {}]
           v == OnInit(w, pg)
<1>1. g \in 1..9
  <2>1. PageOK(pg)
    BY PagesAreOK
  <2> QED
    BY <2>1 DEF PageOK
<1>2. IsPanel(w) /\ w.written = {} /\ w.cursor = u.cursor /\ w.page = u.page
  <2> DEFINE r == [u.recent EXCEPT ![g] = pg]
             q == IF pg \in NonSystemPages THEN pg ELSE u.previous
  <2>1. IsPanel(u)
    BY DEF PanelOK
  <2>2. w = [u EXCEPT !.previous = q, !.recent = r, !.written = {}]
    BY <2>1 DEF IsPanel
  <2>3. q \in PageNames
    BY <2>1 DEF IsPanel
  <2>4. u.recent \in [1..9 -> PageNames]
    BY <2>1 DEF IsPanel
  <2> HIDE DEF g, w, q
  <2>5. r \in [1..9 -> PageNames]
    BY <1>1, <2>4
  <2> HIDE DEF r
  <2> QED
    BY <2>1, <2>2, <2>3, <2>5 DEF IsPanel
<1>3. CursorOK(w)
  BY <1>2 DEF CursorOK, PanelOK
<1>4. ShowPage(u, pg) = v
  BY DEF ShowPage
<1> HIDE DEF w, g
<1>5. /\ IsPanel(v) /\ CursorOK(v) /\ v.page = pg /\ v.written = w.written
      /\ pages[pg].handlers \in SnappingHandlers => v.snapped = {}
  BY <1>2, <1>3, OpenedIs
<1> HIDE DEF v
<1>6. SnappedOK(v)
  BY <1>5 DEF SnappedOK
<1> QED
  BY <1>2, <1>4, <1>5, <1>6 DEF PanelOK

LEMMA MoveActiveControlIs ==
  ASSUME NEW u, PanelOK(u), NEW by \in Int,
         pages[u.page].handlers \in {"SequenceEditor", "VoiceAssigner", "ParameterEditor"}
  PROVE  LET v == MoveActiveControl(u, by)
         IN  PanelOK(v) /\ v.page = u.page /\ v.written = u.written
<1> DEFINE v == MoveActiveControl(u, by)
<1>1. IsPanel(u) /\ CursorOK(u) /\ SnappedOK(u)
  BY DEF PanelOK
<1>2. CASE pages[u.page].handlers = "SequenceEditor"
  <2> DEFINE m == IF by > 0 THEN 0 ELSE Longest - 1
  <2>1. v = [u EXCEPT !.step = m]
    BY <1>2 DEF MoveActiveControl
  <2> HIDE DEF m, v
  <2>2. /\ IsPanel(v) /\ v.page = u.page /\ v.written = u.written
        /\ v.cursor = u.cursor /\ v.snapped = u.snapped
    BY <1>1, <2>1 DEF IsPanel
  <2>3. CursorOK(v) /\ SnappedOK(v)
    BY <1>1, <2>2 DEF CursorOK, SnappedOK
  <2> QED
    BY <2>2, <2>3 DEF PanelOK, v
<1>3. CASE pages[u.page].handlers = "VoiceAssigner"
  <2> DEFINE m == IF by > 0 THEN 0 ELSE 3 + kNumVoices
  <2>1. v = [u EXCEPT !.cursor = m]
    BY <1>3 DEF MoveActiveControl
  <2>2. m \in 0..9
    BY DEF kNumVoices
  <2> HIDE DEF m, v
  <2>3. /\ IsPanel(v) /\ v.page = u.page /\ v.written = u.written
        /\ v.cursor = m /\ v.snapped = u.snapped
    BY <1>1, <2>1 DEF IsPanel
  <2>4. CursorOK(v) /\ SnappedOK(v)
    BY <1>1, <1>3, <2>2, <2>3 DEF CursorOK, SnappedOK
  <2> QED
    BY <2>3, <2>4 DEF PanelOK, v
<1>4. CASE pages[u.page].handlers = "ParameterEditor"
  <2> DEFINE m == IF by > 0 THEN Min(Shown(u.page)) ELSE Max(Shown(u.page))
  <2>1. v = [u EXCEPT !.cursor = m]
    BY <1>4 DEF MoveActiveControl
  <2>2. m \in 0..7
    BY <1>1, <1>4, ShownControls DEF IsPanel, SnappingHandlers
  <2> HIDE DEF m, v
  <2>3. /\ IsPanel(v) /\ v.page = u.page /\ v.written = u.written
        /\ v.cursor = m /\ v.snapped = u.snapped
    BY <1>1, <2>1 DEF IsPanel
  <2>4. CursorOK(v) /\ SnappedOK(v)
    BY <1>1, <1>4, <2>2, <2>3 DEF CursorOK, SnappedOK
  <2> QED
    BY <2>3, <2>4 DEF PanelOK, v
<1> QED
  BY <1>2, <1>3, <1>4

LEMMA ScrolledAre ==
  /\ DOMAIN Scrolled = 1..11 /\ Len(Scrolled) = 11
  /\ \A i \in 1..11 : Scrolled[i] \in ScrolledNames
  /\ \A pg \in ScrolledNames : \E i \in 1..11 : Scrolled[i] = pg
<1>1. DOMAIN Scrolled = 1..11 /\ Len(Scrolled) = 11
  BY DEF Scrolled
<1>2. \A i \in 1..11 : Scrolled[i] \in ScrolledNames
  BY DEF Scrolled, ScrolledNames
<1>3. /\ Scrolled[1] = "Oscillators" /\ Scrolled[2] = "Mixer" /\ Scrolled[3] = "Filter" /\ Scrolled[4] = "EnvLfo"
      /\ Scrolled[5] = "VoiceLfo" /\ Scrolled[6] = "Modulations" /\ Scrolled[7] = "Part"
      /\ Scrolled[8] = "PartArpeggiator" /\ Scrolled[9] = "PartSequencer" /\ Scrolled[10] = "Multi"
      /\ Scrolled[11] = "MultiClock"
  BY DEF Scrolled
<1>4. \A pg \in ScrolledNames : \E i \in 1..11 : Scrolled[i] = pg
  BY <1>3 DEF ScrolledNames
<1> QED
  BY <1>1, <1>2, <1>4

LEMMA ShowPageRelativeIs ==
  ASSUME PanelOK(ui), NEW by \in {-1, 1},
         pages[ui.page].handlers \in {"ParameterEditor", "SequenceEditor", "VoiceAssigner"}
  PROVE  LET v == ShowPageRelative(by)
         IN  PanelOK(v) /\ v.written = {} /\ (ui.page \in SettingsPages => v.page \in SettingsPages)
<1> DEFINE here == CHOOSE i \in DOMAIN Scrolled : Scrolled[i] = ui.page
           next == IF ui.page \in SettingsPages THEN pages[ui.page].next
                   ELSE Scrolled[((here - 1 + by) % Len(Scrolled)) + 1]
           w == ShowPage(ui, next)
           v == MoveActiveControl(w, by)
<1>1. ui.page \in PageNames
  BY DEF PanelOK, IsPanel
<1>2. PageOK(ui.page)
  BY <1>1, PagesAreOK
<1>3. next \in ScrolledNames \cup SettingsPages /\ (ui.page \in SettingsPages => next \in SettingsPages)
  <2>1. CASE ui.page \in SettingsPages
    BY <1>2, <2>1 DEF PageOK
  <2>2. CASE ui.page \notin SettingsPages
    <3>1. ui.page \in ScrolledNames
      BY <1>2, <2>2 DEF PageOK
    <3>2. here \in 1..11
      BY <3>1, ScrolledAre
    <3> HIDE DEF here
    <3>3. ((here - 1 + by) % 11) + 1 \in 1..11
      BY <3>2
    <3> QED
      BY <2>2, <3>3, ScrolledAre
  <2> QED
    BY <2>1, <2>2
<1> HIDE DEF next
<1>4. next \in PageNames
  BY <1>3, PagesAre DEF ScrolledNames, SettingsPages
<1>5. PanelOK(w) /\ w.page = next /\ w.written = {}
  BY <1>4, ShowPageIs
<1>6. pages[next].handlers \in {"ParameterEditor", "SequenceEditor", "VoiceAssigner"}
  <2>1. PageOK(next)
    BY <1>4, PagesAreOK
  <2> QED
    BY <1>3, <2>1 DEF PageOK
<1> HIDE DEF w
<1>7. PanelOK(v) /\ v.page = w.page /\ v.written = w.written
  <2>1. by \in Int
    OBVIOUS
  <2> QED
    BY <1>5, <1>6, <2>1, MoveActiveControlIs
<1>8. ShowPageRelative(by) = v
  BY DEF ShowPageRelative, next, w
<1> QED
  BY <1>3, <1>5, <1>7, <1>8

\* A turn takes the cursor off the page or to a control.
LEMMA ReachedIs ==
  ASSUME PanelOK(ui), NEW by \in (-8..8) \ {0}, Handlers \in {"ParameterEditor", "VoiceAssigner"}
  PROVE  Reached(by) \in Int
<1>1. ui.cursor \in 0..9
  BY DEF PanelOK, CursorOK
<1> DEFINE stops == {k \in 1..8 : ui.cursor + k * by \notin Controls \/ ui.cursor + k * by \in Shown(ui.page)}
<1> DEFINE c == ui.cursor
           shown == Shown(ui.page)
<1>2. CASE Handlers = "VoiceAssigner"
  <2>1. Reached(by) = ui.cursor + 1 * by
    BY <1>2 DEF Reached
  <2> QED
    BY <1>1, <2>1
<1>3. CASE Handlers # "VoiceAssigner"
  <2>1. Reached(by) = ui.cursor + Min(stops) * by
    BY <1>3 DEF Reached
  <2>2. stops \in SUBSET Nat
    OBVIOUS
  <2>3. 8 \in stops
    <3>1. c \in 0..7
      BY <1>3 DEF PanelOK, CursorOK, Handlers
    <3> HIDE DEF c
    <3>2. c + 8 * by \notin 0..7
      BY <3>1
    <3> QED
      BY <3>2 DEF Controls, c
  <2> HIDE DEF stops
  <2>4. Min(stops) \in Nat
    BY <2>2, <2>3, LeastOf
  <2> DEFINE m == Min(stops)
  <2> HIDE DEF m
  <2>5. c \in 0..9 /\ m \in Nat => c + m * by \in Int
    OBVIOUS
  <2> QED
    BY <1>1, <2>1, <2>4, <2>5 DEF m
<1> QED
  BY <1>2, <1>3
-----------------------------------------------------------------------------
(* The invariant, step by step.                                            *)

\* The bytes written belong to parameters and are values of theirs, the knobs turn parameters
\* of a patch or a part, the cursor is on a control of its page, a pot that has taken hold
\* has written since the page was opened, and outside of their pages the settings are in
\* the EEPROM.
PagesIInv == player \in Players /\ EditsOK /\ AssignedOK /\ PanelOK(ui) /\ SettingsAreKept

\* A pot that writes for the first time since the page was opened.
TakesHold ==
  \A pot \in ui'.written \ ui.written :
    LET a == Aim(pot)
    IN  snap /\ parameter[a.parameter].level # "UI"
          => Distance(parameter[a.parameter], At(CellOf(a))', At(CellOf(a))) <= Near(parameter[a.parameter])

\* What a step does to the settings and to the page.
SettingsStay == \A c : c[1] = "System" => At(c)' = At(c)

LEMMA SettingsKeptByStay ==
  ASSUME SettingsAreKept, SettingsStay, kept' = kept, ui.page \in SettingsPages => ui'.page \in SettingsPages
  PROVE  SettingsAreKept'
<1>1. settings' = settings
  BY DEF settings, SettingsStay, System
<1> QED
  BY <1>1 DEF SettingsAreKept, SettingsPages

LEMMA SettingsKeptOnTheirPages ==
  ASSUME ui'.page \in SettingsPages
  PROVE  SettingsAreKept'
BY DEF SettingsAreKept, SettingsPages

\* By the user, with an aim of the panel or of a page.
LEMMA EditAllowed ==
  ASSUME EditsOK, UNCHANGED <<strayed, player>>,
         NEW a, a.parameter \in Ids, a.instance \in 0..(parameter[a.parameter].instances - 1),
         NEW byte \in 0..255, CellOf(a) \in strayed \/ Holds(parameter[a.parameter], byte),
         Store(CellOf(a), byte)
  PROVE  /\ EditsOK'
         /\ parameter[a.parameter].level # "System" => SettingsStay
<1> DEFINE cell == CellOf(a)
<1>1. owner[cell[1]][cell[3]] = a.parameter /\ cell[1] = Space(parameter[a.parameter])
  <2>1. owner[Space(parameter[a.parameter])][get_address(parameter[a.parameter], a.instance)] = a.parameter
    BY OwnerOfInstance
  <2>2. cell[1] = Space(parameter[a.parameter]) /\ cell[3] = get_address(parameter[a.parameter], a.instance)
    BY DEF CellOf
  <2> QED
    BY <2>1, <2>2
<1> HIDE DEF cell
<1>2. Store(cell, byte) /\ (cell \in strayed \/ Holds(parameter[a.parameter], byte))
  BY DEF cell
<1>3. EditsOK' /\ \A c : c # cell => At(c)' = At(c)
  BY <1>1, <1>2, StoreKeeps
<1>4. ASSUME parameter[a.parameter].level # "System", NEW c, c[1] = "System"
      PROVE  At(c)' = At(c)
  <2>1. cell[1] # "System"
    BY <1>1, <1>4 DEF Space
  <2> QED
    BY <1>3, <1>4, <2>1
<1> QED
  BY <1>3, <1>4 DEF SettingsStay

LEMMA EditKeeps ==
  ASSUME EditsOK, UNCHANGED <<strayed, player>>,
         NEW a, a.parameter \in Ids, a.instance \in 0..(parameter[a.parameter].instances - 1),
         NEW byte, Holds(parameter[a.parameter], byte), Store(CellOf(a), byte)
  PROVE  /\ EditsOK'
         /\ parameter[a.parameter].level # "System" => SettingsStay
<1>1. byte \in 0..255
  BY DEF Holds
<1> QED
  BY <1>1, EditAllowed

LEMMA NothingEdited ==
  ASSUME UNCHANGED <<edited, strayed, player>>
  PROVE  (EditsOK => EditsOK') /\ SettingsStay
BY NothingStored DEF SettingsStay

\* The panel keeps its page.
LEMMA SamePage ==
  ASSUME NEW u, NEW v, PanelOK(u), IsPanel(v), v.page = u.page,
         v.cursor = u.cursor \/ v.cursor \in 0..7, v.snapped \subseteq v.written \/ (v.snapped = u.snapped /\ v.written = u.written)
  PROVE  PanelOK(v)
BY DEF PanelOK, CursorOK, SnappedOK

LEMMA TurnToEditKeeps ==
  ASSUME PagesIInv, NEW by \in player.turns, TurnToEdit(by)
  PROVE  PagesIInv' /\ TakesHold
<1> DEFINE a == Aim(ui.cursor)
           p == parameter[a.parameter]
<1>1. by \in (-8..8) \ {0} /\ player' = player /\ strayed' = strayed /\ assigned' = assigned /\ kept' = kept
  BY PlayerIs DEF PagesIInv, TurnToEdit, Count, Counted, Player
<1>2. ui.cursor \in 0..7
  <2>1. CASE Handlers = "ParameterEditor"
    BY <2>1 DEF PagesIInv, PanelOK, CursorOK, Handlers
  <2>2. CASE ui.cursor < 4
    BY <2>2 DEF PagesIInv, PanelOK, CursorOK
  <2> QED
    BY <2>1, <2>2 DEF TurnToEdit, EditsWithEncoder
<1>3. /\ AimOK(a)
      /\ a.parameter # None /\ ui.page \notin SettingsPages => p.level # "System"
  BY <1>2, AimIsOK DEF PagesIInv, PanelOK, IsPanel
<1>4. /\ PanelOK(ui') /\ ui'.page = ui.page /\ ui'.written = ui.written
  <2>1. ui' = [ui EXCEPT !.editing = "Encoder"] /\ PanelOK(ui)
    BY DEF TurnToEdit, PagesIInv
  <2> DEFINE v == ui'
  <2> HIDE DEF v
  <2>2. v = [ui EXCEPT !.editing = "Encoder"] /\ IsPanel(ui)
    BY <2>1 DEF PanelOK, v
  <2>3. IsPanel(v) /\ v.page = ui.page /\ v.cursor = ui.cursor /\ v.snapped = ui.snapped /\ v.written = ui.written
    BY <2>2 DEF IsPanel
  <2>4. PanelOK(v)
    BY <2>1, <2>3, SamePage
  <2> QED
    BY <2>3, <2>4 DEF v
<1>5. EditsOK' /\ (ui.page \notin SettingsPages => SettingsStay)
  <2>1. CASE a.parameter = None
    <3>1. edited' = edited
      BY <2>1 DEF TurnToEdit
    <3> QED
      BY <1>1, <3>1, NothingEdited DEF PagesIInv
  <2>2. CASE a.parameter # None
    <3>1. Store(CellOf(a), Increment(p, At(CellOf(a)), by))
      BY <2>2 DEF TurnToEdit, Edit
    <3>2. a.parameter \in Ids /\ a.instance \in 0..(p.instances - 1)
      BY <1>3, <2>2 DEF AimOK
    <3>3. At(CellOf(a)) \in 0..255 /\ (CellOf(a) \in strayed \/ Holds(p, At(CellOf(a))))
      BY <3>2, ByteHolds DEF PagesIInv
    <3>4. LimitsInOrder(p)
      BY <3>2, RowsAreWellPlaced DEF WellPlaced
    <3> DEFINE byte == Increment(p, At(CellOf(a)), by)
    <3>5. byte \in 0..255 /\ (CellOf(a) \in strayed \/ Holds(p, byte))
      <4>1. byte = At(CellOf(a)) \/ Holds(p, byte)
        <5>1. by \in Int
          BY <1>1
        <5>2. \A q, n, d : LimitsInOrder(q) /\ n \in 0..255 /\ d \in Int =>
                            Increment(q, n, d) = n \/ Holds(q, Increment(q, n, d))
          BY ONLY IncrementStays
        <5> QED
          BY ONLY <3>3, <3>4, <5>1, <5>2
      <4>2. Holds(p, byte) => byte \in 0..255
        BY DEF Holds
      <4> HIDE DEF byte
      <4> QED
        BY <3>3, <4>1, <4>2
    <3> HIDE DEF byte
    <3>6. Store(CellOf(a), byte)
      BY <3>1 DEF byte
    <3> QED
      BY <1>1, <1>3, <2>2, <3>2, <3>5, <3>6, EditAllowed DEF PagesIInv
  <2> QED
    BY <2>1, <2>2
<1>6. SettingsAreKept'
  <2>1. CASE ui.page \in SettingsPages
    BY <1>4, <2>1, SettingsKeptOnTheirPages
  <2>2. CASE ui.page \notin SettingsPages
    BY <1>1, <1>4, <1>5, <2>2, SettingsKeptByStay DEF PagesIInv
  <2> QED
    BY <2>1, <2>2
<1>7. AssignedOK'
  BY <1>1 DEF PagesIInv, AssignedOK
<1>8. TakesHold
  BY <1>4 DEF TakesHold
<1> QED
  BY <1>1, <1>4, <1>5, <1>6, <1>7, <1>8 DEF PagesIInv

\* A step that only moves on the panel.
LEMMA PanelOnlyKeeps ==
  ASSUME PagesIInv, UNCHANGED <<edited, assigned, kept, strayed, player>>, PanelOK(ui'),
         ui.page \in SettingsPages => ui'.page \in SettingsPages, ui'.written \subseteq ui.written
  PROVE  PagesIInv' /\ TakesHold
<1>1. EditsOK' /\ SettingsStay
  BY NothingEdited DEF PagesIInv
<1>2. SettingsAreKept'
  BY <1>1, SettingsKeptByStay DEF PagesIInv
<1>3. AssignedOK'
  BY DEF PagesIInv, AssignedOK
<1>4. TakesHold
  BY DEF TakesHold
<1> QED
  BY <1>1, <1>2, <1>3, <1>4 DEF PagesIInv

LEMMA TurnToMoveKeeps ==
  ASSUME PagesIInv, NEW by \in player.turns, TurnToMove(by)
  PROVE  PagesIInv' /\ TakesHold
<1> DEFINE last == IF Handlers = "VoiceAssigner" THEN 3 + kNumVoices ELSE 7
           to   == Reached(by)
<1>1. by \in (-8..8) \ {0} /\ UNCHANGED <<edited, assigned, kept, strayed, player>> /\ PanelOK(ui)
  BY PlayerIs DEF PagesIInv, TurnToMove, Count, Counted, Player
<1>2. Handlers \in {"ParameterEditor", "VoiceAssigner"}
  BY DEF TurnToMove
<1>3. to \in Int
  BY <1>1, <1>2, ReachedIs
<1>4. ui' = CASE to < 0    -> ShowPageRelative(-1)
              [] to > last -> ShowPageRelative(1)
              [] OTHER     -> [ui EXCEPT !.cursor = to]
  BY DEF TurnToMove
<1>5. last \in 7..9 /\ (Handlers = "ParameterEditor" => last = 7)
  BY DEF kNumVoices
<1> DEFINE v == ui'
<1> HIDE DEF to, last, v
<1>6. CASE v = ShowPageRelative(-1) \/ v = ShowPageRelative(1)
  <2>1. PanelOK(v) /\ v.written = {} /\ (ui.page \in SettingsPages => v.page \in SettingsPages)
    BY <1>1, <1>2, <1>6, ShowPageRelativeIs DEF Handlers
  <2> QED
    BY <1>1, <2>1, PanelOnlyKeeps DEF v
<1>7. CASE to >= 0 /\ to <= last
  <2>1. v = [ui EXCEPT !.cursor = to] /\ IsPanel(ui)
    BY <1>1, <1>3, <1>4, <1>5, <1>7 DEF PanelOK, v
  <2>2. IsPanel(v) /\ v.page = ui.page /\ v.cursor = to /\ v.snapped = ui.snapped /\ v.written = ui.written
    BY <2>1 DEF IsPanel
  <2>3. to \in 0..last
    BY <1>3, <1>7, <1>5
  <2>4. CursorOK(v)
    BY <1>2, <1>5, <2>2, <2>3 DEF CursorOK, Handlers
  <2>5. SnappedOK(v)
    BY <1>1, <2>2 DEF SnappedOK, PanelOK
  <2>6. PanelOK(v) /\ v.written \subseteq ui.written /\ (ui.page \in SettingsPages => v.page \in SettingsPages)
    BY <2>2, <2>4, <2>5 DEF PanelOK
  <2> QED
    BY <1>1, <2>6, PanelOnlyKeeps DEF v
<1>8. v = ShowPageRelative(-1) \/ v = ShowPageRelative(1) \/ (to >= 0 /\ to <= last)
  BY <1>3, <1>4, <1>5 DEF v
<1> QED
  BY <1>6, <1>7, <1>8

LEMMA TurnThroughStepsKeeps ==
  ASSUME PagesIInv, NEW by \in player.turns, TurnThroughSteps(by)
  PROVE  PagesIInv' /\ TakesHold
<1> DEFINE step == ui.step + by
           least == Min({step, Longest - 1})
           v == ui'
<1>1. UNCHANGED <<edited, assigned, kept, strayed, player>> /\ PanelOK(ui)
  BY DEF PagesIInv, TurnThroughSteps, Count, Counted
<1>2. Handlers = "SequenceEditor"
  BY DEF TurnThroughSteps
<1>3. v = IF ui.editing # "Idle" THEN [ui EXCEPT !.editing = "Encoder"]
          ELSE CASE step < 0                  -> ShowPageRelative(-1)
                 [] step >= Longest /\ by > 0 -> ShowPageRelative(1)
                 [] OTHER                     -> [ui EXCEPT !.step = least]
  BY DEF TurnThroughSteps
<1> HIDE DEF step, least, v
<1>4. \/ v = [ui EXCEPT !.editing = "Encoder"] \/ v = [ui EXCEPT !.step = least]
      \/ v = ShowPageRelative(-1) \/ v = ShowPageRelative(1)
  <2> DEFINE far == step >= Longest /\ by > 0
             below == step < 0
  <2>1. v = IF ui.editing # "Idle" THEN [ui EXCEPT !.editing = "Encoder"]
            ELSE CASE below -> ShowPageRelative(-1)
                   [] far   -> ShowPageRelative(1)
                   [] OTHER -> [ui EXCEPT !.step = least]
    BY <1>3
  <2> HIDE DEF far, below
  <2> DEFINE a == [ui EXCEPT !.editing = "Encoder"]
             b == [ui EXCEPT !.step = least]
             c == ShowPageRelative(-1)
             d == ShowPageRelative(1)
  <2>2. v = IF ui.editing # "Idle" THEN a ELSE CASE below -> c [] far -> d [] OTHER -> b
    BY <2>1
  <2> HIDE DEF a, b, c, d
  <2>3. v = a \/ v = b \/ v = c \/ v = d
    BY <2>2
  <2> QED
    BY <2>3 DEF a, b, c, d
<1>5. CASE v = ShowPageRelative(-1) \/ v = ShowPageRelative(1)
  <2>1. PanelOK(v) /\ v.written = {} /\ (ui.page \in SettingsPages => v.page \in SettingsPages)
    BY <1>1, <1>2, <1>5, ShowPageRelativeIs DEF Handlers
  <2> QED
    BY <1>1, <2>1, PanelOnlyKeeps DEF v
<1>6. CASE v = [ui EXCEPT !.editing = "Encoder"] \/ v = [ui EXCEPT !.step = least]
  <2>1. IsPanel(ui)
    BY <1>1 DEF PanelOK
  <2>2. IsPanel(v) /\ v.page = ui.page /\ v.cursor = ui.cursor /\ v.snapped = ui.snapped /\ v.written = ui.written
    BY <1>6, <2>1 DEF IsPanel
  <2>3. PanelOK(v)
    BY <1>1, <2>2, SamePage
  <2> QED
    BY <1>1, <2>2, <2>3, PanelOnlyKeeps DEF v
<1> QED
  BY <1>4, <1>5, <1>6

\* A step that leaves the panel and the settings as they are.
LEMMA SamePanelKeeps ==
  ASSUME PagesIInv, UNCHANGED <<ui, kept, player>>, EditsOK', SettingsStay, AssignedOK'
  PROVE  PagesIInv' /\ TakesHold
<1>1. PanelOK(ui')
  BY DEF PagesIInv
<1>2. SettingsAreKept'
  BY SettingsKeptByStay DEF PagesIInv
<1>3. TakesHold
  BY DEF TakesHold
<1> QED
  BY <1>1, <1>2, <1>3 DEF PagesIInv

LEMMA TurnToAssignKeeps ==
  ASSUME PagesIInv, NEW by \in player.turns, TurnToAssign(by)
  PROVE  PagesIInv' /\ TakesHold
<1>1. UNCHANGED <<ui, edited, kept, strayed, player>> /\ ui.knob \in 0..7 /\ AssignedOK
  BY DEF PagesIInv, TurnToAssign, Count, Counted, PanelOK, IsPanel
<1>2. assigned' = assigned \/ \E to \in Assignable : Assign(ui.knob, to)
  BY DEF TurnToAssign
<1>3. AssignedOK'
  <2>1. CASE assigned' = assigned
    BY <1>1, <2>1 DEF AssignedOK
  <2>2. CASE \E to \in Assignable : Assign(ui.knob, to)
    BY <1>1, <2>2, AssignKeeps
  <2> QED
    BY <1>2, <2>1, <2>2
<1>4. EditsOK' /\ SettingsStay
  BY <1>1, NothingEdited DEF PagesIInv
<1> QED
  BY <1>1, <1>3, <1>4, SamePanelKeeps

LEMMA TurnPartKeeps ==
  ASSUME PagesIInv, NEW by \in player.turns, TurnPart(by)
  PROVE  PagesIInv' /\ TakesHold
<1> DEFINE a == [part |-> 0, parameter |-> 58, instance |-> 0]
           high == Min({kNumParts - 1, active_part + by})
           byte == Max({0, high})
<1>1. by \in (-8..8) \ {0} /\ UNCHANGED <<ui, assigned, kept, strayed, player>>
  BY PlayerIs DEF PagesIInv, TurnPart, Count, Counted, Player
<1>2. parameter[58] = Single("UI", 3, "Number", 0, 5, None) /\ 58 \in Ids
  BY MultiParameters, IdsAre DEF ActivePart
<1>3. /\ parameter[58].level = "UI" /\ parameter[58].unit = "Number" /\ parameter[58].min = 0
      /\ parameter[58].max = 5 /\ parameter[58].instances = 1
      /\ parameter[58].offset = 3 /\ parameter[58].stride = 0
  BY <1>2 DEF Single
<1>4. 0 \in 0..(parameter[58].instances - 1) /\ 3 + 0 * 0 = 3
  BY <1>3
<1>5. CellOf(a) = Panel(ActivePart)
  <2>1. a.parameter = 58 /\ a.instance = 0
    OBVIOUS
  <2>2. Space(parameter[58]) = "UI"
    BY <1>3 DEF Space
  <2> HIDE DEF a
  <2> QED
    <3>1. a.parameter \in Ids /\ a.instance \in 0..(parameter[a.parameter].instances - 1)
      BY <1>2, <1>4, <2>1
    <3>2. CellOf(a) = <<Space(parameter[58]), IF Space(parameter[58]) = "Part" THEN a.part ELSE 0,
                        parameter[58].offset + parameter[58].stride * 0>>
      BY <2>1, <3>1, CellIs
    <3> QED
      BY <1>3, <1>4, <2>2, <3>2 DEF Panel, ActivePart
<1>6. Holds(parameter[58], active_part)
  <2>1. a.parameter = 58 /\ a.instance = 0
    OBVIOUS
  <2> HIDE DEF a
  <2>2. Space(parameter[58]) = "UI"
    BY <1>3 DEF Space
  <2>3. Holds(parameter[58], At(CellOf(a)))
    BY <1>2, <1>4, <2>1, <2>2, ByteHolds DEF PagesIInv
  <2> QED
    BY <1>5, <2>3 DEF active_part
<1>7. active_part \in 0..5
  BY <1>3, <1>6, SignedIs DEF Holds, IsLegal
<1>8. high \in Int /\ high <= 5
  <2> DEFINE n == active_part + by
  <2>1. n \in Int
    BY <1>1, <1>7
  <2> HIDE DEF n
  <2>2. high = Min({5, n})
    BY DEF kNumParts, n
  <2> HIDE DEF high
  <2>3. \E x \in {5, n} : \A y \in {5, n} : x <= y
    BY <2>1
  <2>4. Min({5, n}) \in {5, n} /\ Min({5, n}) <= 5
    BY <2>3 DEF Min
  <2> QED
    BY <2>1, <2>2, <2>4
<1> HIDE DEF high
<1>9. byte \in 0..5
  <2>1. \E x \in {0, high} : \A y \in {0, high} : x >= y
    BY <1>8
  <2>2. Max({0, high}) \in {0, high} /\ Max({0, high}) >= 0
    BY <2>1 DEF Max
  <2> QED
    BY <1>8, <2>2
<1>10. Store(CellOf(a), byte)
  BY <1>5 DEF TurnPart, high
<1> HIDE DEF byte
<1>11. Holds(parameter[58], byte)
  <2>1. byte \in 0..255 /\ byte \in 0..5
    BY <1>9
  <2> QED
    BY <1>3, <2>1, SignedIs DEF Holds, IsLegal
<1>12. EditsOK' /\ SettingsStay
  <2>1. a.parameter = 58 /\ a.instance = 0
    OBVIOUS
  <2> HIDE DEF a
  <2> QED
    BY <1>1, <1>2, <1>3, <1>4, <1>10, <1>11, <2>1, EditKeeps DEF PagesIInv
<1> QED
  BY <1>1, <1>12, SamePanelKeeps DEF PagesIInv, AssignedOK

\* Only the pages of the settings lead to each other.
LEMMA MoreIs ==
  ASSUME NEW pg \in PageNames, NEW which \in 0..7, pages[pg].data[which + 1] \in {More, Back}
  PROVE  pg \in SettingsPages /\ pages[pg].next \in SettingsPages /\ pages[pg].next \in PageNames
<1>1. PageOK(pg) /\ which + 1 \in 1..8
  BY PagesAreOK
<1>2. pg \in SettingsPages
  <2> DEFINE n == pages[pg].data[which + 1]
  <2>1. pg \notin SettingsPages => n \in Editable
    BY <1>1 DEF PageOK
  <2>2. n = 248 \/ n = 249
    BY DEF More, Back
  <2> HIDE DEF n
  <2> QED
    BY <2>1, <2>2 DEF Editable
<1> QED
  BY <1>1, <1>2, PagesAre DEF PageOK, SettingsPages

LEMMA ShowPageKeeps ==
  ASSUME PagesIInv, UNCHANGED <<edited, assigned, kept, strayed, player>>, NEW pg \in PageNames, ui' = ShowPage(ui, pg),
         ui.page \in SettingsPages => pg \in SettingsPages
  PROVE  PagesIInv' /\ TakesHold
<1>1. PanelOK(ui') /\ ui'.page = pg /\ ui'.written = {}
  BY ShowPageIs DEF PagesIInv
<1> QED
  BY <1>1, PanelOnlyKeeps

\* A step on a page that changes neither the page nor what the pots did.
LEMMA StayKeeps ==
  ASSUME PagesIInv, UNCHANGED <<edited, assigned, kept, strayed, player>>, IsPanel(ui'), ui'.page = ui.page,
         ui'.cursor = ui.cursor \/ ui'.cursor \in 0..7, ui'.snapped = ui.snapped, ui'.written = ui.written
  PROVE  PagesIInv' /\ TakesHold
<1>1. PanelOK(ui')
  BY SamePage DEF PagesIInv
<1> QED
  BY <1>1, PanelOnlyKeeps

LEMMA ClickKeeps ==
  ASSUME PagesIInv, Click
  PROVE  PagesIInv' /\ TakesHold
<1> DEFINE which == IF ui.cursor \in Controls THEN pages[ui.page].data[ui.cursor + 1] ELSE None
           v == ui'
           t == Toggled(ui)
           shown == ShowPage(ui, pages[ui.page].next)
<1>1. UNCHANGED <<edited, assigned, kept, strayed, player>> /\ PanelOK(ui) /\ IsPanel(ui) /\ ui.page \in PageNames
  BY DEF PagesIInv, Click, Count, Counted, PanelOK, IsPanel
<1>2. v = CASE Handlers = "KnobAssigner"   -> t
            [] Handlers = "SequenceEditor" -> [t EXCEPT !.cursor = IF ui.editing = "Idle" THEN @ ELSE 4]
            [] OTHER -> IF which \in {More, Back} THEN shown ELSE IF which = None THEN ui ELSE t
  BY DEF Click
<1>3. IsPanel(t) /\ t.page = ui.page /\ t.cursor = ui.cursor /\ t.snapped = ui.snapped /\ t.written = ui.written
  <2> DEFINE e == IF ui.editing = "Idle" THEN "Encoder" ELSE "Idle"
  <2>1. t = [ui EXCEPT !.editing = e]
    BY <1>1 DEF Toggled, IsPanel
  <2> HIDE DEF e, t
  <2> QED
    BY <1>1, <2>1 DEF IsPanel
<1> DEFINE c == IF ui.editing = "Idle" THEN t.cursor ELSE 4
<1>4. v = t \/ v = [t EXCEPT !.cursor = c] \/ v = ui \/ (v = shown /\ which \in {More, Back})
  <2>1. [t EXCEPT !.cursor = IF ui.editing = "Idle" THEN @ ELSE 4] = [t EXCEPT !.cursor = c]
    BY <1>3 DEF IsPanel
  <2> HIDE DEF v, t, shown, which, c
  <2>2. v = CASE Handlers = "KnobAssigner"   -> t
              [] Handlers = "SequenceEditor" -> [t EXCEPT !.cursor = c]
              [] OTHER -> IF which \in {More, Back} THEN shown ELSE IF which = None THEN ui ELSE t
    BY <1>2, <2>1
  <2> DEFINE w == [t EXCEPT !.cursor = c]
             other == IF which \in {More, Back} THEN shown ELSE IF which = None THEN ui ELSE t
  <2>3. v = CASE Handlers = "KnobAssigner" -> t [] Handlers = "SequenceEditor" -> w [] OTHER -> other
    BY <2>2
  <2>4. other = t \/ other = ui \/ (other = shown /\ which \in {More, Back})
    OBVIOUS
  <2> HIDE DEF w, other
  <2>5. v = t \/ v = w \/ v = other
    BY <2>3
  <2> QED
    BY <2>4, <2>5 DEF w
<1>5. CASE v = t \/ v = ui \/ v = [t EXCEPT !.cursor = c]
  <2>1. c = ui.cursor \/ c \in 0..7
    BY <1>3
  <2> HIDE DEF t, c, v
  <2>2. /\ IsPanel(v) /\ v.page = ui.page /\ v.snapped = ui.snapped /\ v.written = ui.written
        /\ v.cursor = ui.cursor \/ v.cursor \in 0..7
    BY <1>1, <1>3, <1>5, <2>1 DEF IsPanel
  <2> QED
    BY <1>1, <2>2, StayKeeps DEF v
<1>6. CASE v = shown /\ which \in {More, Back}
  <2>1. ui.cursor \in 0..7 /\ pages[ui.page].data[ui.cursor + 1] \in {More, Back}
    BY <1>6 DEF Controls, More, Back, None
  <2>2. pages[ui.page].next \in SettingsPages /\ pages[ui.page].next \in PageNames
    BY <1>1, <2>1, MoreIs
  <2> QED
    BY <1>1, <1>6, <2>2, ShowPageKeeps
<1> QED
  BY <1>4, <1>5, <1>6

-----------------------------------------------------------------------------
(* The pots.                                                               *)

LEMMA DistanceIsSymmetric ==
  ASSUME NEW p, NEW a \in 0..255, NEW b \in 0..255
  PROVE  Distance(p, a, b) = Distance(p, b, a)
<1>1. Number(p, a) \in Int /\ Number(p, b) \in Int
  BY SignedIs
<1> QED
  BY <1>1 DEF Distance

\* What a byte elsewhere than on the panel is for does not depend on it.
LEMMA AimStays ==
  ASSUME ui'.page = ui.page, assigned' = assigned, \A c : c[1] = "UI" => At(c)' = At(c), NEW which
  PROVE  Aim(which)' = Aim(which)
<1>1. \A b : At(Panel(b))' = At(Panel(b))
  BY DEF Panel
<1>2. active_part' = active_part
  BY <1>1 DEF active_part
<1>3. \A p : Selected(p)' = Selected(p)
  BY <1>1 DEF Selected
<1> QED
  BY <1>2, <1>3 DEF Aim

\* A pot edits with its aim, if it has taken hold.
LEMMA PotKeeps ==
  ASSUME PagesIInv, UNCHANGED <<assigned, kept, strayed, player>>, Handlers \in SnappingHandlers,
         NEW which \in 0..7, NEW value \in 0..127, Aim(which).parameter # None, Snapped(which, value),
         Store(CellOf(Aim(which)), Scale(parameter[Aim(which).parameter], value)),
         IsPanel(ui'), ui'.page = ui.page, ui'.cursor = ui.cursor \/ ui'.cursor \in 0..7,
         ui'.snapped = IF snap THEN ui.snapped \cup {which} ELSE ui.snapped, ui'.written = ui.written \cup {which}
  PROVE  PagesIInv' /\ TakesHold
<1> DEFINE a == Aim(which)
           p == parameter[a.parameter]
           cell == CellOf(a)
           byte == Scale(p, value)
<1>1. /\ AimOK(a)
      /\ ui.page \notin SettingsPages => p.level # "System"
  BY AimIsOK DEF PagesIInv, PanelOK, IsPanel
<1>2. a.parameter \in Ids /\ a.instance \in 0..(p.instances - 1)
  BY <1>1 DEF AimOK
<1>3. LimitsInOrder(p)
  BY <1>2, RowsAreWellPlaced DEF WellPlaced
<1>4. Holds(p, byte)
  BY <1>3, ScaleHolds
<1>5. At(cell) \in 0..255
  BY <1>2, ByteHolds DEF PagesIInv
<1>6. EditsOK' /\ (p.level # "System" => SettingsStay)
  BY <1>2, <1>4, EditKeeps DEF PagesIInv
<1>7. SettingsAreKept'
  <2>1. CASE ui.page \in SettingsPages
    BY <2>1, SettingsKeptOnTheirPages
  <2>2. CASE ui.page \notin SettingsPages
    BY <1>1, <1>6, <2>2, SettingsKeptByStay DEF PagesIInv
  <2> QED
    BY <2>1, <2>2
<1>8. ui.snapped \subseteq ui.written
  BY DEF PagesIInv, PanelOK, SnappedOK, Handlers
<1>9. PanelOK(ui')
  BY <1>8, SamePage DEF PagesIInv
<1>10. TakesHold
  <2> SUFFICES ASSUME NEW pot \in ui'.written \ ui.written, snap, parameter[Aim(pot).parameter].level # "UI"
               PROVE  Distance(parameter[Aim(pot).parameter], At(CellOf(Aim(pot)))', At(CellOf(Aim(pot))))
                        <= Near(parameter[Aim(pot).parameter])
    BY DEF TakesHold
  <2>1. pot = which /\ which \notin ui.snapped
    BY <1>8
  <2>2. is_snapped(p, At(cell), value)
    BY <2>1 DEF Snapped
  <2>3. Distance(p, At(cell), byte) <= Near(p)
    BY <2>2 DEF is_snapped
  <2>4. PICK k : k = cell
    OBVIOUS
  <2>5. owner[k[1]][k[3]] = a.parameter /\ k[1] = Space(p)
    <3>1. a.parameter \in Ids /\ a.instance \in 0..(parameter[a.parameter].instances - 1) /\ k = CellOf(a)
      BY <1>2, <2>4
    <3> HIDE DEF a
    <3>2. /\ owner[CellOf(a)[1]][CellOf(a)[3]] = a.parameter
          /\ CellOf(a) = <<Space(p), IF Space(p) = "Part" THEN a.part ELSE 0, p.offset + p.stride * a.instance>>
      BY <3>1, CellIs
    <3>3. CellOf(a)[1] = Space(p)
      BY <3>2
    <3> QED
      BY <3>1, <3>2, <3>3
  <2>6. k[1] # "UI"
    BY <2>1, <2>5 DEF Space
  <2>7. byte \in 0..255 /\ At(cell) \in 0..255
    BY <1>4, <1>5 DEF Holds
  <2>8. At(k)' = byte /\ \A c : c # k => At(c)' = At(c)
    <3>1. owner[k[1]][k[3]] \in Ids /\ Holds(parameter[owner[k[1]][k[3]]], byte)
      BY <1>2, <1>4, <2>5
    <3>2. Store(k, byte)
      BY <2>4
    <3> HIDE DEF byte
    <3> QED
      BY <3>1, <3>2, <2>7, StoreKeeps DEF PagesIInv
  <2>9. Aim(which)' = a
    <3>1. \A c : c[1] = "UI" => At(c)' = At(c)
      BY <2>6, <2>8
    <3> QED
      BY <3>1, AimStays
  <2>10. CellOf(Aim(which))' = k
    BY <2>4, <2>9 DEF CellOf
  <2>11. At(CellOf(Aim(which)))' = At(k)'
    BY <2>10 DEF At, LoadedByte
  <2>12. Distance(p, byte, At(cell)) = Distance(p, At(cell), byte)
    BY <2>7, DistanceIsSymmetric
  <2> QED
    BY <2>1, <2>3, <2>8, <2>11, <2>12
<1> QED
  BY <1>6, <1>7, <1>9, <1>10 DEF PagesIInv, AssignedOK

\* With what it leaves on the panel, the cursor where it was if the pot is that of the part.
LEMMA PotLeaves ==
  ASSUME IsPanel(ui), NEW which \in 0..7
  PROVE  LET w == [ui EXCEPT !.snapped = IF snap THEN @ \cup {which} ELSE @,
                             !.cursor = which, !.editing = "Pot", !.written = @ \cup {which}]
         IN  /\ IsPanel(w) /\ w.page = ui.page /\ w.cursor = which
             /\ w.snapped = (IF snap THEN ui.snapped \cup {which} ELSE ui.snapped)
             /\ w.written = ui.written \cup {which}
<1> DEFINE s == IF snap THEN ui.snapped \cup {which} ELSE ui.snapped
           r == ui.written \cup {which}
           t1 == [ui EXCEPT !.snapped = s]
           t2 == [t1 EXCEPT !.cursor = which]
           t3 == [t2 EXCEPT !.editing = "Pot"]
           w == [ui EXCEPT !.snapped = IF snap THEN @ \cup {which} ELSE @,
                           !.cursor = which, !.editing = "Pot", !.written = @ \cup {which}]
<1>1. w = [t3 EXCEPT !.written = r]
  BY DEF IsPanel
<1>2. t1 = [ui EXCEPT !.snapped = s] /\ t2 = [t1 EXCEPT !.cursor = which] /\ t3 = [t2 EXCEPT !.editing = "Pot"]
  OBVIOUS
<1> HIDE DEF w, t1, t2, t3, s, r
<1>3. IsPanel(t1) /\ t1.page = ui.page /\ t1.snapped = s /\ t1.written = ui.written
  BY <1>2 DEF IsPanel
<1>4. IsPanel(t2) /\ t2.page = ui.page /\ t2.cursor = which /\ t2.snapped = s /\ t2.written = ui.written
  BY <1>2, <1>3 DEF IsPanel
<1>5. IsPanel(t3) /\ t3.page = ui.page /\ t3.cursor = which /\ t3.snapped = s /\ t3.written = ui.written
  BY <1>2, <1>4 DEF IsPanel
<1>6. IsPanel(w) /\ w.page = ui.page /\ w.cursor = which /\ w.snapped = s /\ w.written = r
  BY <1>1, <1>5 DEF IsPanel
<1> QED
  BY <1>6 DEF w, s, r

LEMMA IdlePanel ==
  ASSUME NEW u, IsPanel(u)
  PROVE  /\ LET v == [u EXCEPT !.editing = "Idle"]
            IN  IsPanel(v) /\ v.page = u.page /\ v.cursor = u.cursor /\ v.snapped = u.snapped /\ v.written = u.written
         /\ LET v == OnPotOfVoiceAssigner(u)
            IN  IsPanel(v) /\ v.page = u.page /\ v.cursor = ui.cursor /\ v.snapped = u.snapped /\ v.written = u.written
<1> DEFINE c == ui.cursor
           v1 == [u EXCEPT !.editing = "Idle"]
           t == [u EXCEPT !.cursor = c]
           v2 == OnPotOfVoiceAssigner(u)
<1>1. v2 = [t EXCEPT !.editing = "Idle"] /\ t = [u EXCEPT !.cursor = c] /\ v1 = [u EXCEPT !.editing = "Idle"]
  BY DEF OnPotOfVoiceAssigner
<1> HIDE DEF c, v1, t, v2
<1>2. IsPanel(v1) /\ v1.page = u.page /\ v1.cursor = u.cursor /\ v1.snapped = u.snapped /\ v1.written = u.written
  BY <1>1 DEF IsPanel
<1>3. IsPanel(t) /\ t.page = u.page /\ t.cursor = c /\ t.snapped = u.snapped /\ t.written = u.written
  BY <1>1 DEF IsPanel
<1>4. IsPanel(v2) /\ v2.page = u.page /\ v2.cursor = c /\ v2.snapped = u.snapped /\ v2.written = u.written
  BY <1>1, <1>3 DEF IsPanel
<1> QED
  BY <1>2, <1>4 DEF c, v1, v2

LEMMA PotOnControlKeeps ==
  ASSUME PagesIInv, NEW pot \in player.pots, PotOnControl(pot[1], pot[2])
  PROVE  PagesIInv' /\ TakesHold
<1> DEFINE which == pot[1]
           value == pot[2]
           w == [ui EXCEPT !.snapped = IF snap THEN @ \cup {which} ELSE @,
                           !.cursor = which, !.editing = "Pot", !.written = @ \cup {which}]
           v == ui'
<1>1. which \in 0..7 /\ value \in 0..127
  BY PlayerIs DEF PagesIInv, Player, Controls
<1>2. UNCHANGED <<assigned, kept, strayed, player>> /\ Handlers \in SnappingHandlers /\ IsPanel(ui)
  BY DEF PagesIInv, PotOnControl, Count, Counted, PanelOK
<1>3. CASE Aim(which).parameter = None \/ ~Snapped(which, value)
  <2>1. edited' = edited /\ (v = ui \/ v = OnPotOfVoiceAssigner(ui))
    BY <1>3 DEF PotOnControl, PotEdits
  <2>2. LET u == OnPotOfVoiceAssigner(ui)
        IN  IsPanel(u) /\ u.page = ui.page /\ u.cursor = ui.cursor /\ u.snapped = ui.snapped /\ u.written = ui.written
    BY <1>2, IdlePanel
  <2> HIDE DEF v
  <2>3. IsPanel(v) /\ v.page = ui.page /\ v.cursor = ui.cursor /\ v.snapped = ui.snapped /\ v.written = ui.written
    BY <1>2, <2>1, <2>2
  <2> QED
    BY <1>2, <2>1, <2>3, StayKeeps DEF v
<1>4. CASE Aim(which).parameter # None /\ Snapped(which, value)
  <2>1. /\ Store(CellOf(Aim(which)), Scale(parameter[Aim(which).parameter], value))
        /\ v = w \/ v = OnPotOfVoiceAssigner(w)
    BY <1>4 DEF PotOnControl, PotEdits, Edit
  <2>2. /\ IsPanel(w) /\ w.page = ui.page /\ w.cursor = which
        /\ w.snapped = (IF snap THEN ui.snapped \cup {which} ELSE ui.snapped)
        /\ w.written = ui.written \cup {which}
    BY <1>1, <1>2, PotLeaves
  <2> HIDE DEF w, v
  <2>3. LET u == OnPotOfVoiceAssigner(w)
        IN  IsPanel(u) /\ u.page = w.page /\ u.cursor = ui.cursor /\ u.snapped = w.snapped /\ u.written = w.written
    BY <2>2, IdlePanel
  <2>4. /\ IsPanel(v) /\ v.page = ui.page
        /\ v.snapped = (IF snap THEN ui.snapped \cup {which} ELSE ui.snapped)
        /\ v.written = ui.written \cup {which}
    BY <2>1, <2>2, <2>3
  <2>5. v.page = ui.page /\ (v.cursor = ui.cursor \/ v.cursor \in 0..7)
    BY <1>1, <2>1, <2>2, <2>3
  <2> QED
    BY <1>1, <1>2, <1>4, <2>1, <2>4, <2>5, PotKeeps DEF v
<1> QED
  BY <1>3, <1>4

LEMMA NoteAsPotKeeps ==
  ASSUME PagesIInv, NEW note \in player.notes, NoteAsPot(note)
  PROVE  PagesIInv' /\ TakesHold
<1> DEFINE which == ui.cursor
           w == [ui EXCEPT !.snapped = IF snap THEN @ \cup {which} ELSE @,
                           !.cursor = which, !.editing = "Pot", !.written = @ \cup {which}]
           v == ui'
<1>1. which \in 0..7 /\ note \in 0..127
  BY PlayerIs DEF PagesIInv, Player, NoteAsPot
<1>2. UNCHANGED <<assigned, kept, strayed, player>> /\ Handlers \in SnappingHandlers /\ IsPanel(ui)
  BY DEF PagesIInv, NoteAsPot, Count, Counted, PanelOK, SnappingHandlers
<1>3. CASE Aim(which).parameter = None \/ ~Snapped(which, note)
  <2>1. edited' = edited /\ v = [ui EXCEPT !.editing = "Idle"]
    BY <1>3 DEF NoteAsPot, PotEdits
  <2> HIDE DEF v
  <2>2. IsPanel(v) /\ v.page = ui.page /\ v.cursor = ui.cursor /\ v.snapped = ui.snapped /\ v.written = ui.written
    BY <1>2, <2>1, IdlePanel
  <2> QED
    BY <1>2, <2>1, <2>2, StayKeeps DEF v
<1>4. CASE Aim(which).parameter # None /\ Snapped(which, note)
  <2>1. /\ Store(CellOf(Aim(which)), Scale(parameter[Aim(which).parameter], note))
        /\ v = [w EXCEPT !.editing = "Idle"]
    BY <1>4 DEF NoteAsPot, PotEdits, Edit
  <2>2. /\ IsPanel(w) /\ w.page = ui.page /\ w.cursor = which
        /\ w.snapped = (IF snap THEN ui.snapped \cup {which} ELSE ui.snapped)
        /\ w.written = ui.written \cup {which}
    BY <1>1, <1>2, PotLeaves
  <2> HIDE DEF w, v
  <2>3. LET u == [w EXCEPT !.editing = "Idle"]
        IN  IsPanel(u) /\ u.page = w.page /\ u.cursor = w.cursor /\ u.snapped = w.snapped /\ u.written = w.written
    BY <2>2, IdlePanel
  <2>4. /\ IsPanel(v) /\ v.page = ui.page /\ v.cursor = ui.cursor
        /\ v.snapped = (IF snap THEN ui.snapped \cup {which} ELSE ui.snapped)
        /\ v.written = ui.written \cup {which}
    BY <2>1, <2>2, <2>3
  <2> QED
    BY <1>1, <1>2, <1>4, <2>1, <2>4, PotKeeps DEF v
<1> QED
  BY <1>3, <1>4

LEMMA PotOnMoreKeeps ==
  ASSUME PagesIInv, NEW pot \in player.pots, PotOnMore(pot[1], pot[2])
  PROVE  PagesIInv' /\ TakesHold
<1>1. pot[1] \in 0..7
  BY PlayerIs DEF PagesIInv, Player, Controls
<1>2. /\ UNCHANGED <<edited, assigned, kept, strayed, player>> /\ ui.page \in PageNames
      /\ ui' = ShowPage(ui, pages[ui.page].next) /\ pages[ui.page].data[pot[1] + 1] \in {More, Back}
  BY DEF PagesIInv, PotOnMore, Count, Counted, PanelOK, IsPanel
<1>3. pages[ui.page].next \in SettingsPages /\ pages[ui.page].next \in PageNames
  BY <1>1, <1>2, MoreIs
<1> QED
  BY <1>2, <1>3, ShowPageKeeps

LEMMA PotOnStepsKeeps ==
  ASSUME PagesIInv, NEW pot \in player.pots, PotOnSteps(pot[1], pot[2])
  PROVE  PagesIInv' /\ TakesHold
<1> DEFINE c == pot[1]
           v == ui'
<1>1. c \in 0..7
  BY PlayerIs DEF PagesIInv, Player, Controls
<1>2. UNCHANGED <<edited, assigned, kept, strayed, player>> /\ IsPanel(ui) /\ v = [ui EXCEPT !.cursor = c]
  BY DEF PagesIInv, PotOnSteps, Count, Counted, PanelOK
<1> HIDE DEF c, v
<1>3. IsPanel(v) /\ v.page = ui.page /\ v.cursor = c /\ v.snapped = ui.snapped /\ v.written = ui.written
  BY <1>2 DEF IsPanel
<1> QED
  BY <1>1, <1>2, <1>3, StayKeeps DEF v

LEMMA NoteAsStepKeeps ==
  ASSUME PagesIInv, NEW note \in player.notes, NoteAsStep(note)
  PROVE  PagesIInv' /\ TakesHold
<1> DEFINE step == IF ui.cursor >= 4 THEN ui.step ELSE ui.step - 1
           length == At(<<"Part", active_part, 126>>)
           s == ((step % length) + 1) % length
           v == ui'
<1>1. UNCHANGED <<edited, assigned, kept, strayed, player>> /\ IsPanel(ui) /\ v = [ui EXCEPT !.step = s]
  BY DEF PagesIInv, NoteAsStep, Count, Counted, PanelOK
<1> HIDE DEF s, v
<1>2. IsPanel(v) /\ v.page = ui.page /\ v.cursor = ui.cursor /\ v.snapped = ui.snapped /\ v.written = ui.written
  BY <1>1 DEF IsPanel
<1> QED
  BY <1>1, <1>2, StayKeeps DEF v

LEMMA OnIdleKeeps ==
  ASSUME PagesIInv, OnIdle
  PROVE  PagesIInv' /\ TakesHold
<1> DEFINE v == ui'
<1>1. UNCHANGED <<edited, assigned, kept, strayed, player>> /\ IsPanel(ui) /\ v = [ui EXCEPT !.editing = "Idle"]
  BY DEF PagesIInv, OnIdle, Count, Counted, PanelOK
<1> HIDE DEF v
<1>2. IsPanel(v) /\ v.page = ui.page /\ v.cursor = ui.cursor /\ v.snapped = ui.snapped /\ v.written = ui.written
  BY <1>1, IdlePanel
<1> QED
  BY <1>1, <1>2, StayKeeps DEF v

LEMMA PotOnAssignmentKeeps ==
  ASSUME PagesIInv, NEW pot \in player.pots, PotOnAssignment(pot[1], pot[2])
  PROVE  PagesIInv' /\ TakesHold
<1> DEFINE which == pot[1]
           value == pot[2]
           knob == IF which \in {0, 4} THEN value \div 16 ELSE ui.knob
           part == (2 * value * kNumParts) \div 256
           v == ui'
<1>1. which \in 0..7 /\ value \in 0..127
  BY PlayerIs DEF PagesIInv, Player, Controls
<1>2. UNCHANGED <<edited, kept, strayed, player>> /\ IsPanel(ui) /\ AssignedOK /\ ui.knob \in 0..7
  BY DEF PagesIInv, PotOnAssignment, Count, Counted, PanelOK, IsPanel
<1>3. \/ assigned' = assigned
      \/ assigned' = [assigned EXCEPT ![ui.knob].part = part]
      \/ \E to \in Assignable : Assign(ui.knob, to)
  BY DEF PotOnAssignment
<1>4. part \in 0..5
  <2> HIDE DEF value
  <2>1. 2 * value \in 0..255 /\ 6 * (2 * value) = 2 * value * 6
    BY <1>1
  <2>2. (6 * (2 * value)) \div 256 \in 0..(6 - 1)
    BY <2>1, PartOfRange
  <2> QED
    BY <2>1, <2>2 DEF kNumParts
<1>5. AssignedOK'
  <2> HIDE DEF part
  <2>1. CASE assigned' = assigned
    BY <1>2, <2>1 DEF AssignedOK
  <2>2. CASE assigned' = [assigned EXCEPT ![ui.knob].part = part]
    BY <1>2, <1>4, <2>2, MoveKnobKeeps
  <2>3. CASE \E to \in Assignable : Assign(ui.knob, to)
    BY <1>2, <2>3, AssignKeeps
  <2> QED
    BY <1>3, <2>1, <2>2, <2>3
<1>6. knob \in 0..7
  <2> HIDE DEF value, which
  <2>1. value \div 16 \in 0..7
    BY <1>1
  <2> QED
    BY <1>2, <2>1
<1>7. IsPanel(v) /\ v.page = ui.page /\ v.cursor = which /\ v.snapped = ui.snapped /\ v.written = ui.written
  <2> DEFINE t1 == [ui EXCEPT !.cursor = which]
             t2 == [t1 EXCEPT !.editing = "Pot"]
  <2>1. v = [ui EXCEPT !.cursor = which, !.editing = "Pot", !.knob = IF which \in {0, 4} THEN value \div 16 ELSE @]
    BY DEF PotOnAssignment
  <2>2. t2.knob = ui.knob
    BY <1>2 DEF IsPanel
  <2>3. v = [t2 EXCEPT !.knob = knob] /\ t1 = [ui EXCEPT !.cursor = which] /\ t2 = [t1 EXCEPT !.editing = "Pot"]
    BY <2>1, <2>2
  <2> HIDE DEF t1, t2, v, knob, which
  <2>4. IsPanel(t1) /\ t1.page = ui.page /\ t1.cursor = which /\ t1.snapped = ui.snapped /\ t1.written = ui.written
    BY <1>2, <2>3 DEF IsPanel
  <2>5. IsPanel(t2) /\ t2.page = ui.page /\ t2.cursor = which /\ t2.snapped = ui.snapped /\ t2.written = ui.written
    BY <2>3, <2>4 DEF IsPanel
  <2> QED
    BY <1>6, <2>3, <2>5 DEF IsPanel
<1>8. EditsOK' /\ SettingsStay
  BY <1>2, NothingEdited DEF PagesIInv
<1> HIDE DEF v
<1>9. PanelOK(v)
  BY <1>1, <1>7, SamePage DEF PagesIInv
<1>10. SettingsAreKept'
  BY <1>2, <1>7, <1>8, SettingsKeptByStay DEF PagesIInv, v
<1>11. TakesHold
  BY <1>7 DEF TakesHold, v
<1> QED
  BY <1>2, <1>5, <1>8, <1>9, <1>10, <1>11 DEF PagesIInv, v

-----------------------------------------------------------------------------
(* The switches.                                                           *)

\* Whichever way the pages of the settings are left by a switch, they are saved.
LEMMA SettingsSaved ==
  ASSUME SettingsAreKept, Save, SettingsStay
  PROVE  SettingsAreKept'
<1>1. kept' = settings
  BY DEF Save, Saves, SettingsAreKept
<1>2. settings' = settings
  BY DEF settings, SettingsStay, System
<1> QED
  BY <1>1, <1>2 DEF SettingsAreKept

LEMMA PressKeeps ==
  ASSUME PagesIInv, NEW key \in player.keys, Press(key)
  PROVE  PagesIInv' /\ TakesHold
<1> DEFINE next == pages[ui.page].next
           id == IF next = "INCREMENT_ENV" THEN 24 ELSE 34
           a == [part |-> active_part, parameter |-> id, instance |-> 0]
           cell == CellOf(a)
           last == At(cell) >= parameter[id].max
           byte == IF last THEN 0 ELSE Increment(parameter[id], At(cell), 1)
<1>1. key \in 0..7
  BY PlayerIs DEF PagesIInv, Player, Controls
<1>2. /\ UNCHANGED <<assigned, strayed, player>> /\ Save /\ PanelOK(ui) /\ IsPanel(ui)
      /\ ui.page \in PageNames /\ ui.recent \in [1..9 -> PageNames]
  BY DEF PagesIInv, Press, Count, Counted, PanelOK, IsPanel
<1>3. \/ edited' = edited /\ \E pg \in PageNames : ui' = ShowPage(ui, pg)
      \/ Store(cell, byte) /\ (ui' = ui \/ ui' = ShowPage(ui, "VoiceLfo"))
  <2>1. CASE pages[ui.page].group = key
    <3>1. PressSame(key)
      BY <2>1 DEF Press
    <3>2. CASE next \in DOMAIN pages
      BY <3>1, <3>2 DEF PressSame, PageNames
    <3>3. CASE next \notin DOMAIN pages
      BY <3>1, <3>3 DEF PressSame
    <3> QED
      BY <3>2, <3>3
  <2>2. CASE pages[ui.page].group # key
    <3>1. edited' = edited /\ ui' = ShowPage(ui, ui.recent[key + 1])
      BY <2>2 DEF Press
    <3>2. key + 1 \in 1..9
      BY <1>1
    <3> QED
      BY <1>2, <3>1, <3>2
  <2> QED
    BY <2>1, <2>2
<1>4. PanelOK(ui') /\ ui'.written \subseteq ui.written
  <2>1. "VoiceLfo" \in PageNames
    BY PagesAre
  <2>2. ui' = ui \/ \E pg \in PageNames : ui' = ShowPage(ui, pg)
    BY <1>3, <2>1
  <2>3. ASSUME NEW pg \in PageNames, ui' = ShowPage(ui, pg)
        PROVE  PanelOK(ui') /\ ui'.written = {}
    BY <1>2, <2>3, ShowPageIs
  <2>4. ASSUME ui' = ui
        PROVE  PanelOK(ui') /\ ui'.written = ui.written
    BY <1>2, <2>4
  <2> QED
    BY <2>2, <2>3, <2>4
<1>5. EditsOK' /\ SettingsStay
  <2>1. CASE edited' = edited
    BY <1>2, <2>1, NothingEdited DEF PagesIInv
  <2>2. CASE Store(cell, byte)
    <3>1. id \in Ids /\ a.parameter = id /\ a.instance = 0
      BY IdsAre
    <3>2. /\ parameter[24] = Single("UI", 0, "Number", 0, 2, None)
          /\ parameter[34] = Single("UI", 1, "Number", 0, 13, None)
      BY EnvelopeParameters, ModulationParameters DEF ActiveEnvLfo, ActiveModulation
    <3>3. /\ parameter[id].level = "UI" /\ parameter[id].unit = "Number" /\ parameter[id].min = 0
          /\ parameter[id].max \in 0..255 /\ parameter[id].instances = 1
      BY <3>2 DEF Single
    <3>4. 0 \in 0..(parameter[id].instances - 1)
      BY <3>3
    <3> HIDE DEF id
    <3>5. Holds(parameter[id], At(cell))
      <4>1. Space(parameter[id]) = "UI"
        BY <3>3 DEF Space
      <4> HIDE DEF a
      <4> QED
        BY <3>1, <3>4, <4>1, ByteHolds DEF PagesIInv
    <3>6. LimitsInOrder(parameter[id])
      BY <3>1, RowsAreWellPlaced DEF WellPlaced
    <3>7. Holds(parameter[id], Increment(parameter[id], At(cell), 1))
      BY <3>5, <3>6, IncrementHolds
    <3>8. Holds(parameter[id], 0)
      <4>1. 0 \in 0..255 /\ parameter[id].unit # "Signed"
        BY <3>3
      <4>2. Number(parameter[id], 0) = 0 /\ Number(parameter[id], parameter[id].max) = parameter[id].max
        BY <3>3, <4>1, SignedIs
      <4> QED
        BY <3>3, <4>1, <4>2 DEF Holds, IsLegal
    <3>9. Holds(parameter[id], byte)
      <4> HIDE DEF last, cell
      <4> QED
        BY <3>7, <3>8
    <3> HIDE DEF byte, a
    <3>10. a.parameter \in Ids /\ a.instance \in 0..(parameter[a.parameter].instances - 1)
           /\ parameter[a.parameter].level # "System" /\ Holds(parameter[a.parameter], byte)
      BY <3>1, <3>3, <3>4, <3>9
    <3> QED
      BY <1>2, <2>2, <3>10, EditKeeps DEF PagesIInv
  <2> QED
    BY <1>3, <2>1, <2>2
<1>6. SettingsAreKept'
  BY <1>2, <1>5, SettingsSaved DEF PagesIInv
<1>7. TakesHold
  BY <1>4 DEF TakesHold
<1> QED
  BY <1>2, <1>4, <1>5, <1>6, <1>7 DEF PagesIInv, AssignedOK

LEMMA LeaveKeeps ==
  ASSUME PagesIInv, LeaveLibrary \/ LeaveVersionsOrInfo
  PROVE  PagesIInv' /\ TakesHold
<1>1. /\ UNCHANGED <<edited, assigned, kept, strayed, player>> /\ ui.page \in {"Library", "VersionManager", "OsInfo"}
      /\ ui.previous \in PageNames
  BY DEF PagesIInv, LeaveLibrary, LeaveVersionsOrInfo, Count, Counted, PanelOK, IsPanel
<1>2. {ui.previous, "VersionManager", "SystemSettings", "OsInfo"} \subseteq PageNames
  BY <1>1, PagesAre
<1>3. \E pg \in PageNames : ui' = ShowPage(ui, pg)
  BY <1>1, <1>2 DEF LeaveLibrary, LeaveVersionsOrInfo
<1>4. ui.page \notin SettingsPages
  BY <1>1 DEF SettingsPages
<1> QED
  BY <1>1, <1>3, <1>4, ShowPageKeeps

-----------------------------------------------------------------------------
(* Control changes and data entries, for the parts that listen.            *)

LEMMA ReceivedKeeps ==
  ASSUME PagesIInv, UNCHANGED <<ui, assigned, kept, player>>, NEW bytes, StoreInParts(bytes),
         strayed \subseteq strayed', \A c \in strayed' : c[1] = "Part",
         \A c \in DOMAIN bytes :
           /\ c[1] = "Part" /\ bytes[c] \in 0..255
           /\ c \in strayed' \/ (owner[c[1]][c[3]] \in Ids /\ Holds(parameter[owner[c[1]][c[3]]], bytes[c]))
  PROVE  PagesIInv' /\ TakesHold
<1>1. EditsOK' /\ \A c : c[1] # "Part" => At(c)' = At(c)
  BY StoreInPartsKeeps DEF PagesIInv
<1>2. SettingsStay
  BY <1>1 DEF SettingsStay
<1>3. AssignedOK'
  BY DEF PagesIInv, AssignedOK
<1> QED
  BY <1>1, <1>2, <1>3, SamePanelKeeps

LEMMA ListeningIs ==
  ASSUME NEW address, NEW c \in Listening(address)
  PROVE  c[1] = "Part" /\ c[3] = address /\ c = <<"Part", c[2], address>>
BY DEF Listening

\* The byte of an instance, or one that strays behind the last; the dummy is the byte zero.
LEMMA ChangeIsAllowed ==
  ASSUME NEW cc \in 0..119, NEW value \in 0..127, NEW map, NEW id \in ControlChangeToParameterId(cc, map) \ {None}
  PROVE  LET p       == Definition(id)
             address == get_address(p, InstanceOf(p, cc))
         IN  /\ Scale(p, value) \in 0..255
             /\ \/ owner["Part"][address] \in Ids /\ Holds(parameter[owner["Part"][address]], Scale(p, value))
                \/ map = Launchkey /\ p.stride > 0 /\ InstanceOf(p, cc) = p.instances
<1> DEFINE p == Definition(id)
           address == get_address(p, InstanceOf(p, cc))
<1>1. CASE id = Dummy
  <2>1. p = [level |-> "Part", offset |-> 0, unit |-> "Number", min |-> 0, max |-> 255, cc |-> 0,
             instances |-> 0, stride |-> 0, indexedBy |-> 0]
    BY <1>1 DEF Definition, dummy_parameter, Parameter, Byte
  <2>2. /\ p.offset = 0 /\ p.unit = "Number" /\ p.min = 0 /\ p.max = 255 /\ p.instances = 0 /\ p.stride = 0
    BY <2>1
  <2> HIDE DEF p
  <2>3. InstanceOf(p, cc) = 0
    BY <2>2, InstanceOfIs
  <2>4. address = 0
    BY <2>2, <2>3 DEF get_address, Byte
  <2>5. Scale(p, value) = 0
    <3>1. Byte(p.max - p.min + 1) = 0
      BY <2>2 DEF Byte
    <3>2. Byte(2 * value) \in 0..255
      BY DEF Byte
    <3>3. Byte((0 * Byte(2 * value)) \div 256 + p.min) = 0
      BY <2>2, <3>2 DEF Byte
    <3> QED
      BY <2>2, <3>1, <3>3 DEF Scale
  <2>6. parameter[0] = Single("Patch", 0, "Number", 0, 42, 16) /\ 0 \in Ids
    BY OscillatorParameters, IdsAre
  <2>7. owner["Part"][0] = 0
    <3>1. 0 \in 0..(parameter[0].instances - 1) /\ Space(parameter[0]) = "Part" /\ get_address(parameter[0], 0) = 0
      BY <2>6 DEF Single, Space, get_address, Byte
    <3> QED
      BY <2>6, <3>1, OwnerOfInstance
  <2>8. Holds(parameter[0], 0)
    BY <2>6, SignedIs DEF Single, Holds, IsLegal
  <2>9. Scale(p, value) \in 0..255 /\ owner["Part"][address] \in Ids
        /\ Holds(parameter[owner["Part"][address]], Scale(p, value))
    <3> HIDE DEF address
    <3> QED
      BY <2>4, <2>5, <2>6, <2>7, <2>8
  <2> QED
    BY ONLY <2>9 DEF p
<1>2. CASE id # Dummy
  <2>1. p = parameter[id]
    BY <1>2 DEF Definition
  <2>2. /\ id \in Ids /\ Space(p) = "Part"
        /\ \/ InstanceOf(p, cc) \in 0..(p.instances - 1)
           \/ /\ map = Launchkey /\ InstanceOf(p, cc) = p.instances
              /\ p.stride > 0 \/ (p.stride = 0 /\ p.instances = 1)
    BY <1>2, <2>1, ControlChangeReaches
  <2>3. Holds(p, Scale(p, value))
    <3>1. LimitsInOrder(p)
      BY <2>1, <2>2, RowsAreWellPlaced DEF WellPlaced
    <3> HIDE DEF p
    <3> QED
      BY <3>1, ScaleHolds
  <2>4. Scale(p, value) \in 0..255
    BY <2>3 DEF Holds
  <2> HIDE DEF p
  <2>5. CASE InstanceOf(p, cc) \in 0..(p.instances - 1)
    <3>1. owner["Part"][address] = id
      BY <2>1, <2>2, <2>5, OwnerOfInstance
    <3> QED
      BY <2>1, <2>2, <2>3, <2>4, <3>1 DEF p
  <2>6. CASE p.stride = 0 /\ p.instances = 1 /\ InstanceOf(p, cc) = p.instances
    <3>1. get_address(p, 1) = get_address(p, 0) /\ 0 \in 0..(p.instances - 1)
      BY <2>6 DEF get_address
    <3>2. owner["Part"][address] = id
      BY <2>1, <2>2, <2>6, <3>1, OwnerOfInstance
    <3> QED
      BY <2>1, <2>2, <2>3, <2>4, <3>2 DEF p
  <2> QED
    BY <2>2, <2>4, <2>5, <2>6 DEF p
<1> QED
  BY <1>1, <1>2

LEMMA ControlChangeKeeps ==
  ASSUME PagesIInv, NEW change \in player.changes, ControlChange(change[1], change[2])
  PROVE  PagesIInv' /\ TakesHold
<1> DEFINE cc == change[1]
           value == change[2]
           map == At(System(7))
<1>1. cc \in 0..119 /\ value \in 0..127
  BY PlayerIs DEF PagesIInv, Player
<1>2. UNCHANGED <<ui, assigned, kept, player>>
  BY DEF ControlChange, Counted
<1>3. PICK id \in ControlChangeToParameterId(cc, map) \ {None} :
        LET p     == Definition(id)
            cells == Listening(get_address(p, InstanceOf(p, cc)))
        IN  /\ StoreInParts([c \in cells |-> Scale(p, value)])
            /\ strayed' = IF Overruns(p, cc) THEN strayed \cup cells ELSE strayed
  BY DEF ControlChange
<1> DEFINE p == Definition(id)
           address == get_address(p, InstanceOf(p, cc))
           cells == Listening(address)
           byte == Scale(p, value)
           bytes == [c \in cells |-> byte]
<1>4. StoreInParts(bytes) /\ strayed' = IF Overruns(p, cc) THEN strayed \cup cells ELSE strayed
  BY <1>3
<1>5. /\ byte \in 0..255
      /\ \/ owner["Part"][address] \in Ids /\ Holds(parameter[owner["Part"][address]], byte)
         \/ map = Launchkey /\ p.stride > 0 /\ InstanceOf(p, cc) = p.instances
  <2> HIDE DEF cc, value, map
  <2> QED
    BY <1>1, ChangeIsAllowed
<1>6. map = Launchkey /\ p.stride > 0 /\ InstanceOf(p, cc) = p.instances => Overruns(p, cc)
  BY DEF Overruns
<1> HIDE DEF cc, value, map, p, address, byte
<1>7. \A c \in cells : c[1] = "Part" /\ c[3] = address
  BY ListeningIs
<1>8. \A c \in strayed : c[1] = "Part"
  BY DEF PagesIInv, EditsOK
<1> HIDE DEF cells
<1>9. strayed \subseteq strayed' /\ \A c \in strayed' : c[1] = "Part"
  BY <1>4, <1>7, <1>8
<1>10. \A c \in cells : c \in strayed' \/ (owner[c[1]][c[3]] \in Ids /\ Holds(parameter[owner[c[1]][c[3]]], byte))
  BY <1>4, <1>5, <1>6, <1>7
<1>11. \A c \in DOMAIN bytes :
         /\ c[1] = "Part" /\ bytes[c] \in 0..255
         /\ c \in strayed' \/ (owner[c[1]][c[3]] \in Ids /\ Holds(parameter[owner[c[1]][c[3]]], bytes[c]))
  BY <1>5, <1>7, <1>10
<1> HIDE DEF bytes
<1> QED
  BY <1>2, <1>4, <1>9, <1>11, ReceivedKeeps

\* An address that belongs to a parameter is that of one of its instances.
LEMMA AddressIs ==
  ASSUME NEW address \in 0..127, AddressToParameterId(address) # None
  PROVE  LET id == AddressToParameterId(address)
         IN  /\ id \in Ids /\ Space(parameter[id]) = "Part" /\ owner["Part"][address] = id
             /\ \E i \in 0..(parameter[id].instances - 1) : get_address(parameter[id], i) = address
<1> DEFINE id == AddressToParameterId(address)
<1>1. id \in Ids /\ IsAt(parameter[id], "Part", address)
  BY AddressIsAt
<1> HIDE DEF id
<1>2. Owner("Part", address) = id
  BY <1>1, OwnerIs
<1>3. owner["Part"][address] = id
  BY <1>2 DEF owner
<1> QED
  BY <1>1, <1>3 DEF IsAt, id

LEMMA DataEntryKeeps ==
  ASSUME PagesIInv, NEW entry \in player.entries, DataEntry(entry[1], entry[2])
  PROVE  PagesIInv' /\ TakesHold
<1> DEFINE address == entry[1]
           value == entry[2]
           id == AddressToParameterId(address)
           bytes == [c \in Listening(address) |-> Clamp(parameter[id], value)]
<1>1. address \in 0..127 /\ value \in 0..255
  BY PlayerIs DEF PagesIInv, Player
<1>2. id # None /\ StoreInParts(bytes) /\ UNCHANGED <<ui, assigned, kept, strayed, player>>
  BY DEF DataEntry, Count, Counted
<1>3. id \in Ids /\ owner["Part"][address] = id
  <2> HIDE DEF address
  <2> QED
    BY <1>1, <1>2, AddressIs
<1>4. Holds(parameter[id], Clamp(parameter[id], value))
  <2> HIDE DEF value, id
  <2>1. LimitsInOrder(parameter[id])
    BY <1>3, RowsAreWellPlaced DEF WellPlaced
  <2> QED
    BY <1>1, <2>1, ClampHolds
<1> HIDE DEF id, value, address
<1>5. \A c \in DOMAIN bytes : /\ c[1] = "Part" /\ bytes[c] \in 0..255
                              /\ owner[c[1]][c[3]] \in Ids /\ Holds(parameter[owner[c[1]][c[3]]], bytes[c])
  <2> SUFFICES ASSUME NEW c \in Listening(address)
               PROVE  /\ c[1] = "Part" /\ bytes[c] \in 0..255
                      /\ owner[c[1]][c[3]] \in Ids /\ Holds(parameter[owner[c[1]][c[3]]], bytes[c])
    OBVIOUS
  <2>1. c[1] = "Part" /\ c[3] = address
    BY ListeningIs
  <2>2. Clamp(parameter[id], value) \in 0..255
    BY <1>4 DEF Holds
  <2> QED
    BY <1>3, <1>4, <2>1, <2>2
<1>6. \A c \in strayed' : c[1] = "Part"
  BY <1>2 DEF PagesIInv, EditsOK
<1> HIDE DEF bytes
<1> QED
  BY <1>2, <1>5, <1>6, ReceivedKeeps

LEMMA DataIncrementKeeps ==
  ASSUME PagesIInv, NEW step \in player.steps, DataIncrement(step[1], step[2])
  PROVE  PagesIInv' /\ TakesHold
<1> DEFINE address == step[1]
           by == step[2]
           id == AddressToParameterId(address)
           p == parameter[id]
           bytes == [c \in Listening(address) |-> Increment(p, At(c), by)]
<1>1. address \in 0..127 /\ by \in Int
  BY PlayerIs DEF PagesIInv, Player
<1>2. id # None /\ StoreInParts(bytes) /\ UNCHANGED <<ui, assigned, kept, strayed, player>>
  BY DEF DataIncrement, Count, Counted
<1>3. /\ id \in Ids /\ Space(p) = "Part" /\ owner["Part"][address] = id
      /\ \E i \in 0..(p.instances - 1) : get_address(p, i) = address
  <2> HIDE DEF address
  <2> QED
    BY <1>1, <1>2, AddressIs
<1> HIDE DEF id, by, address
<1>4. \A c \in Listening(address) : /\ Increment(p, At(c), by) \in 0..255
                                    /\ c \in strayed \/ Holds(p, Increment(p, At(c), by))
  <2> SUFFICES ASSUME NEW c \in Listening(address)
               PROVE  /\ Increment(p, At(c), by) \in 0..255
                      /\ c \in strayed \/ Holds(p, Increment(p, At(c), by))
    OBVIOUS
  <2>1. PICK i \in 0..(p.instances - 1) : get_address(p, i) = address
    BY <1>3
  <2> DEFINE a == [part |-> c[2], parameter |-> id, instance |-> i]
  <2>2. c = <<"Part", c[2], address>>
    BY ListeningIs
  <2>3. a.part = c[2] /\ a.parameter = id /\ a.instance = i
    OBVIOUS
  <2> HIDE DEF a
  <2>4. CellOf(a) = <<"Part", c[2], address>>
    BY <1>3, <2>1, <2>3 DEF CellOf
  <2>5. At(CellOf(a)) \in 0..255 /\ (CellOf(a) \in strayed \/ Holds(p, At(CellOf(a))))
    BY <1>3, <2>3, ByteHolds DEF PagesIInv
  <2>6. CellOf(a) = c
    BY <2>2, <2>4
  <2>7. At(c) \in 0..255 /\ (c \in strayed \/ Holds(p, At(c)))
    BY <2>5, <2>6
  <2>8. LimitsInOrder(p)
    BY <1>3, RowsAreWellPlaced DEF WellPlaced
  <2> DEFINE byte == At(c)
             next == Increment(p, byte, by)
  <2>9. next = byte \/ Holds(p, next)
    BY <1>1, <2>7, <2>8, IncrementStays
  <2>10. Holds(p, next) => next \in 0..255
    BY DEF Holds
  <2>11. byte \in 0..255 /\ (c \in strayed \/ Holds(p, byte))
    BY <2>7
  <2> HIDE DEF next, byte
  <2>12. next \in 0..255 /\ (c \in strayed \/ Holds(p, next))
    BY <2>9, <2>10, <2>11
  <2> QED
    BY <2>12 DEF next, byte
<1>5. \A c \in DOMAIN bytes :
        /\ c[1] = "Part" /\ bytes[c] \in 0..255
        /\ c \in strayed' \/ (owner[c[1]][c[3]] \in Ids /\ Holds(parameter[owner[c[1]][c[3]]], bytes[c]))
  <2> SUFFICES ASSUME NEW c \in Listening(address)
               PROVE  /\ c[1] = "Part" /\ bytes[c] \in 0..255
                      /\ c \in strayed' \/ (owner[c[1]][c[3]] \in Ids /\ Holds(parameter[owner[c[1]][c[3]]], bytes[c]))
    OBVIOUS
  <2>1. c[1] = "Part" /\ c[3] = address
    BY ListeningIs
  <2>2. bytes[c] = Increment(p, At(c), by)
    OBVIOUS
  <2> HIDE DEF bytes
  <2> QED
    BY <1>2, <1>3, <1>4, <2>1, <2>2
<1>6. \A c \in strayed' : c[1] = "Part"
  BY <1>2 DEF PagesIInv, EditsOK
<1> HIDE DEF bytes
<1> QED
  BY <1>2, <1>5, <1>6, ReceivedKeeps

-----------------------------------------------------------------------------
(* From the start.                                                         *)

LEMMA PagesStart ==
  ASSUME PagesInit
  PROVE  PagesIInv
<1> DEFINE knob(k) == [part |-> IF k \in {2, 3, 6, 7} THEN 1 ELSE 0,
                       parameter |-> <<1, 16, 1, 16, 22, 42, 22, 42>>[k + 1], instance |-> 0]
           first == [page |-> "Filter", cursor |-> 0, editing |-> "Idle", snapped |-> {}, previous |-> "Filter",
                     recent |-> default_most_recent_page_in_group, step |-> 0, knob |-> 0, written |-> {}]
<1>1. player \in Players /\ edited = << >> /\ strayed = {}
  BY DEF PagesInit
<1>2. EditsOK
  BY <1>1 DEF EditsOK
<1>3. AssignedOK
  <2>1. assigned = [k \in 0..7 |-> knob(k)]
    BY DEF PagesInit
  <2>2. \A k \in 0..7 : <<1, 16, 1, 16, 22, 42, 22, 42>>[k + 1] \in {1, 16, 22, 42}
    OBVIOUS
  <2>3. \A k \in 0..7 : knob(k).parameter \in {1, 16, 22, 42} /\ knob(k).instance = 0 /\ knob(k).part \in 0..5
    BY <2>2
  <2>4. \A k \in 0..7 : knob(k) \in [part : 0..5, parameter : Ids, instance : 0..13]
    BY <2>2, IdsAre
  <2>5. \A id \in {1, 16, 22, 42} : parameter[id].instances = 1 /\ parameter[id].level \in {"Patch", "Part"}
    BY OscillatorParameters, FilterParameters, PartParameters DEF Single
  <2> HIDE DEF knob
  <2>6. \A id \in {1, 16, 22, 42} : id \in Ids /\ 0 \in 0..(parameter[id].instances - 1)
    BY <2>5, IdsAre
  <2>7. \A k \in 0..7 : AimOK(knob(k)) /\ parameter[knob(k).parameter].level \in {"Patch", "Part"}
    BY <2>3, <2>5, <2>6 DEF AimOK
  <2> QED
    BY <2>1, <2>4, <2>7 DEF AssignedOK
<1>4. PanelOK(ui)
  <2>1. "Filter" \in PageNames /\ default_most_recent_page_in_group \in [1..9 -> PageNames]
    BY PagesAre DEF default_most_recent_page_in_group
  <2>2. IsPanel(first)
    BY <2>1 DEF IsPanel
  <2>3. CursorOK(first) /\ SnappedOK(first)
    BY DEF CursorOK, SnappedOK
  <2> HIDE DEF first
  <2>4. PanelOK(ShowPage(first, "Filter"))
    BY <2>1, <2>2, <2>3, ShowPageIs DEF PanelOK
  <2> QED
    BY <2>4 DEF PagesInit, first
<1>5. SettingsAreKept
  <2>1. \A a \in 0..10 : At(System(a)) = init_settings[a + 1]
    <3> SUFFICES ASSUME NEW a \in 0..10 PROVE At(System(a)) = init_settings[a + 1]
      OBVIOUS
    <3> DEFINE c == System(a)
    <3>1. c[1] = "System" /\ c[3] = a
      BY DEF System
    <3> HIDE DEF c
    <3>2. At(c) = LoadedByte(c)
      BY <1>1 DEF At
    <3>3. LoadedByte(c) = init_settings[c[3] + 1]
      BY <3>1, LoadedIs
    <3> QED
      BY <3>1, <3>2, <3>3 DEF c
  <2>2. kept = [a \in 0..10 |-> init_settings[a + 1]]
    BY DEF PagesInit
  <2>3. kept = settings
    BY <2>1, <2>2 DEF settings
  <2> QED
    BY <2>3 DEF SettingsAreKept
<1> QED
  BY <1>1, <1>2, <1>3, <1>4, <1>5 DEF PagesIInv

LEMMA PagesStep ==
  ASSUME PagesIInv, [PagesNext]_pagesVars
  PROVE  PagesIInv' /\ TakesHold
<1>1. ASSUME NEW by \in player.turns,
             TurnToEdit(by) \/ TurnToMove(by) \/ TurnThroughSteps(by) \/ TurnToAssign(by) \/ TurnPart(by)
      PROVE  PagesIInv' /\ TakesHold
  BY <1>1, TurnToEditKeeps, TurnToMoveKeeps, TurnThroughStepsKeeps, TurnToAssignKeeps, TurnPartKeeps
<1>2. ASSUME NEW pot \in player.pots,
             \/ PotOnControl(pot[1], pot[2]) \/ PotOnMore(pot[1], pot[2])
             \/ PotOnSteps(pot[1], pot[2]) \/ PotOnAssignment(pot[1], pot[2])
      PROVE  PagesIInv' /\ TakesHold
  BY <1>2, PotOnControlKeeps, PotOnMoreKeeps, PotOnStepsKeeps, PotOnAssignmentKeeps
<1>3. ASSUME NEW note \in player.notes, NoteAsPot(note) \/ NoteAsStep(note)
      PROVE  PagesIInv' /\ TakesHold
  BY <1>3, NoteAsPotKeeps, NoteAsStepKeeps
<1>4. ASSUME NEW key \in player.keys, Press(key)
      PROVE  PagesIInv' /\ TakesHold
  BY <1>4, PressKeeps
<1>5. ASSUME NEW c \in player.changes, ControlChange(c[1], c[2])
      PROVE  PagesIInv' /\ TakesHold
  BY <1>5, ControlChangeKeeps
<1>6. ASSUME NEW e \in player.entries, DataEntry(e[1], e[2])
      PROVE  PagesIInv' /\ TakesHold
  BY <1>6, DataEntryKeeps
<1>7. ASSUME NEW s \in player.steps, DataIncrement(s[1], s[2])
      PROVE  PagesIInv' /\ TakesHold
  BY <1>7, DataIncrementKeeps
<1>8. ASSUME Click \/ OnIdle \/ LeaveLibrary \/ LeaveVersionsOrInfo
      PROVE  PagesIInv' /\ TakesHold
  BY <1>8, ClickKeeps, OnIdleKeeps, LeaveKeeps
<1>9. ASSUME UNCHANGED pagesVars
      PROVE  PagesIInv' /\ TakesHold
  <2>1. UNCHANGED <<ui, edited, assigned, kept, strayed, player>>
    BY <1>9 DEF pagesVars
  <2>2. EditsOK' /\ SettingsStay
    BY <2>1, NothingEdited DEF PagesIInv
  <2>3. AssignedOK'
    BY <2>1 DEF PagesIInv, AssignedOK
  <2> QED
    BY <2>1, <2>2, <2>3, SamePanelKeeps
<1> QED
  BY <1>1, <1>2, <1>3, <1>4, <1>5, <1>6, <1>7, <1>8, <1>9 DEF PagesNext

\* Every byte that an input wrote is the byte of one parameter and one of its values, for
\* any inputs in any order, those below zero and the tempo of an external clock included.
\* Of control changes with the map of a Launchkey this holds for those that find their
\* parameter; what is written behind the last instance of a bank is in strayed.
THEOREM EditsStayLegal == PagesSpec => []EditsStayInLimits
<1>1. PagesIInv => EditsStayInLimits
  BY EditsAreInLimits DEF PagesIInv
<1>2. PagesIInv /\ [PagesNext]_pagesVars => PagesIInv'
  BY PagesStep
<1> QED
  BY <1>1, <1>2, PagesStart, PTL DEF PagesSpec

\* However the pages of the settings are left, the settings are then those that the EEPROM
\* will give back.
THEOREM SettingsReachTheEEPROM == PagesSpec => []SettingsAreKept
<1>1. PagesIInv => SettingsAreKept
  BY DEF PagesIInv
<1>2. PagesIInv /\ [PagesNext]_pagesVars => PagesIInv'
  BY PagesStep
<1> QED
  BY <1>1, <1>2, PagesStart, PTL DEF PagesSpec

\* The first thing a pot does on a page moves a value by no more than the distance at which
\* it takes hold, for every parameter of the table, whatever its byte was set by.
THEOREM PotsTakeHold == PagesSpec => PotsDoNotJump
<1>1. PagesIInv /\ [PagesNext]_pagesVars => PagesIInv'
  BY PagesStep
<1>2. PagesIInv /\ [PagesNext]_pagesVars => [TakesHold]_pagesVars
  BY PagesStep
<1> QED
  BY <1>1, <1>2, PagesStart, PTL DEF PagesSpec, PotsDoNotJump, TakesHold
=============================================================================
