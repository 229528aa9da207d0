--------------------------- MODULE FirmwareUpdate ----------------------------
(***************************************************************************)
(* The update of a voice card's firmware, from the page of the controller  *)
(* (OsInfoPage::UpdateVoiceCard in src/controller/ui_pages/os_info_page.cc,*)
(* Storage::SpiCopy in storage.cc) to the bootloader of the card           *)
(* (src/voicecard/bootloader/bootloader.cc), which replies to each byte it *)
(* gets and writes them to the flash page by page.                         *)
(*                                                                         *)
(* The power can fail at any moment, which takes both down, and the SD     *)
(* card can be pulled out.  A byte of the flash is "old", "new" (the byte  *)
(* of the file that belongs there) or "bad".                               *)
(*                                                                         *)
(* Timing, which the protocol relies on: a card that waits for a byte has  *)
(* taken it before the next is sent; it restarts within the 100 ms the     *)
(* page waits, and for longer than the confirmations to spare; and it      *)
(* writes a page within these, and within the 15 ms of a pause.  An image  *)
(* that is not whole stops before the end of Init(), and what is shifted   *)
(* out of a register that was not written is no count: the file does not   *)
(* begin with a zero nibble.                                               *)
(*                                                                         *)
(* Bounds: the power failures, the card pulled out and the screens drawn   *)
(* for no reason.                                                          *)
(***************************************************************************)
EXTENDS Naturals, FiniteSetsExt

CONSTANTS
  PageSize,       \* SPM_PAGESIZE, 128
  Unit,           \* 16, in which a page size is sent
  Chunk,          \* 4 bytes are read from the file at a time
  Lengths,        \* of the file
  FlashSize,
  Confirmations,  \* 250
  Confirmed,      \* 240
  Byte,           \* 256, for the counters of eight bits
  QueryBytes,     \* 8: what GetVersion sends
  Cuts, Pulls, Redraws

ASSUME FirmwareUpdateAssumption ==
  /\ {PageSize, Unit, Chunk, FlashSize, Confirmations, Confirmed, Byte, QueryBytes} \subseteq Nat \ {0}
  /\ {Cuts, Pulls, Redraws} \subseteq Nat
  /\ PageSize > 1 /\ PageSize % Unit = 0 /\ PageSize % Chunk = 0 /\ FlashSize % PageSize = 0
  /\ Lengths \subseteq 1..FlashSize

Done      == 0      \* VoicecardFirmwareUpdateStatus
Requested == 1
Probing   == 2
LastTry   == 6

Enter   == <<"FIRMWARE_UPDATE_MODE">>
Query   == <<"GET_VERSION">>          \* the bytes of GetVersion
Nothing == <<>>
Nibble(address, high) == <<address, high>>

Units == PageSize \div Unit
Echo  == Byte                       \* not a count

VARIABLES
  flag,      \* EEPROM: the update flag
  flash,     \* flash: the state of each byte
  mode,      \* where the card is
  spdr,      \* the byte received and not yet read
  answer,    \* what the next transfer shifts out
  resets,    \* reset_command_counter
  total,     \* total_read
  page, read, buffer, low, last,    \* rx_buffer, a nibble of which is in low; done
  pc,        \* what the controller is about to do
  count,     \* confirmations, bytes of a query or bytes of the file that are sent
  size,      \* the page size it was told
  found,     \* found_firmware_files_
  present,   \* the SD card is in
  length,    \* of the file, never changes
  cuts, pulls, redraws,
  result,    \* history: of the last SpiCopy
  unfinished \* history: the card has begun to write, and has not come to the end

memory     == <<flag, flash>>
recording  == <<total, page, read, buffer, low, last>>
registers  == <<spdr, answer>>
card       == <<memory, recording, registers, mode, resets, unfinished>>
controller == <<pc, count, size, found, result>>
world      == <<present, length, cuts, pulls, redraws>>
vars       == <<card, controller, world>>

Unwritten == [i \in 0..(PageSize - 1) |-> "bad"]

\* The program in the flash runs when all of it is of one release.
Whole == \/ \A a \in 0..(FlashSize - 1) : flash[a] = "old"
         \/ \A a \in 0..(length - 1) : flash[a] = "new"

PowerUp ==
  /\ mode' = "Boot" /\ spdr' = Nothing /\ answer' = Echo /\ resets' = 0
  /\ total' = 0 /\ page' = 0 /\ read' = 0 /\ buffer' = Unwritten /\ low' = Nothing /\ last' = FALSE

Init ==
  /\ flag = Done /\ flash = [a \in 0..(FlashSize - 1) |-> "old"] /\ length \in Lengths
  /\ mode = "Boot" /\ spdr = Nothing /\ answer = Echo /\ resets = 0
  /\ total = 0 /\ page = 0 /\ read = 0 /\ buffer = Unwritten /\ low = Nothing /\ last = FALSE
  /\ pc = "Off" /\ count = 0 /\ size = 0 /\ found = FALSE /\ result = "none" /\ unfinished = FALSE
  /\ present = TRUE /\ cuts = 0 /\ pulls = 0 /\ redraws = 0

-----------------------------------------------------------------------------
(* The card.                                                               *)

Ready == mode \in {"Sync", "First", "Low", "High", "App"}

\* It blinks for two seconds before it reads anything.
BlinksFirst == flag >= Probing

EntersUpdateMode(f) == f >= LastTry \/ f = Requested

\* A reset in the middle of the confirmations misses too many of them.
HasRestarted == BlinksFirst \/ pc # "Confirm" \/ Confirmations - count < Confirmed

ForgetRequest ==           \* variant: as the controller's own bootloader does
  /\ mode = "Boot" /\ HasRestarted
  /\ IF EntersUpdateMode(flag) THEN mode' = "Sync" /\ answer' = Units /\ flag' = Done
                               ELSE mode' = "Leave" /\ UNCHANGED <<answer, flag>>
  /\ UNCHANGED <<flash, recording, spdr, resets, unfinished, controller, world>>

Boot ==
  /\ mode = "Boot" /\ HasRestarted
  /\ IF EntersUpdateMode(flag) THEN mode' = "Sync" /\ answer' = Units
                               ELSE mode' = "Leave" /\ UNCHANGED answer
  /\ UNCHANGED <<memory, recording, spdr, resets, unfinished, controller, world>>

Takes(b) == spdr = b /\ spdr' = Nothing

CountReset ==
  /\ mode = "Sync" /\ Takes(Enter)
  /\ resets' = (resets + 1) % Byte /\ answer' = Units
  /\ UNCHANGED <<memory, recording, mode, unfinished, controller, world>>

\* The first other byte is data, when enough resets were seen.
EndSync ==
  /\ mode = "Sync" /\ spdr \notin {Nothing, Enter} /\ spdr' = Nothing
  /\ IF resets >= Confirmed THEN mode' = "First" /\ low' = spdr /\ answer' = 0 /\ UNCHANGED resets
                            ELSE resets' = 0 /\ answer' = Units /\ UNCHANGED <<mode, low>>
  /\ UNCHANGED <<memory, total, page, read, buffer, last, unfinished, controller, world>>

Assembled(a, b) ==
  IF low = Nibble(a, FALSE) /\ b = Nibble(a, TRUE) THEN "new" ELSE "bad"

FirstByte ==
  /\ mode = "First" /\ spdr # Nothing /\ spdr' = Nothing
  /\ buffer' = [buffer EXCEPT ![0] = Assembled(0, spdr)]
  /\ read' = 1 /\ total' = 0 /\ page' = 0 /\ low' = Nothing /\ mode' = "Low"
  /\ UNCHANGED <<memory, answer, resets, last, unfinished, controller, world>>

\* A stop byte is looked for where a byte begins.
Stop ==
  /\ mode = "Low" /\ Takes(Enter)
  /\ last' = TRUE
  /\ IF read = 0 THEN mode' = "Leave" /\ unfinished' = FALSE /\ UNCHANGED read
                 ELSE mode' = "Erase" /\ read' = PageSize /\ UNCHANGED unfinished
  /\ UNCHANGED <<memory, total, page, buffer, low, answer, resets, controller, world>>

LowNibble ==
  /\ mode = "Low" /\ spdr \notin {Nothing, Enter} /\ spdr' = Nothing
  /\ low' = spdr /\ total' = (total + 1) % Byte /\ answer' = total' /\ mode' = "High"
  /\ UNCHANGED <<memory, page, read, buffer, last, resets, unfinished, controller, world>>

HighNibble ==
  /\ mode = "High" /\ spdr # Nothing /\ spdr' = Nothing
  /\ buffer' = [buffer EXCEPT ![read] = Assembled(page + read, spdr)]
  /\ read' = read + 1 /\ low' = Nothing
  /\ mode' = IF read' = PageSize THEN "Erase" ELSE "Low"
  /\ UNCHANGED <<memory, total, page, last, answer, resets, unfinished, controller, world>>

InPage(a) == a - page \in 0..(PageSize - 1)

ErasePage ==
  /\ mode = "Erase"
  /\ flash' = [a \in DOMAIN flash |-> IF InPage(a) THEN "bad" ELSE flash[a]]
  /\ mode' = "Program" /\ unfinished' = TRUE
  /\ UNCHANGED <<flag, recording, registers, resets, controller, world>>

ProgramPage ==
  /\ mode = "Program"
  /\ flash' = [a \in DOMAIN flash |-> IF InPage(a) THEN buffer[a - page] ELSE flash[a]]
  /\ page' = page + PageSize /\ read' = 0 /\ buffer' = Unwritten
  /\ IF last THEN mode' = "Leave" /\ unfinished' = FALSE ELSE mode' = "Low" /\ UNCHANGED unfinished
  /\ UNCHANGED <<flag, total, low, last, registers, resets, controller, world>>

FlagBefore(f) == Done       \* variant: it is the program that asks for another try

\* The flag counts the boots since a program has come up.
FlagAfter(f) == IF f \in Probing..(LastTry - 1) THEN f + 1 ELSE Probing

Leave ==
  /\ mode = "Leave"
  /\ flag' = FlagAfter(flag) /\ mode' = "Start"
  /\ UNCHANGED <<flash, recording, registers, resets, unfinished, controller, world>>

\* The end of Init() in voicecard.cc, which a program that is cut does not reach.
Start ==
  /\ mode = "Start"
  /\ IF Whole THEN mode' = "App" /\ flag' = Done ELSE mode' = "Hung" /\ UNCHANGED flag
  /\ spdr' = Nothing /\ answer' = Echo
  /\ UNCHANGED <<flash, recording, resets, unfinished, controller, world>>

\* COMMAND_FIRMWARE_UPDATE_MODE of voicecard_rx.h; the rest is no matter here.
Command ==
  /\ mode = "App" /\ spdr # Nothing
  /\ IF spdr = Enter THEN PowerUp /\ flag' = Requested
     ELSE spdr' = Nothing /\ UNCHANGED <<flag, mode, answer, resets, recording>>
  /\ UNCHANGED <<flash, unfinished, controller, world>>

CardStep ==
  \/ Boot \/ CountReset \/ EndSync \/ FirstByte \/ Stop \/ LowNibble \/ HighNibble
  \/ ErasePage \/ ProgramPage \/ Leave \/ Start \/ Command

-----------------------------------------------------------------------------
(* The controller.                                                         *)

Deaf == mode \in {"Boot", "Start", "Hung"}

Reply == IF Deaf THEN Echo ELSE answer

\* Both registers are shifted into each other; a byte that was not read is lost.
Transfer(b) ==
  /\ Ready => spdr = Nothing
  /\ IF Deaf THEN UNCHANGED registers ELSE spdr' = b /\ answer' = Echo
  /\ UNCHANGED <<memory, recording, mode, resets, unfinished, world>>

Calculates == UNCHANGED <<card, world>>

\* The screen asks for the version of the card whenever it is drawn.
Draw == pc' = "Query" /\ count' = 0

SendQuery ==
  /\ pc = "Query" /\ Transfer(Query)
  /\ IF count + 1 = QueryBytes THEN pc' = "Page" /\ count' = 0 ELSE count' = count + 1 /\ UNCHANGED pc
  /\ UNCHANGED <<size, found, result>>

PageIsWritten == mode \notin {"Erase", "Program"} /\ (Ready => spdr = Nothing)

\* 100 ms: a program that runs has read the byte, and its bootloader has come up.
RestartIsOver ==
  /\ PageIsWritten
  /\ mode = "Boot" => BlinksFirst

WaitForRestart ==
  /\ pc = "Wait" /\ RestartIsOver
  /\ pc' = "Confirm" /\ count' = 0 /\ Calculates /\ UNCHANGED <<size, found, result>>

Confirm ==
  /\ pc = "Confirm" /\ Transfer(Enter)
  /\ size' = Reply /\ count' = count + 1
  /\ IF count' < Confirmations THEN UNCHANGED pc
     ELSE pc' = IF size' = 0 THEN "Query" ELSE "Open"
  /\ UNCHANGED <<found, result>>

OpenFile ==
  /\ pc = "Open"
  /\ IF present THEN pc' = "Read" /\ UNCHANGED result ELSE pc' = "Last" /\ result' = "failed"
  /\ count' = 0 /\ Calculates /\ UNCHANGED <<size, found>>

\* The status of the read is not looked at: without the SD card the end of the
\* file does not come.
ReadFile ==
  /\ pc = "Read" /\ (count = length \/ present)
  /\ IF count = length THEN pc' = "Last" /\ result' = "ok" ELSE pc' = "Low" /\ UNCHANGED result
  /\ Calculates /\ UNCHANGED <<count, size, found>>

SendLowNibble ==
  /\ pc = "Low" /\ Transfer(Nibble(count, FALSE))
  /\ pc' = "High" /\ UNCHANGED <<count, size, found, result>>

\* The bytes of a chunk are sent before the page is looked at.
PageIsFull(sent) == sent % (size * Unit) = 0

EndsChunk(sent) == sent % Chunk = 0 \/ sent = length

IgnoresReply(reply, sent) == TRUE                      \* variant: sends the file blindly

\* WriteAsNibbles has returned the number of bytes the card had before this one.
IsExpected(reply, sent) == reply = sent % Byte

SendHighNibble ==
  /\ pc = "High" /\ Transfer(Nibble(count, TRUE))
  /\ IF IsExpected(Reply, count)
     THEN /\ count' = count + 1 /\ UNCHANGED result
          /\ pc' = CASE ~EndsChunk(count') -> "Low"
                     [] EndsChunk(count') /\ PageIsFull(count') -> "Pause"
                     [] OTHER -> "Read"
     ELSE pc' = "Last" /\ result' = "failed" /\ UNCHANGED count
  /\ UNCHANGED <<size, found>>

Pause ==
  /\ pc = "Pause" /\ PageIsWritten
  /\ pc' = "Read" /\ Calculates /\ UNCHANGED <<count, size, found, result>>

\* Whatever SpiCopy has returned.
SendStop ==
  /\ pc = "Last" /\ Transfer(Enter)
  /\ Draw /\ UNCHANGED <<size, found, result>>

ControllerStep ==
  \/ SendQuery \/ WaitForRestart \/ Confirm \/ OpenFile \/ ReadFile
  \/ SendLowNibble \/ SendHighNibble \/ Pause \/ SendStop

-----------------------------------------------------------------------------
(* The player, and the power.                                              *)

\* The page is turned to, or its encoder to this card.
Look ==
  /\ pc \in {"Off", "Page"}
  /\ IF pc = "Off" \/ found # present THEN UNCHANGED redraws
     ELSE redraws < Redraws /\ redraws' = redraws + 1
  /\ found' = present /\ Draw
  /\ UNCHANGED <<card, size, result, present, length, cuts, pulls>>

Redraw ==
  /\ pc = "Page" /\ redraws < Redraws
  /\ redraws' = redraws + 1 /\ Draw
  /\ UNCHANGED <<card, size, found, result, present, length, cuts, pulls>>

UpdateVoiceCard ==
  /\ pc = "Page" /\ found /\ Transfer(Enter)
  /\ pc' = "Wait" /\ result' = "none" /\ UNCHANGED <<count, size, found>>

PullCard ==
  /\ present /\ pulls < Pulls
  /\ present' = FALSE /\ pulls' = pulls + 1
  /\ UNCHANGED <<card, controller, length, cuts, redraws>>

InsertCard ==
  /\ ~present /\ present' = TRUE
  /\ UNCHANGED <<card, controller, length, cuts, pulls, redraws>>

TurnOn ==
  /\ PowerUp
  /\ pc' = "Off" /\ count' = 0 /\ size' = 0 /\ found' = FALSE
  /\ UNCHANGED <<memory, unfinished, result, present, length, pulls, redraws>>

PowerFails ==
  /\ cuts < Cuts /\ cuts' = cuts + 1 /\ TurnOn

IsStuck == \/ mode = "Hung" /\ pc = "Page"
           \/ pc = "Read" /\ count # length /\ ~present

TurnOffAndOn == IsStuck /\ UNCHANGED cuts /\ TurnOn

Next ==
  \/ CardStep \/ ControllerStep
  \/ Look \/ Redraw \/ UpdateVoiceCard \/ PullCard \/ InsertCard \/ PowerFails \/ TurnOffAndOn

Spec == Init /\ [][Next]_vars

\* Two processors that do not stop.
FairSpec == Spec /\ WF_vars(CardStep) /\ WF_vars(ControllerStep)

-----------------------------------------------------------------------------
(* Properties.                                                             *)

\* A power failure in the middle of an update leaves a program that is half one
\* release and half another: the card comes back to its bootloader, however often
\* it is turned on, and does not start it.  Only the end of the transfer, complete
\* or given up, lets it leave (the update flag in bootloader.cc).
CutUpdateIsNotRun ==
  unfinished => mode \notin {"Leave", "Start", "App", "Hung"}

\* When the copy has come to its end without an error, what the card starts is the
\* file: no nibble was lost while it wrote a page, none was taken for another, and
\* the last page was not forgotten (SpiCopy and the reply to each byte).
CompleteCopyIsTheFile ==
  result = "ok" /\ mode \in {"Leave", "Start", "App", "Hung"}
    => \A a \in 0..(length - 1) : flash[a] = "new"

\* The player who sees that a card does not answer does not give up: the SD card is
\* put in, the page is opened, the update is started, and what hangs is turned off.
Patience ==
  /\ WF_vars(InsertCard) /\ WF_vars((pc = "Off" \/ found # present) /\ Look)
  /\ WF_vars(mode # "App" /\ UpdateVoiceCard) /\ SF_vars(TurnOffAndOn)

\* No cut, removed SD card or page drawn at the wrong moment makes a brick of the
\* card: with patience it plays again (the update flag counts the failed boots).
PatienceRevivesTheCard == Patience => []<>(mode = "App")
=============================================================================
