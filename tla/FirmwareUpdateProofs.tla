------------------------ MODULE FirmwareUpdateProofs -------------------------
(***************************************************************************)
(* A half-written program is never started, and a copy that was confirmed  *)
(* to its end is the file, whatever the size of pages and files and        *)
(* however often the power fails.  CutInv is about the card alone; CopyInv *)
(* says, for each step of the page, where the card can be.                 *)
(***************************************************************************)
EXTENDS FirmwareUpdate, TLAPS

InLoop   == {"Sync", "First", "Low", "High", "Erase", "Program"}
Starting == {"Leave", "Start", "App", "Hung"}

\* The flag is what brings the card back: it stays until the loop is left, and a
\* page is only written in the loop.
CutInv ==
  /\ mode \in InLoop \cup Starting \cup {"Boot"}
  /\ mode \in InLoop => EntersUpdateMode(flag)
  /\ unfinished => EntersUpdateMode(flag) /\ mode \notin Starting

LEMMA CutInvInit == Init => CutInv
BY DEF Init, CutInv, InLoop, Starting

\* The controller, the player and the SD card do not touch what the invariant is about.
LEMMA CutInvOthers ==
  ASSUME CutInv, \/ ControllerStep \/ Look \/ Redraw \/ UpdateVoiceCard \/ PullCard \/ InsertCard
  PROVE  CutInv'
<1>1. UNCHANGED <<flag, mode, unfinished>>
  BY DEF ControllerStep, SendQuery, WaitForRestart, Confirm, OpenFile, ReadFile, SendLowNibble,
         SendHighNibble, Pause, SendStop, Look, Redraw, UpdateVoiceCard, PullCard, InsertCard,
         Transfer, Calculates, card, memory
<1> QED
  BY <1>1 DEF CutInv, EntersUpdateMode

LEMMA CutInvCard == ASSUME CutInv, CardStep PROVE CutInv'
<1> USE DEF CutInv, EntersUpdateMode, InLoop, Starting, memory
<1>1. CASE Boot
  BY <1>1 DEF Boot
<1>2. CASE CountReset \/ EndSync \/ FirstByte
  BY <1>2 DEF CountReset, EndSync, FirstByte
<1>3. CASE Stop
  BY <1>3 DEF Stop
<1>4. CASE LowNibble \/ HighNibble
  BY <1>4 DEF LowNibble, HighNibble
<1>5. CASE ErasePage
  BY <1>5 DEF ErasePage
<1>6. CASE ProgramPage
  BY <1>6 DEF ProgramPage
<1>7. CASE Leave
  BY <1>7 DEF Leave
<1>8. CASE Start
  BY <1>8 DEF Start
<1>9. CASE Command
  BY <1>9 DEF Command, PowerUp
<1> QED
  BY <1>1, <1>2, <1>3, <1>4, <1>5, <1>6, <1>7, <1>8, <1>9 DEF CardStep

\* When the power comes back the flag decides, and it was kept.
LEMMA CutInvPower == ASSUME CutInv, PowerFails \/ TurnOffAndOn PROVE CutInv'
<1>1. mode' = "Boot" /\ UNCHANGED <<flag, unfinished>>
  BY DEF PowerFails, TurnOffAndOn, TurnOn, PowerUp, memory
<1> QED
  BY <1>1 DEF CutInv, EntersUpdateMode, InLoop, Starting

\* An update cut by a power failure is never run: the card stays in its bootloader
\* until a transfer has been brought to an end (the update flag of bootloader.cc).
THEOREM HalfAProgramIsNotStarted == Spec => []CutUpdateIsNotRun
<1>1. CutInv /\ [Next]_vars => CutInv'
  <2> SUFFICES ASSUME CutInv, [Next]_vars PROVE CutInv'
    OBVIOUS
  <2>1. CASE CardStep
    BY <2>1, CutInvCard
  <2>2. CASE ControllerStep \/ Look \/ Redraw \/ UpdateVoiceCard \/ PullCard \/ InsertCard
    BY <2>2, CutInvOthers
  <2>3. CASE PowerFails \/ TurnOffAndOn
    BY <2>3, CutInvPower
  <2>4. CASE UNCHANGED vars
    BY <2>4 DEF vars, card, memory, CutInv, EntersUpdateMode
  <2> QED
    BY <2>1, <2>2, <2>3, <2>4 DEF Next
<1>2. CutInv => CutUpdateIsNotRun
  BY DEF CutInv, CutUpdateIsNotRun, Starting
<1> QED
  BY <1>1, <1>2, CutInvInit, PTL DEF Spec

-----------------------------------------------------------------------------
(* A copy that has come to its end without an error is the file.           *)

\* What the card replies with, by what it waits for; a byte that it has not taken
\* leaves no reply.
Answers ==
  /\ mode \in InLoop \cup Starting \cup {"Boot"}
  /\ total \in 0..(Byte - 1) /\ resets \in Nat
  /\ answer = CASE mode = "Sync" /\ spdr = Nothing -> Units
                [] mode = "First" /\ spdr = Nothing -> 0
                [] mode = "High" /\ spdr = Nothing -> total
                [] OTHER -> Echo

\* The card as the power, or the end of the transfer, has left it.
CardRests ==
  /\ last => mode \in {"Erase", "Program"} \cup Starting
  /\ mode = "Boot" => spdr = Nothing /\ resets = 0

Memories ==
  /\ page \in Nat /\ read \in Nat /\ count \in Nat /\ length \in Lengths
  /\ DOMAIN flash = 0..(FlashSize - 1) /\ DOMAIN buffer = 0..(PageSize - 1)

\* While the page waits, the card takes the reset for what it waited for.
Waited ==
  /\ mode \in InLoop => spdr \in {Nothing, Enter}
  /\ mode \in {"First", "High"} => spdr = Enter

Resetting ==
  /\ mode \notin {"First", "High", "Erase", "Program"}
  /\ mode \in {"Sync", "Low"} => spdr = Nothing

\* A card that counted the last confirmation replied with its page size, and
\* any other has no confirmations or is at the end of a transfer.
Confirmation ==
  /\ mode \notin {"First", "High"}
  /\ mode \in {"Erase", "Program"} => last
  /\ mode = "Low" => spdr = Enter
  /\ mode = "Sync" => /\ spdr \in {Nothing, Enter}
                      /\ size = Units \/ (resets = 0 /\ spdr = Nothing)

\* Between the halves of the first byte.
Opening ==
  /\ mode \notin {"Low", "High"}
  /\ mode \in {"Erase", "Program"} => last
  /\ mode = "First" => spdr = Nothing /\ low = Nibble(0, FALSE) /\ size = Units
  /\ mode = "Sync" => /\ spdr \in {Nothing, Nibble(0, FALSE)}
                      /\ size = Units \/ resets = 0

\* What was written, and what is to be written, is the file.
Holds(n) ==
  /\ \A a \in 0..(length - 1) : a < page => flash[a] = "new"
  /\ \A i \in 0..(PageSize - 1) : page + i < n => buffer[i] = "new"

\* The card has taken a whole number of bytes, one less than were sent when the
\* second half of the last is still in the register.
TakesHigh == mode = "High" /\ spdr # Nothing

Taken == IF TakesHigh THEN count - 1 ELSE count

\* The card is where the controller believes it to be.
InStep ==
  /\ ~last /\ size = Units /\ count \in 1..length
  /\ \/ /\ mode = "First" /\ count = 1 /\ spdr = Nibble(0, TRUE) /\ low = Nibble(0, FALSE)
        /\ pc \in {"Read", "Low", "Last"}
     \/ /\ mode \in {"Low", "High"} /\ page % PageSize = 0
        /\ read < PageSize /\ page + read = Taken
        /\ Holds(Taken)
        /\ \/ /\ mode = "Low" /\ spdr = Nothing /\ total = (count - 1) % Byte
              /\ pc \in {"Read", "Low", "Pause", "Last"}
           \/ /\ mode = "Low" /\ spdr = Nibble(count, FALSE) /\ total = (count - 1) % Byte
              /\ pc = "High"
           \/ /\ mode = "High" /\ spdr = Nothing /\ low = Nibble(count, FALSE) /\ total = count % Byte
              /\ pc = "High"
           \/ /\ mode = "High" /\ spdr = Nibble(count - 1, TRUE) /\ low = Nibble(count - 1, FALSE)
              /\ total = (count - 1) % Byte
              /\ pc \in {"Read", "Low", "Pause", "Last"} /\ (count % PageSize = 0 => pc = "Pause")
     \/ /\ mode \in {"Erase", "Program"} /\ spdr = Nothing /\ pc = "Pause"
        /\ page % PageSize = 0 /\ page + PageSize = count /\ total = (count - 1) % Byte
        /\ Holds(count)
  /\ pc \in {"Low", "High"} => count < length

IsCopied == \A a \in 0..(length - 1) : flash[a] = "new"

\* The stop byte is sent, is taken, has the last page written, and the card starts;
\* or the power failed on the way, and the card is asked for again or has its program.
Ended ==
  \/ mode = "Low" /\ spdr = Enter /\ ~last /\ read < PageSize /\ page + read = length /\ Holds(length)
  \/ mode \in {"Erase", "Program"} /\ last /\ page + PageSize >= length /\ Holds(length)
  \/ mode \in Starting /\ IsCopied
  \/ mode = "Boot" /\ (EntersUpdateMode(flag) \/ IsCopied)
  \/ mode = "Sync" /\ resets = 0 /\ spdr # Enter

Copying == {"Wait", "Confirm", "Open", "Read", "Low", "High", "Pause"}

Protocol ==
  /\ pc \in Copying => result = "none"
  /\ pc = "Wait" => Waited
  /\ pc = "Confirm" /\ count = 0 => Resetting
  /\ \/ pc = "Confirm" /\ count # 0
     \/ pc = "Open"
     \/ pc \in {"Read", "Low"} /\ count = 0
     => Confirmation
  /\ pc = "High" /\ count = 0 => Opening
  /\ (pc \in {"Read", "Low", "High"} /\ count # 0) \/ pc = "Pause" => InStep
  /\ pc = "Last" /\ result = "ok" => InStep /\ count = length
  /\ pc # "Last" /\ result = "ok" => Ended

CopyInv == CutInv /\ Answers /\ CardRests /\ Memories /\ Protocol

LEMMA Numbers ==
  /\ PageSize \in Nat /\ PageSize > 1 /\ Unit \in Nat \ {0} /\ Chunk \in Nat \ {0} /\ FlashSize \in Nat
  /\ Confirmations \in Nat \ {0} /\ Confirmed \in Nat \ {0} /\ Byte \in Nat \ {0}
  /\ PageSize % Unit = 0 /\ PageSize % Chunk = 0
  /\ \A n \in Lengths : n \in Nat /\ 1 <= n /\ n <= FlashSize
BY FirmwareUpdateAssumption

\* A multiple of a multiple is one.
LEMMA Multiples ==
  ASSUME NEW m \in Nat \ {0}, NEW n \in Nat \ {0}, n % m = 0
  PROVE  /\ (n \div m) \in Nat \ {0} /\ (n \div m) * m = n
         /\ \A k \in Nat : k % n = 0 => k % m = 0
<1>1. (n \div m) \in Nat /\ (n \div m) * m = n
  OBVIOUS
<1>2. n \div m # 0
  BY <1>1
<1>3. ASSUME NEW k \in Nat, k % n = 0 PROVE k % m = 0
  <2>1. PICK i \in Nat : i = k \div n /\ k = i * n
    BY <1>3
  <2>2. PICK j \in Nat : n = j * m
    BY <1>1
  <2>3. k = (i * j) * m /\ i * j \in Nat
    BY <2>1, <2>2
  <2>4. ASSUME NEW x \in Nat PROVE (x * m) % m = 0
    BY <2>4
  <2> QED
    BY <2>3, <2>4
<1> QED
  BY <1>1, <1>2, <1>3

LEMMA UnitsOfAPage ==
  /\ Units \in Nat \ {0} /\ Units * Unit = PageSize
  /\ \A n \in Nat : n % PageSize = 0 => n % Chunk = 0
BY Numbers, Multiples, PageSize \in Nat \ {0} DEF Units

LEMMA Remainder ==
  ASSUME NEW b \in Nat \ {0}, NEW q \in Nat, NEW r \in Nat, r < b
  PROVE  (q * b + r) % b = r
OBVIOUS

LEMMA NoRemainder ==
  ASSUME NEW b \in Nat \ {0}, NEW q \in Nat
  PROVE  (q * b) % b = 0
OBVIOUS

LEMMA NextCount ==
  ASSUME NEW b \in Nat \ {0}, NEW n \in Nat \ {0}
  PROVE  (((n - 1) % b) + 1) % b = n % b
<1> DEFINE q == (n - 1) \div b
           r == (n - 1) % b
<1>1. q \in Nat /\ r \in Nat /\ r < b /\ n - 1 = q * b + r
  OBVIOUS
<1> HIDE DEF q, r
<1>2. CASE r + 1 < b
  <2>1. n = q * b + (r + 1)
    BY <1>1
  <2>2. n % b = r + 1
    BY <1>1, <1>2, <2>1, Remainder
  <2>3. (r + 1) % b = r + 1
    BY <1>1, <1>2
  <2> QED
    BY <2>2, <2>3 DEF r
<1>3. CASE r + 1 = b
  <2>1. n = (q + 1) * b /\ q + 1 \in Nat
    BY <1>1, <1>3
  <2>2. n % b = 0
    BY <2>1, NoRemainder
  <2>3. (r + 1) % b = 0
    BY <1>3
  <2> QED
    BY <2>2, <2>3 DEF r
<1> QED
  BY <1>1, <1>2, <1>3

LEMMA NextMultiple ==
  ASSUME NEW b \in Nat \ {0}, NEW n \in Nat, n % b = 0
  PROVE  (n + b) % b = 0
<1>1. PICK q \in Nat : n = q * b
  <2>1. n = (n \div b) * b /\ n \div b \in Nat
    OBVIOUS
  <2> QED
    BY <2>1
<1>2. n + b = (q + 1) * b /\ q + 1 \in Nat
  BY <1>1
<1> QED
  BY <1>2, NoRemainder

LEMMA Counts ==
  /\ \A n \in Nat : n % Byte \in 0..(Byte - 1)
  /\ 0 % Byte = 0 /\ 0 % PageSize = 0
BY Numbers

\* The bytes on the wire are told apart.
LEMMA Bytes ==
  /\ Nothing # Enter /\ Nothing # Query /\ Query # Enter
  /\ \A n \in Nat, h \in BOOLEAN : Nibble(n, h) \notin {Nothing, Enter, Query}
  /\ \A m, n \in Nat, h, i \in BOOLEAN : Nibble(m, h) = Nibble(n, i) => m = n /\ h = i
BY DEF Nothing, Enter, Query, Nibble

LEMMA CopyInvInit == Init => CopyInv
<1> SUFFICES ASSUME Init PROVE CopyInv
  OBVIOUS
<1>1. CutInv
  BY CutInvInit
<1>2. Answers
  BY Numbers DEF Init, Answers, Starting, InLoop
<1>3. CardRests /\ Memories
  BY Numbers DEF Init, CardRests, Memories, Unwritten
<1>4. Protocol
  BY DEF Init, Protocol, Copying
<1> QED
  BY <1>1, <1>2, <1>3, <1>4 DEF CopyInv

\* What a transfer does to the registers.
LEMMA TransferAnswers ==
  ASSUME NEW b, b # Nothing, Answers, CardRests, Memories, Transfer(b)
  PROVE  Answers' /\ CardRests'
<1>1. UNCHANGED <<mode, total, resets, last>>
  BY DEF Transfer, recording
<1>2. CASE Deaf
  BY <1>1, <1>2 DEF Transfer, registers, Answers, CardRests, Units, Echo
<1>3. CASE ~Deaf
  <2>1. spdr' = b /\ answer' = Echo /\ mode # "Boot"
    BY <1>3 DEF Transfer, Deaf
  <2> QED
    BY <1>1, <2>1 DEF Answers, CardRests, Echo
<1> QED
  BY <1>2, <1>3

\* A reply that is not the echo comes from a card that waits for a byte.
LEMMA Replies ==
  ASSUME Answers
  PROVE  /\ mode = "Sync" /\ spdr = Nothing => Reply = Units
         /\ mode = "First" /\ spdr = Nothing => Reply = 0
         /\ mode = "High" /\ spdr = Nothing => Reply = total
         /\ ~(mode \in {"Sync", "First", "High"} /\ spdr = Nothing) => Reply = Echo
BY DEF Answers, Reply, Deaf

LEMMA CardAnswers ==
  ASSUME Answers, CardRests, CardStep
  PROVE  Answers' /\ CardRests'
<1> USE Numbers, Bytes DEF Answers, CardRests, InLoop, Starting
<1>1. CASE Boot
  BY <1>1 DEF Boot, memory, recording
<1>2. CASE CountReset
  BY <1>2 DEF CountReset, memory, recording, Takes
<1>3. CASE EndSync
  BY <1>3 DEF EndSync, memory
<1>4. CASE FirstByte
  BY <1>4 DEF FirstByte, memory
<1>5. CASE Stop
  BY <1>5 DEF Stop, memory, Takes
<1>6. CASE LowNibble
  BY <1>6 DEF LowNibble, memory
<1>7. CASE HighNibble
  BY <1>7 DEF HighNibble, memory
<1>8. CASE ErasePage
  BY <1>8 DEF ErasePage, recording, registers
<1>9. CASE ProgramPage
  BY <1>9 DEF ProgramPage, registers
<1>10. CASE Leave
  BY <1>10 DEF Leave, recording, registers
<1>11. CASE Start
  BY <1>11 DEF Start, recording
<1>12. CASE Command
  BY <1>12 DEF Command, PowerUp, recording
<1> QED
  BY <1>1, <1>2, <1>3, <1>4, <1>5, <1>6, <1>7, <1>8, <1>9, <1>10, <1>11, <1>12 DEF CardStep

LEMMA CardMemories ==
  ASSUME Memories, CardStep
  PROVE  Memories' /\ UNCHANGED <<controller, world>>
<1> USE Numbers DEF Memories, controller, world, memory, recording
<1>1. CASE Boot \/ CountReset \/ EndSync \/ Leave \/ Start
  BY <1>1 DEF Boot, CountReset, EndSync, Leave, Start
<1>2. CASE FirstByte
  BY <1>2 DEF FirstByte
<1>3. CASE Stop
  BY <1>3 DEF Stop
<1>4. CASE LowNibble
  BY <1>4 DEF LowNibble
<1>5. CASE HighNibble
  BY <1>5 DEF HighNibble
<1>6. CASE ErasePage
  BY <1>6 DEF ErasePage
<1>7. CASE ProgramPage
  BY <1>7 DEF ProgramPage, Unwritten
<1>8. CASE Command
  BY <1>8 DEF Command, PowerUp, Unwritten
<1> QED
  BY <1>1, <1>2, <1>3, <1>4, <1>5, <1>6, <1>7, <1>8 DEF CardStep

LEMMA CardWaited ==
  ASSUME Waited, CardRests, CardStep
  PROVE  Waited'
<1> USE Bytes DEF Waited, CardRests, InLoop, Starting, Takes
<1>1. CASE Boot \/ CountReset
  BY <1>1 DEF Boot, CountReset, registers
<1>2. CASE EndSync \/ LowNibble
  BY <1>2 DEF EndSync, LowNibble
<1>3. CASE FirstByte \/ Stop \/ HighNibble
  BY <1>3 DEF FirstByte, Stop, HighNibble
<1>4. CASE ErasePage \/ ProgramPage
  BY <1>4 DEF ErasePage, ProgramPage, registers
<1>5. CASE Leave \/ Start \/ Command
  BY <1>5 DEF Leave, Start, Command, PowerUp
<1> QED
  BY <1>1, <1>2, <1>3, <1>4, <1>5 DEF CardStep

LEMMA CardResetting ==
  ASSUME Resetting, CardRests, CardStep
  PROVE  Resetting'
<1> USE Bytes DEF Resetting, CardRests, Takes
<1>1. CASE Boot \/ CountReset \/ EndSync
  BY <1>1 DEF Boot, CountReset, EndSync, registers
<1>2. CASE FirstByte \/ Stop \/ LowNibble \/ HighNibble \/ ErasePage \/ ProgramPage
  BY <1>2 DEF FirstByte, Stop, LowNibble, HighNibble, ErasePage, ProgramPage
<1>3. CASE Leave \/ Start \/ Command
  BY <1>3 DEF Leave, Start, Command, PowerUp
<1> QED
  BY <1>1, <1>2, <1>3 DEF CardStep

LEMMA CardConfirmation ==
  ASSUME Confirmation, CardRests, CardStep
  PROVE  Confirmation'
<1> USE Bytes DEF Confirmation, CardRests, Takes, controller, Units
<1>1. CASE Boot \/ CountReset
  BY <1>1 DEF Boot, CountReset
<1>2. CASE EndSync \/ FirstByte \/ LowNibble \/ HighNibble
  BY <1>2 DEF EndSync, FirstByte, LowNibble, HighNibble
<1>3. CASE Stop
  BY <1>3 DEF Stop
<1>4. CASE ErasePage \/ ProgramPage
  BY <1>4 DEF ErasePage, ProgramPage, recording
<1>5. CASE Leave \/ Start \/ Command
  BY <1>5 DEF Leave, Start, Command, PowerUp
<1> QED
  BY <1>1, <1>2, <1>3, <1>4, <1>5 DEF CardStep

LEMMA CardOpening ==
  ASSUME Opening, CardRests, Answers, CardStep
  PROVE  Opening'
<1> USE Bytes, Numbers DEF Opening, CardRests, Takes, controller, Units
<1>1. CASE Boot
  BY <1>1 DEF Boot
<1>2. CASE CountReset
  <2>1. Nibble(0, FALSE) # Enter /\ Nothing # Enter
    BY Bytes, 0 \in Nat, FALSE \in BOOLEAN
  <2>2. spdr = Enter /\ mode = "Sync"
    BY <1>2 DEF CountReset
  <2>3. spdr \in {Nothing, Nibble(0, FALSE)}
    BY <2>2
  <2> QED
    BY <2>1, <2>2, <2>3
<1>3. CASE EndSync
  <2>1. resets \in Nat
    BY DEF Answers
  <2>2. resets >= Confirmed => resets # 0
    BY <2>1
  <2>3. mode = "Sync" /\ spdr \in {Nothing, Nibble(0, FALSE)} /\ spdr # Nothing /\ spdr' = Nothing
    BY <1>3 DEF EndSync
  <2>4. UNCHANGED <<last, size>>
    BY <1>3 DEF EndSync
  <2>5. CASE resets >= Confirmed
    <3>1. mode' = "First" /\ low' = Nibble(0, FALSE) /\ size = Units
      BY <1>3, <2>2, <2>3, <2>5 DEF EndSync
    <3> QED
      BY <2>3, <2>4, <3>1
  <2>6. CASE ~(resets >= Confirmed)
    <3>1. mode' = "Sync" /\ resets' = 0
      BY <1>3, <2>6 DEF EndSync
    <3> QED
      BY <2>3, <2>4, <3>1
  <2> QED
    BY <2>5, <2>6
<1>4. CASE FirstByte \/ Stop \/ LowNibble \/ HighNibble
  BY <1>4 DEF FirstByte, Stop, LowNibble, HighNibble
<1>5. CASE ErasePage \/ ProgramPage
  BY <1>5 DEF ErasePage, ProgramPage, recording
<1>6. CASE Leave \/ Start \/ Command
  BY <1>6 DEF Leave, Start, Command, PowerUp
<1> QED
  BY <1>1, <1>2, <1>3, <1>4, <1>5, <1>6 DEF CardStep

LEMMA CardEnded ==
  ASSUME Ended, CutInv, CardRests, Memories, CardStep
  PROVE  Ended'
<1> USE DEF controller, world, memory, recording
<1>1. CASE Boot
  BY <1>1, Bytes DEF Boot, Ended, IsCopied, Starting, CardRests
<1>2. CASE CountReset
  BY <1>2 DEF CountReset, Ended, Takes, Starting
<1>3. CASE EndSync
  BY <1>3, Numbers, Bytes DEF EndSync, Ended, Starting
<1>4. CASE FirstByte \/ LowNibble \/ HighNibble
  BY <1>4 DEF FirstByte, LowNibble, HighNibble, Ended, Starting
<1>5. CASE Stop
  <2>1. spdr = Enter /\ mode = "Low" /\ last' /\ UNCHANGED <<flash, page, buffer, length>>
    BY <1>5 DEF Stop, Takes
  <2>2. page + read = length /\ Holds(length) /\ read \in Nat /\ page \in Nat /\ read < PageSize
    BY <2>1 DEF Ended, Starting, Memories
  <2>3. CASE read = 0
    <3>1. mode' = "Leave" /\ page = length
      BY <1>5, <2>2, <2>3 DEF Stop
    <3>2. IsCopied'
      BY <2>1, <2>2, <3>1 DEF Holds, IsCopied
    <3> QED
      BY <3>1, <3>2 DEF Ended, Starting
  <2>4. CASE read # 0
    <3>1. mode' = "Erase" /\ page' + PageSize >= length'
      BY <1>5, <2>1, <2>2, <2>4, Numbers DEF Stop
    <3>2. (Holds(length))'
      BY <2>1, <2>2 DEF Holds
    <3> QED
      BY <2>1, <3>1, <3>2 DEF Ended
  <2> QED
    BY <2>3, <2>4
<1>6. CASE ErasePage
  <2>1. /\ mode = "Erase" /\ mode' = "Program"
        /\ flash' = [a \in DOMAIN flash |-> IF InPage(a) THEN "bad" ELSE flash[a]]
        /\ UNCHANGED <<last, page, buffer, length>>
    BY <1>6 DEF ErasePage
  <2>2. last /\ page + PageSize >= length /\ Holds(length) /\ page \in Nat
    BY <2>1 DEF Ended, Starting, Memories
  <2>3. (Holds(length))'
    BY <2>1, <2>2, Numbers DEF Holds, InPage, Memories
  <2> QED
    BY <2>1, <2>2, <2>3 DEF Ended
<1>7. CASE ProgramPage
  <2>1. /\ mode = "Program" /\ UNCHANGED length
        /\ flash' = [a \in DOMAIN flash |-> IF InPage(a) THEN buffer[a - page] ELSE flash[a]]
    BY <1>7 DEF ProgramPage
  <2>2. last /\ page + PageSize >= length /\ Holds(length) /\ page \in Nat
    BY <2>1 DEF Ended, Starting, Memories
  <2>3. mode' = "Leave"
    BY <1>7, <2>2 DEF ProgramPage
  <2>4. ASSUME NEW a \in 0..(length - 1) PROVE flash'[a] = "new"
    <3>1. a \in DOMAIN flash /\ a \in Nat
      BY Numbers DEF Memories
    <3>2. CASE a < page
      BY <2>1, <2>2, <3>1, <3>2 DEF Holds, InPage
    <3>3. CASE page <= a
      <4>1. a - page \in 0..(PageSize - 1) /\ page + (a - page) < length
        BY <2>2, <3>1, <3>3, Numbers DEF Memories
      <4> QED
        BY <2>1, <2>2, <3>1, <4>1 DEF Holds, InPage
    <3> QED
      BY <2>2, <3>1, <3>2, <3>3
  <2> QED
    BY <2>1, <2>3, <2>4 DEF Ended, Starting, IsCopied
<1>8. CASE Leave
  BY <1>8 DEF Leave, Ended, IsCopied, Starting
<1>9. CASE Start
  BY <1>9 DEF Start, Ended, IsCopied, Starting
<1>10. CASE Command
  BY <1>10 DEF Command, PowerUp, Ended, IsCopied, Starting
<1> QED
  BY <1>1, <1>2, <1>3, <1>4, <1>5, <1>6, <1>7, <1>8, <1>9, <1>10 DEF CardStep

\* The power comes back: the card asks for the program again, or has it.
LEMMA PowerEnded ==
  ASSUME CopyInv, PowerFails \/ TurnOffAndOn
  PROVE  CopyInv'
<1>1. /\ mode' = "Boot" /\ pc' = "Off" /\ spdr' = Nothing /\ answer' = Echo /\ resets' = 0 /\ total' = 0
      /\ page' = 0 /\ read' = 0 /\ buffer' = Unwritten /\ last' = FALSE /\ count' = 0
      /\ UNCHANGED <<flag, flash, result, length>>
  BY DEF PowerFails, TurnOffAndOn, TurnOn, PowerUp, memory
<1>2. CutInv'
  BY CutInvPower DEF CopyInv
<1>3. Answers'
  BY <1>1, Numbers DEF Answers, Echo
<1>4. CardRests' /\ Memories'
  BY <1>1, Numbers DEF CardRests, Memories, Unwritten, CopyInv
<1>5. result = "ok" => EntersUpdateMode(flag) \/ IsCopied
  <2> SUFFICES ASSUME result = "ok" PROVE EntersUpdateMode(flag) \/ IsCopied
    OBVIOUS
  <2>1. CASE pc = "Last"
    BY <2>1 DEF CopyInv, Protocol, InStep, CutInv, InLoop
  <2>2. CASE pc # "Last"
    BY <2>2 DEF CopyInv, Protocol, Ended, CutInv, InLoop
  <2> QED
    BY <2>1, <2>2
<1>6. result' = "ok" => Ended'
  BY <1>1, <1>5 DEF Ended, IsCopied, EntersUpdateMode
<1>7. Protocol'
  BY <1>1, <1>6 DEF Protocol, Copying
<1> QED
  BY <1>2, <1>3, <1>4, <1>7 DEF CopyInv

\* Where a card that is in step waits for a byte, or is about to take one.
LEMMA CardInStep ==
  ASSUME InStep, Answers, CardRests, Memories, CardStep
  PROVE  InStep'
<1> USE DEF controller, world, memory, recording, registers
<1>1. count \in Nat \ {0} /\ page \in Nat /\ read \in Nat
  BY Numbers DEF InStep, Memories
<1>2. mode \notin {"Boot", "Sync", "Leave", "Start", "App"}
  BY DEF InStep
<1>3. CASE FirstByte
  <2>1. /\ spdr = Nibble(0, TRUE) /\ low = Nibble(0, FALSE) /\ count = 1 /\ pc \in {"Read", "Low", "Last"}
        /\ ~last /\ size = Units /\ count \in 1..length
    BY <1>3 DEF FirstByte, InStep
  <2>2. /\ mode' = "Low" /\ spdr' = Nothing /\ page' = 0 /\ read' = 1 /\ total' = 0
        /\ buffer' = [buffer EXCEPT ![0] = Assembled(0, spdr)]
        /\ UNCHANGED <<last, size, count, length, pc, flash>>
    BY <1>3 DEF FirstByte
  <2>3. Assembled(0, spdr) = "new"
    BY <2>1 DEF Assembled
  <2>4. buffer'[0] = "new" /\ 0 % PageSize = 0 /\ 0 % Byte = 0 /\ 1 < PageSize
    BY <2>2, <2>3, Numbers, Counts DEF Memories
  <2>5. (Holds(1))'
    BY <2>2, <2>4, Numbers DEF Holds
  <2>6. Taken' = 1 /\ (count' - 1) % Byte = 0 /\ page' + read' = 1
    BY <2>1, <2>2, <2>4 DEF Taken, TakesHigh
  <2>7. (Holds(Taken))'
    BY <2>5, <2>6 DEF Holds
  <2>8. (pc \in {"Low", "High"} => count < length)'
    BY <2>2 DEF InStep
  <2>9. page' % PageSize = 0 /\ read' < PageSize /\ total' = (count' - 1) % Byte
    BY <2>2, <2>4, <2>6
  <2>10. ~last' /\ (size = Units)' /\ (count \in 1..length)'
    BY <2>1, <2>2 DEF Units
  <2> QED
    BY <2>1, <2>2, <2>6, <2>7, <2>8, <2>9, <2>10 DEF InStep
<1>4. CASE Stop
  BY <1>4, <1>1, Bytes DEF Stop, Takes, InStep
<1>5. CASE LowNibble
  <2>1. mode = "Low" /\ spdr = Nibble(count, FALSE) /\ total = (count - 1) % Byte /\ pc = "High"
    BY <1>5 DEF LowNibble, InStep
  <2>2. /\ mode' = "High" /\ spdr' = Nothing /\ low' = Nibble(count, FALSE) /\ total' = (total + 1) % Byte
        /\ UNCHANGED <<page, read, buffer, flash, last, size, count, length, pc>>
    BY <1>5, <2>1 DEF LowNibble
  <2>3. total' = count % Byte
    BY <1>1, <2>1, <2>2, NextCount, Numbers
  <2>4. Taken = count /\ Taken' = count
    BY <2>1, <2>2 DEF Taken, TakesHigh
  <2>5. (Holds(Taken))'
    BY <2>1, <2>2, <2>4 DEF Holds, InStep
  <2> QED
    BY <2>1, <2>2, <2>3, <2>4, <2>5 DEF InStep
<1>6. CASE HighNibble
  <2> DEFINE at == page + read
  <2>1. /\ mode = "High" /\ spdr = Nibble(count - 1, TRUE) /\ low = Nibble(count - 1, FALSE)
        /\ total = (count - 1) % Byte /\ pc \in {"Read", "Low", "Pause", "Last"}
        /\ count % PageSize = 0 => pc = "Pause"
    BY <1>6 DEF HighNibble, InStep
  <2>2. spdr # Nothing
    BY <1>6 DEF HighNibble
  <2>3. Taken = count - 1
    BY <2>1, <2>2 DEF Taken, TakesHigh
  <2>4. at = count - 1 /\ read < PageSize /\ page % PageSize = 0 /\ Holds(at) /\ ~last /\ size = Units
    BY <2>1, <2>3 DEF InStep
  <2>5. /\ spdr' = Nothing /\ read' = read + 1
        /\ mode' = IF read' = PageSize THEN "Erase" ELSE "Low"
        /\ buffer' = [buffer EXCEPT ![read] = Assembled(at, spdr)]
        /\ UNCHANGED <<page, total, flash, last, size, count, length, pc>>
    BY <1>6 DEF HighNibble
  <2>6. Assembled(at, spdr) = "new"
    BY <2>1, <2>4 DEF Assembled
  <2>7. (Holds(count))'
    <3>1. \A i \in 0..(PageSize - 1) : page + i < count => i = read \/ page + i < at
      BY <1>1, <2>4, Numbers
    <3>2. buffer'[read] = "new" /\ \A i \in 0..(PageSize - 1) : i # read => buffer'[i] = buffer[i]
      BY <1>1, <2>4, <2>5, <2>6, Numbers DEF Memories
    <3> HIDE DEF at
    <3> QED
      BY <2>4, <2>5, <3>1, <3>2 DEF Holds
  <2>8. CASE read' = PageSize
    <3>1. page + PageSize = count
      BY <1>1, <2>4, <2>5, <2>8
    <3>2. count % PageSize = 0
      BY <1>1, <2>4, <3>1, NextMultiple, Numbers, PageSize \in Nat \ {0}
    <3>3. pc = "Pause" /\ mode' = "Erase"
      BY <2>1, <2>5, <2>8, <3>2
    <3>4. (count \in 1..length)' /\ (size = Units)'
      BY <2>5 DEF InStep, Units
    <3> QED
      BY <2>1, <2>4, <2>5, <2>7, <3>1, <3>3, <3>4 DEF InStep
  <2>9. CASE read' # PageSize
    <3>1. read' < PageSize /\ page' + read' = count
      BY <1>1, <2>4, <2>5, <2>9, Numbers
    <3>2. Taken' = count /\ mode' = "Low"
      BY <2>5, <2>9 DEF Taken, TakesHigh
    <3>3. (Holds(Taken))'
      BY <2>5, <2>7, <3>2 DEF Holds
    <3> QED
      BY <2>1, <2>4, <2>5, <3>1, <3>2, <3>3 DEF InStep
  <2> QED
    BY <2>8, <2>9
<1>7. CASE ErasePage
  <2>1. /\ mode = "Erase" /\ mode' = "Program"
        /\ flash' = [a \in DOMAIN flash |-> IF InPage(a) THEN "bad" ELSE flash[a]]
        /\ UNCHANGED <<page, read, buffer, total, last, size, count, length, pc, spdr>>
    BY <1>7 DEF ErasePage
  <2>2. Holds(count) /\ page \in Nat
    BY <1>1, <2>1 DEF InStep
  <2>3. (Holds(count))'
    BY <2>1, <2>2, Numbers DEF Holds, InPage, Memories
  <2> QED
    BY <2>1, <2>3 DEF InStep
<1>8. CASE ProgramPage
  <2>1. /\ mode = "Program" /\ pc = "Pause" /\ page % PageSize = 0 /\ page + PageSize = count
        /\ total = (count - 1) % Byte /\ Holds(count) /\ ~last /\ size = Units
    BY <1>8 DEF ProgramPage, InStep
  <2>2. /\ flash' = [a \in DOMAIN flash |-> IF InPage(a) THEN buffer[a - page] ELSE flash[a]]
        /\ page' = page + PageSize /\ read' = 0 /\ mode' = "Low"
        /\ UNCHANGED <<total, last, size, count, length, pc, spdr>>
    BY <1>8, <2>1 DEF ProgramPage
  <2>3. page' % PageSize = 0 /\ 0 < PageSize /\ page' + read' = count
    <3>1. (page + PageSize) % PageSize = 0
      BY <1>1, <2>1, NextMultiple, Numbers, PageSize \in Nat \ {0}
    <3>2. page + PageSize + 0 = page + PageSize /\ 0 < PageSize
      BY <1>1, Numbers
    <3> QED
      BY <2>1, <2>2, <3>1, <3>2
  <2>4. ASSUME NEW a \in 0..(length - 1), a < page' PROVE flash'[a] = "new"
    <3>1. a \in DOMAIN flash /\ a \in Nat
      BY Numbers DEF Memories
    <3>2. CASE a < page
      BY <1>1, <2>1, <2>2, <3>1, <3>2 DEF Holds, InPage
    <3>3. CASE page <= a
      <4>1. a - page \in 0..(PageSize - 1) /\ page + (a - page) < count
        BY <1>1, <2>1, <2>2, <2>4, <3>1, <3>3, Numbers
      <4> QED
        BY <2>1, <2>2, <3>1, <4>1 DEF Holds, InPage
    <3> QED
      BY <1>1, <3>1, <3>2, <3>3
  <2>5. Taken' = count
    BY <2>2 DEF Taken, TakesHigh
  <2>6. (Holds(Taken))'
    BY <1>1, <2>2, <2>3, <2>4, <2>5, Numbers DEF Holds
  <2> QED
    BY <2>1, <2>2, <2>3, <2>5, <2>6 DEF InStep
<1> QED
  BY <1>2, <1>3, <1>4, <1>5, <1>6, <1>7, <1>8
  DEF CardStep, Boot, CountReset, EndSync, Leave, Start, Command

LEMMA CardKeeps ==
  ASSUME CopyInv, CardStep
  PROVE  CopyInv'
<1>1. CutInv' /\ Answers' /\ CardRests'
  BY CutInvCard, CardAnswers DEF CopyInv
<1>2. Memories' /\ UNCHANGED <<controller, world>>
  BY CardMemories DEF CopyInv
<1>3. UNCHANGED <<pc, count, result, length>>
  BY <1>2 DEF controller, world
<1>4. Waited => Waited'
  BY CardWaited DEF CopyInv
<1>5. Resetting => Resetting'
  BY CardResetting DEF CopyInv
<1>6. Confirmation => Confirmation'
  BY CardConfirmation DEF CopyInv
<1>7. Opening => Opening'
  BY CardOpening DEF CopyInv
<1>8. InStep => InStep'
  BY CardInStep DEF CopyInv
<1>9. Ended => Ended'
  BY CardEnded DEF CopyInv
<1>10. Protocol
  BY DEF CopyInv
<1>11. Protocol'
  BY <1>3, <1>4, <1>5, <1>6, <1>7, <1>8, <1>9, <1>10 DEF Protocol, Copying
<1> QED
  BY <1>1, <1>2, <1>11 DEF CopyInv

-----------------------------------------------------------------------------
\* A byte that ends nothing leaves what has ended.
LEMMA TransferEnded ==
  ASSUME NEW b, b \notin {Enter, Nothing}, Ended, Transfer(b)
  PROVE  Ended'
<1>1. UNCHANGED <<flag, flash, total, page, read, buffer, last, mode, resets, length>>
  BY DEF Transfer, memory, recording, world
<1>2. spdr' = spdr \/ spdr' = b
  BY DEF Transfer, registers
<1>3. mode = "Low" => spdr # Enter
  <2> SUFFICES ASSUME mode = "Low" PROVE spdr # Enter
    OBVIOUS
  <2>1. Nothing # Enter
    BY Bytes
  <2> QED
    BY <2>1 DEF Transfer, Ready
<1> QED
  BY <1>1, <1>2, <1>3 DEF Ended, Holds, IsCopied, EntersUpdateMode, Starting

\* What a step that does not touch the card leaves alone.
LEMMA CalculatesKeeps ==
  ASSUME CopyInv, UNCHANGED card, UNCHANGED length
  PROVE  /\ CutInv' /\ Answers' /\ CardRests' /\ (count' \in Nat => Memories')
         /\ (Ended => Ended') /\ (Waited => Waited')
<1>1. UNCHANGED <<flag, flash, total, page, read, buffer, low, last, spdr, answer, mode, resets,
                  unfinished, length>>
  BY DEF card, memory, recording, registers
<1>2. CutInv'
  BY <1>1 DEF CopyInv, CutInv, EntersUpdateMode
<1>3. Answers' /\ CardRests'
  BY <1>1 DEF CopyInv, Answers, CardRests, Units
<1>4. count' \in Nat => Memories'
  BY <1>1 DEF CopyInv, Memories
<1>5. Ended => Ended'
  BY <1>1 DEF Ended, Holds, IsCopied, EntersUpdateMode
<1>6. Waited => Waited'
  BY <1>1 DEF Waited
<1> QED
  BY <1>2, <1>3, <1>4, <1>5, <1>6

LEMMA TransferKeeps ==
  ASSUME CopyInv, NEW b, b # Nothing, Transfer(b), count' \in Nat
  PROVE  CutInv' /\ Answers' /\ CardRests' /\ Memories'
<1>1. UNCHANGED <<flag, flash, page, read, buffer, mode, unfinished, length>>
  BY DEF Transfer, memory, recording, world
<1>2. Answers' /\ CardRests'
  BY TransferAnswers DEF CopyInv
<1>3. CutInv' /\ Memories'
  BY <1>1 DEF CopyInv, CutInv, Memories, EntersUpdateMode
<1> QED
  BY <1>2, <1>3

LEMMA QueryKeeps == ASSUME CopyInv, SendQuery PROVE CopyInv'
<1>1. Query \notin {Enter, Nothing}
  BY Bytes
<1>2. pc = "Query" /\ Transfer(Query) /\ pc' \in {"Query", "Page"} /\ count' \in Nat /\ result' = result
  BY DEF SendQuery, CopyInv, Memories
<1>3. CutInv' /\ Answers' /\ CardRests' /\ Memories'
  BY <1>1, <1>2, TransferKeeps
<1>4. result = "ok" => Ended'
  BY <1>1, <1>2, TransferEnded DEF CopyInv, Protocol
<1>5. Protocol'
  BY <1>2, <1>4 DEF Protocol, Copying
<1> QED
  BY <1>3, <1>5 DEF CopyInv

\* The stop byte after a copy that is complete is taken as such.
LEMMA StopKeeps == ASSUME CopyInv, SendStop PROVE CopyInv'
<1>1. Enter # Nothing
  BY Bytes
<1>2. /\ pc = "Last" /\ Transfer(Enter) /\ pc' = "Query" /\ count' = 0 /\ result' = result
      /\ UNCHANGED <<flash, page, read, buffer, last, mode, length>>
  BY DEF SendStop, Draw, Transfer, memory, recording, world
<1>3. CutInv' /\ Answers' /\ CardRests' /\ Memories'
  BY <1>1, <1>2, TransferKeeps
<1>4. ASSUME result = "ok" PROVE Ended'
  <2>1. InStep /\ count = length
    BY <1>2, <1>4 DEF CopyInv, Protocol
  <2>2. mode \in {"First", "Low", "High"}
    BY <1>2, <2>1 DEF InStep
  <2>3. spdr = Nothing /\ spdr' = Enter
    BY <1>2, <2>2 DEF Transfer, Ready, Deaf
  <2>. count - 1 \in Nat
    BY <2>1, Numbers DEF CopyInv, Memories
  <2>4. Nibble(0, TRUE) # Nothing /\ Nibble(count - 1, TRUE) # Nothing
    BY Bytes, 0 \in Nat
  <2>5. mode = "Low" /\ ~last /\ read < PageSize /\ page + read = count /\ Holds(count)
    BY <1>2, <2>1, <2>3, <2>4 DEF InStep, Taken, TakesHigh
  <2>6. (Holds(length))'
    BY <1>2, <2>1, <2>5 DEF Holds
  <2> QED
    BY <1>2, <2>1, <2>3, <2>5, <2>6 DEF Ended
<1>5. Protocol'
  BY <1>2, <1>4 DEF Protocol, Copying
<1> QED
  BY <1>3, <1>5 DEF CopyInv

LEMMA WaitKeeps == ASSUME CopyInv, WaitForRestart PROVE CopyInv'
<1>1. /\ pc = "Wait" /\ RestartIsOver /\ pc' = "Confirm" /\ count' = 0 /\ result' = result
      /\ UNCHANGED card /\ UNCHANGED length
  BY DEF WaitForRestart, Calculates, world
<1>2. CutInv' /\ Answers' /\ CardRests' /\ Memories'
  BY <1>1, CalculatesKeeps
<1>3. Waited /\ result = "none"
  BY <1>1 DEF CopyInv, Protocol, Copying
<1>4. Resetting
  BY <1>1, <1>3, Bytes DEF Waited, Resetting, RestartIsOver, PageIsWritten, Ready, InLoop
<1>5. Resetting'
  BY <1>1, <1>4 DEF Resetting, card, registers
<1>6. Protocol'
  BY <1>1, <1>3, <1>5 DEF Protocol, Copying
<1> QED
  BY <1>2, <1>6 DEF CopyInv

LEMMA ConfirmKeeps == ASSUME CopyInv, Confirm PROVE CopyInv'
<1>1. Enter # Nothing
  BY Bytes
<1>2. /\ pc = "Confirm" /\ Transfer(Enter) /\ size' = Reply /\ count' = count + 1 /\ result' = result
      /\ pc' \in {"Confirm", "Open", "Query"}
      /\ UNCHANGED <<mode, last, resets>>
  BY DEF Confirm, Transfer, recording
<1>3. count \in Nat /\ result = "none" /\ Answers /\ CardRests
  BY <1>2 DEF CopyInv, Memories, Protocol, Copying
<1>4. CutInv' /\ Answers' /\ CardRests' /\ Memories'
  BY <1>1, <1>2, <1>3, TransferKeeps
<1>5. Ready => spdr = Nothing /\ spdr' = Enter
  BY <1>2 DEF Transfer, Ready, Deaf
<1>6. mode \notin {"First", "High"} /\ (mode \in {"Erase", "Program"} => last)
  BY <1>2, <1>3 DEF CopyInv, Protocol, Resetting, Confirmation
<1>7. mode = "Sync" => size' = Units
  BY <1>2, <1>3, <1>5, Replies DEF Ready
<1>8. Confirmation'
  BY <1>2, <1>5, <1>6, <1>7 DEF Confirmation, Ready, Units
<1>9. count' # 0
  BY <1>2, <1>3
<1>10. Protocol'
  BY <1>2, <1>3, <1>8, <1>9 DEF Protocol, Copying
<1> QED
  BY <1>4, <1>10 DEF CopyInv

LEMMA OpenKeeps == ASSUME CopyInv, OpenFile PROVE CopyInv'
<1>1. /\ pc = "Open" /\ count' = 0 /\ UNCHANGED card /\ UNCHANGED <<length, size>>
      /\ \/ pc' = "Read" /\ result' = result
         \/ pc' = "Last" /\ result' = "failed"
  BY DEF OpenFile, Calculates, world
<1>2. CutInv' /\ Answers' /\ CardRests' /\ Memories'
  BY <1>1, CalculatesKeeps
<1>3. Confirmation /\ result = "none"
  BY <1>1 DEF CopyInv, Protocol, Copying
<1>4. Confirmation'
  BY <1>1, <1>3 DEF Confirmation, card, registers, recording, Units
<1>5. Protocol'
  BY <1>1, <1>3, <1>4 DEF Protocol, Copying
<1> QED
  BY <1>2, <1>5 DEF CopyInv

\* Reading leaves the two ends where they are.
LEMMA ReadKeeps == ASSUME CopyInv, ReadFile PROVE CopyInv'
<1>1. /\ pc = "Read" /\ UNCHANGED card /\ UNCHANGED <<length, size, count>>
      /\ \/ count = length /\ pc' = "Last" /\ result' = "ok"
         \/ count # length /\ pc' = "Low" /\ result' = result
  BY DEF ReadFile, Calculates, world
<1>2. count \in Nat /\ length \in Nat /\ length # 0 /\ result = "none"
  BY <1>1, Numbers DEF CopyInv, Memories, Protocol, Copying
<1>3. CutInv' /\ Answers' /\ CardRests' /\ Memories'
  BY <1>1, <1>2, CalculatesKeeps
<1>4. UNCHANGED <<flag, flash, total, page, read, buffer, low, last, spdr, answer, mode, resets>>
  BY <1>1 DEF card, memory, recording, registers
<1>5. CASE count = 0
  <2>1. Confirmation
    BY <1>1, <1>5 DEF CopyInv, Protocol
  <2>2. Confirmation'
    BY <1>1, <1>4, <2>1 DEF Confirmation, Units
  <2>3. Protocol'
    BY <1>1, <1>2, <1>5, <2>2 DEF Protocol, Copying
  <2> QED
    BY <1>3, <2>3 DEF CopyInv
<1>6. CASE count # 0
  <2>1. InStep
    BY <1>1, <1>6 DEF CopyInv, Protocol
  <2>2. InStep'
    <3>1. Taken' = Taken /\ (Holds(Taken) => Holds(Taken)') /\ Units' = Units
      BY <1>1, <1>4 DEF Taken, TakesHigh, Holds, Units
    <3>2. (pc \in {"Low", "High"} => count < length)'
      BY <1>1, <1>2, <2>1 DEF InStep
    <3>3. pc' \in {"Low", "Last"} /\ mode \notin {"Erase", "Program"}
      BY <1>1, <2>1 DEF InStep
    <3> QED
      BY <1>1, <1>4, <2>1, <3>1, <3>2, <3>3 DEF InStep
  <2>3. Protocol'
    BY <1>1, <1>2, <1>6, <2>2 DEF Protocol, Copying
  <2> QED
    BY <1>3, <2>3 DEF CopyInv
<1> QED
  BY <1>5, <1>6

LEMMA LowNibbleKeeps == ASSUME CopyInv, SendLowNibble PROVE CopyInv'
<1> DEFINE b == Nibble(count, FALSE)
<1>0. pc = "Low" /\ Transfer(b) /\ pc' = "High" /\ UNCHANGED <<count, size, result>>
  BY Zenon DEF SendLowNibble
<1> HIDE DEF b
<1>1. /\ pc = "Low" /\ Transfer(b) /\ pc' = "High" /\ UNCHANGED <<count, size, result>>
      /\ UNCHANGED <<flash, total, page, read, buffer, low, last, mode, resets, length>>
  BY <1>0 DEF Transfer, memory, recording, world
<1>2. count \in Nat /\ result = "none" /\ CardRests
  BY <1>1 DEF CopyInv, Memories, Protocol, Copying
<1>3. b # Nothing
  BY <1>2, Bytes DEF b
<1>4. CutInv' /\ Answers' /\ CardRests' /\ Memories'
  BY <1>1, <1>2, <1>3, TransferKeeps
<1>5. Ready => spdr = Nothing /\ spdr' = b
  BY <1>1 DEF Transfer, Ready, Deaf
<1>6. CASE count = 0
  <2>1. Confirmation /\ Nothing # Enter
    BY <1>1, <1>6, Bytes DEF CopyInv, Protocol
  <2>2. mode \notin {"Low", "First", "High"} /\ (mode \in {"Erase", "Program"} => last)
    BY <1>5, <2>1 DEF Confirmation, Ready
  <2>3. mode = "Sync" => spdr' = b /\ (size = Units \/ resets = 0)
    BY <1>5, <2>1 DEF Confirmation, Ready
  <2>4. Opening'
    BY <1>1, <1>6, <2>2, <2>3 DEF Opening, Units, b
  <2>5. Protocol'
    BY <1>1, <1>2, <1>6, <2>4 DEF Protocol, Copying
  <2> QED
    BY <1>4, <2>5 DEF CopyInv
<1>7. CASE count # 0
  <2>1. InStep
    BY <1>1, <1>7 DEF CopyInv, Protocol
  <2>2. mode \in {"First", "Low", "High"}
    BY <1>1, <2>1 DEF InStep
  <2>3. spdr = Nothing /\ spdr' = b
    BY <1>5, <2>2 DEF Ready
  <2>4. Nibble(0, TRUE) # Nothing /\ Nibble(count - 1, TRUE) # Nothing
    BY <1>2, <1>7, Bytes, 0 \in Nat, count - 1 \in Nat
  <2>5. /\ mode = "Low" /\ page % PageSize = 0 /\ read < PageSize /\ page + read = count /\ Holds(count)
        /\ total = (count - 1) % Byte /\ ~last /\ size = Units /\ count \in 1..length /\ count < length
    BY <1>1, <2>1, <2>3, <2>4 DEF InStep, Taken, TakesHigh
  <2>6. Taken' = count /\ (Holds(count))'
    BY <1>1, <2>5 DEF Taken, TakesHigh, Holds
  <2>7. (Holds(Taken))' /\ Units' = Units
    BY <1>1, <2>6 DEF Holds, Units
  <2>8. InStep'
    BY <1>1, <2>3, <2>5, <2>6, <2>7 DEF InStep, b
  <2>9. Protocol'
    BY <1>1, <1>2, <1>7, <2>8 DEF Protocol, Copying
  <2> QED
    BY <1>4, <2>9 DEF CopyInv
<1> QED
  BY <1>6, <1>7

\* The first byte that gets the expected reply is one the card has taken for the
\* first; it is in step then, and so it stays.
LEMMA HighNibbleKeeps == ASSUME CopyInv, SendHighNibble PROVE CopyInv'
<1> DEFINE b == Nibble(count, TRUE)
<1>1. /\ pc = "High" /\ Transfer(b) /\ UNCHANGED size
      /\ UNCHANGED <<flash, total, page, read, buffer, low, last, mode, resets, length>>
  BY DEF SendHighNibble, Transfer, memory, recording, world
<1>2. count \in Nat /\ result = "none" /\ CardRests /\ Answers /\ length \in Nat /\ length # 0
  BY <1>1, Numbers DEF CopyInv, Memories, Protocol, Copying
<1>3. b # Nothing
  BY <1>2, Bytes
<1> HIDE DEF b
<1>4. count' \in Nat
  BY <1>2 DEF SendHighNibble
<1>5. CutInv' /\ Answers' /\ CardRests' /\ Memories'
  BY <1>1, <1>3, <1>4, TransferKeeps
<1>6. Ready => spdr = Nothing /\ spdr' = b
  BY <1>1 DEF Transfer, Ready, Deaf
<1>7. CASE Reply # count % Byte
  <2>1. pc' = "Last" /\ result' = "failed"
    BY <1>7 DEF SendHighNibble, IsExpected
  <2>2. Protocol'
    BY <2>1 DEF Protocol, Copying
  <2> QED
    BY <1>5, <2>2 DEF CopyInv
<1>8. CASE Reply = count % Byte
  <2>1. /\ count' = count + 1 /\ result' = result
        /\ pc' = CASE ~EndsChunk(count') -> "Low"
                   [] EndsChunk(count') /\ PageIsFull(count') -> "Pause"
                   [] OTHER -> "Read"
    BY <1>8 DEF SendHighNibble, IsExpected
  <2>2. pc' \in {"Low", "Pause", "Read"}
    BY <2>1
  <2>3. ASSUME size = Units PROVE count' % PageSize = 0 => pc' = "Pause"
    <3>1. PageIsFull(count') <=> count' % PageSize = 0
      BY <2>3, UnitsOfAPage DEF PageIsFull
    <3>2. count' % PageSize = 0 => count' % Chunk = 0
      BY <1>4, UnitsOfAPage
    <3>3. count' % Chunk = 0 => EndsChunk(count')
      BY DEF EndsChunk
    <3> QED
      BY <2>1, <3>1, <3>2, <3>3
  <2>4. ASSUME count < length PROVE count' \in 1..length /\ (pc' = "Low" => count' < length)
    <3>1. pc' = "Low" => ~EndsChunk(count')
      BY <2>1
    <3>2. ~EndsChunk(count') => count' # length
      BY DEF EndsChunk
    <3> QED
      BY <1>2, <2>1, <2>4, <3>1, <3>2
  <2>5. count' # 0 /\ count' - 1 = count
    BY <1>2, <2>1
  <2>6. InStep'
    <3>1. CASE count = 0
      <4>1. Opening
        BY <1>1, <3>1 DEF CopyInv, Protocol
      <4>2. Reply = 0
        BY <1>8, <3>1, Counts
      <4>3. mode = "First" /\ spdr = Nothing
        BY <1>2, <4>1, <4>2, Replies, UnitsOfAPage, Numbers DEF Opening, Echo
      <4>4. spdr' = Nibble(0, TRUE) /\ low' = Nibble(0, FALSE) /\ size = Units /\ mode' = "First" /\ count' = 1
        BY <1>1, <1>6, <2>1, <3>1, <4>1, <4>3 DEF Opening, Ready, b
      <4>5. count < length
        BY <1>2, <3>1
      <4>6. pc' # "Pause"
        <5>1. ~PageIsFull(1)
          BY <4>4, UnitsOfAPage, Numbers DEF PageIsFull
        <5> QED
          BY <2>1, <4>4, <5>1
      <4>7. last = FALSE
        BY <1>2, <4>3 DEF CardRests, Starting
      <4>8. ~last' /\ (size = Units)' /\ (count \in 1..length)' /\ (pc' = "Low" => count' < length')
        BY <1>1, <2>4, <4>4, <4>5, <4>7 DEF Units
      <4> QED
        BY <2>2, <4>4, <4>6, <4>8 DEF InStep
    <3>2. CASE count # 0
      <4>1. InStep
        BY <1>1, <3>2 DEF CopyInv, Protocol
      <4>2. mode \in {"Low", "High"}
        BY <1>1, <4>1 DEF InStep
      <4>3. spdr = Nothing /\ spdr' = b
        BY <1>6, <4>2 DEF Ready
      <4>4. Nibble(count, FALSE) # Nothing
        BY <1>2, Bytes
      <4>5. /\ mode = "High" /\ low = Nibble(count, FALSE) /\ total = count % Byte
            /\ page % PageSize = 0 /\ read < PageSize /\ page + read = count /\ Holds(count)
            /\ ~last /\ size = Units /\ count < length
        BY <1>1, <4>1, <4>2, <4>3, <4>4 DEF InStep, Taken, TakesHigh
      <4>6. Taken' = count
        BY <1>1, <1>3, <2>5, <4>3, <4>5 DEF Taken, TakesHigh
      <4>7. (Holds(Taken))'
        BY <1>1, <4>5, <4>6 DEF Holds
      <4>8. ~last' /\ (size = Units)' /\ (count \in 1..length)' /\ (pc' = "Low" => count' < length')
        BY <1>1, <2>4, <4>5 DEF Units
      <4>9. /\ mode' = "High" /\ page' % PageSize = 0 /\ read' < PageSize /\ page' + read' = Taken'
            /\ spdr' = Nibble(count' - 1, TRUE) /\ low' = Nibble(count' - 1, FALSE)
            /\ total' = (count' - 1) % Byte
        BY <1>1, <2>5, <4>3, <4>5, <4>6 DEF b
      <4> QED
        BY <2>2, <2>3, <4>5, <4>7, <4>8, <4>9 DEF InStep
    <3> QED
      BY <3>1, <3>2
  <2>7. Protocol'
    BY <1>2, <2>1, <2>2, <2>5, <2>6 DEF Protocol, Copying
  <2> QED
    BY <1>5, <2>7 DEF CopyInv
<1> QED
  BY <1>7, <1>8

\* When the pause is over the page is written.
LEMMA PauseKeeps == ASSUME CopyInv, Pause PROVE CopyInv'
<1>1. /\ pc = "Pause" /\ PageIsWritten /\ pc' = "Read" /\ UNCHANGED <<count, size, result>>
      /\ UNCHANGED card /\ UNCHANGED length
  BY DEF Pause, Calculates, world
<1>2. count \in Nat /\ result = "none" /\ InStep
  BY <1>1 DEF CopyInv, Memories, Protocol, Copying
<1>3. CutInv' /\ Answers' /\ CardRests' /\ Memories'
  BY <1>1, <1>2, CalculatesKeeps
<1>4. UNCHANGED <<flash, total, page, read, buffer, low, last, spdr, mode>>
  BY <1>1 DEF card, memory, recording, registers
<1>5. mode \in {"Low", "High"} /\ spdr = Nothing
  BY <1>1, <1>2 DEF InStep, PageIsWritten, Ready
<1>6. Nibble(count - 1, TRUE) # Nothing /\ count # 0
  <2>1. count - 1 \in Nat /\ count # 0
    BY <1>2, Numbers DEF InStep, CopyInv, Memories
  <2> QED
    BY <2>1, Bytes
<1>7. Taken' = Taken /\ (Holds(Taken) => Holds(Taken)') /\ Units' = Units
  BY <1>1, <1>4 DEF Taken, TakesHigh, Holds, Units
<1>8. InStep'
  BY <1>1, <1>2, <1>4, <1>5, <1>6, <1>7 DEF InStep
<1>9. Protocol'
  BY <1>1, <1>2, <1>6, <1>8 DEF Protocol, Copying
<1> QED
  BY <1>3, <1>9 DEF CopyInv

LEMMA UpdateKeeps == ASSUME CopyInv, UpdateVoiceCard PROVE CopyInv'
<1>1. /\ Transfer(Enter) /\ pc' = "Wait" /\ result' = "none" /\ UNCHANGED <<count, mode>>
  BY DEF UpdateVoiceCard, Transfer
<1>2. CutInv' /\ Answers' /\ CardRests' /\ Memories'
  BY <1>1, TransferKeeps, Bytes DEF CopyInv, Memories
<1>3. mode \in InLoop => spdr' = Enter
  BY <1>1 DEF Transfer, Deaf, InLoop
<1>4. Waited'
  BY <1>1, <1>3 DEF Waited, InLoop
<1>5. Protocol'
  BY <1>1, <1>4 DEF Protocol, Copying
<1> QED
  BY <1>2, <1>5 DEF CopyInv

\* The screen, and the SD card.
LEMMA PlayerKeeps ==
  ASSUME CopyInv, Look \/ Redraw \/ PullCard \/ InsertCard \/ UNCHANGED vars
  PROVE  CopyInv'
<1>1. CASE Look \/ Redraw
  <2>1. /\ pc \in {"Off", "Page"} /\ pc' = "Query" /\ count' = 0 /\ result' = result
        /\ UNCHANGED card /\ UNCHANGED length
    BY <1>1 DEF Look, Redraw, Draw
  <2>2. CutInv' /\ Answers' /\ CardRests' /\ Memories'
    BY <2>1, CalculatesKeeps
  <2>3. result = "ok" => Ended'
    BY <2>1, CalculatesKeeps DEF CopyInv, Protocol
  <2>4. Protocol'
    BY <2>1, <2>3 DEF Protocol, Copying
  <2> QED
    BY <2>2, <2>4 DEF CopyInv
<1>2. CASE PullCard \/ InsertCard \/ UNCHANGED vars
  <2>1. UNCHANGED <<card, controller, length>>
    BY <1>2 DEF PullCard, InsertCard, vars, world
  <2>2. UNCHANGED <<pc, count, size, result, mode, spdr, resets, low, last, page, read, buffer, flash>>
    BY <2>1 DEF card, controller, memory, recording, registers
  <2>3. CutInv' /\ Answers' /\ CardRests' /\ Memories' /\ (Ended => Ended') /\ (Waited => Waited')
    BY <2>1, <2>2, CalculatesKeeps DEF CopyInv, Memories
  <2>4. (Resetting => Resetting') /\ (Confirmation => Confirmation') /\ (Opening => Opening')
    BY <2>2 DEF Resetting, Confirmation, Opening, Units
  <2>5. InStep => InStep'
    <3>1. UNCHANGED <<total, length>>
      BY <2>1 DEF card, recording
    <3>2. Taken' = Taken
      BY <2>2 DEF Taken, TakesHigh
    <3>3. (Holds(Taken) => Holds(Taken)') /\ (Holds(count) => Holds(count)') /\ Units' = Units
      BY <2>2, <3>1, <3>2 DEF Holds, Units
    <3> QED
      BY <2>2, <3>1, <3>2, <3>3 DEF InStep
  <2>6. Protocol'
    BY <2>1, <2>2, <2>3, <2>4, <2>5 DEF CopyInv, Protocol
  <2> QED
    BY <2>3, <2>6 DEF CopyInv
<1> QED
  BY <1>1, <1>2

\* No power failure, removed card or stray screen makes a copy that ended without
\* an error start anything but the file (SpiCopy and the replies of bootloader.cc).
THEOREM CompleteCopies == Spec => []CompleteCopyIsTheFile
<1>1. CopyInv /\ [Next]_vars => CopyInv'
  <2> SUFFICES ASSUME CopyInv, [Next]_vars PROVE CopyInv'
    OBVIOUS
  <2>1. CASE CardStep
    BY <2>1, CardKeeps
  <2>2. CASE ControllerStep
    BY <2>2, QueryKeeps, WaitKeeps, ConfirmKeeps, OpenKeeps, ReadKeeps, LowNibbleKeeps,
       HighNibbleKeeps, PauseKeeps, StopKeeps DEF ControllerStep
  <2>3. CASE UpdateVoiceCard
    BY <2>3, UpdateKeeps
  <2>4. CASE Look \/ Redraw \/ PullCard \/ InsertCard \/ UNCHANGED vars
    BY <2>4, PlayerKeeps
  <2>5. CASE PowerFails \/ TurnOffAndOn
    BY <2>5, PowerEnded
  <2> QED
    BY <2>1, <2>2, <2>3, <2>4, <2>5 DEF Next
<1>2. CopyInv => CompleteCopyIsTheFile
  BY DEF CopyInv, Protocol, InStep, Ended, CompleteCopyIsTheFile, IsCopied
<1> QED
  BY <1>1, <1>2, CopyInvInit, PTL DEF Spec
=============================================================================
