------------------------------ MODULE MidiPort -------------------------------
(***************************************************************************)
(* The MIDI input and output of the controller: what comes in is parsed    *)
(* (MidiParser), forwarded, and put together to SysEx commands             *)
(* (SysExReceiver); what goes out waits in two queues, which the timer     *)
(* interrupt empties byte by byte, the one for realtime bytes first, and   *)
(* is parsed by the next unit of a chain, which follows the edits made on  *)
(* this one (ParameterEdits).  The SD card shares its buffer with the      *)
(* SysEx reception.                                                        *)
(*                                                                         *)
(* Bounds: the bytes a setup sends, and its room for the low-priority      *)
(* queue (128 in the code, where a full queue is not noticed) and for the  *)
(* other (8).                                                              *)
(***************************************************************************)
EXTENDS MidiParser, SysExReceiver, ParameterEdits, SequencesExt

CONSTANTS Setups, Channels     \* of the parts

Setup ==
  [mode   : {"THRU", "SEQUENCER", "CONTROLLER", "CHAIN", "FULL"},
   bytes  : SUBSET (0..255),       \* which bytes come in
   inside : BOOLEAN,               \* realtime bytes come inside messages
   sysex  : BOOLEAN,               \* SysEx reception is on
   longest: Nat,                   \* the longest SysEx message that comes in
   room   : Nat,                   \* of the queues
   edited : SUBSET (Channels \X Addresses),    \* what is edited of which part
   sends  : SUBSET {"Note", "Clock", "Program", "Card"}]

ASSUME MidiPortAssumption == Channels \subseteq 0..15 /\ \A s \in Setups : s \in Setup

None == [command |-> <<>>, data |-> <<>>]

VARIABLES
  parser,     \* midi_parser
  rx,         \* the SysEx reception
  done,       \* the command the last byte has completed
  low, high,  \* OutputBufferLowPriority, OutputBufferHighPriority
  next,       \* the parser of the next unit
  editor,     \* what OnEdit remembers
  ours,       \* the parameters of this unit, by channel
  theirs,     \* the parts of the next unit
  message,    \* history: the SysEx message so far, empty when it is not for us
  touched,    \* history: the card was used since its first byte
  due, dueNow,\* history: the messages in each queue
  told,       \* history: the address edited last, and what each part there is to know
  astray,     \* history: the parameters that an edit without its address has spoilt there
  setup       \* never changes

input  == <<parser, rx, done, message, touched>>
output == <<low, high, due, dueNow>>
remote == <<next, theirs>>
edits  == <<editor, ours, told, astray>>
vars   == <<input, output, remote, edits, setup>>

Init ==
  /\ setup \in Setups
  /\ parser = PowerUp /\ next = PowerUp /\ done = None
  /\ rx = [state |-> "HEADER", received |-> 0, checksum |-> 0, command |-> <<0, 0>>,
           expected |-> 0, buffer |-> [i \in 0..(BufferSize - 1) |-> 0]]
  /\ low = <<>> /\ high = <<>> /\ due = <<>> /\ dueNow = <<>>
  /\ editor = [address |-> NoAddress, entries |-> 0]
  /\ ours = [c \in Channels |-> [a \in Addresses |-> CHOOSE v \in Limits[a] : TRUE]]
  /\ theirs = [c \in Channels |-> [nrpn |-> 0, nrpnMsb |-> 0, entryMsb |-> 0, values |-> ours[c]]]
  /\ message = <<>> /\ touched = FALSE
  /\ told = [last |-> NoAddress, at |-> [c \in Channels |-> NoAddress]] /\ astray = {}

-----------------------------------------------------------------------------
\* The main loop takes a byte of the input.

\* What a sender may send next: data after a status, the end of a SysEx message
\* after its beginning; a realtime byte at any time, unless it comes inside a
\* message.
MaySend(b) ==
  /\ b \in setup.bytes
  /\ ~IsStatus(b) => parser.status # 0
  /\ b = \hF7 => parser.status = \hF0
  /\ IsRealtime(b) => setup.inside \/ parser.data = <<>>
  /\ parser.status = \hF0 /\ ~IsStatus(b) => Len(message) < setup.longest

IsForwarded(b) ==
  \/ setup.mode \in {"THRU", "FULL"}
  \/ setup.mode = "CHAIN" /\ NotANote(parser, b)

Executed(b) ==
  IF Accepts(rx, b, setup.sysex) /\ Known(rx.command[1])
  THEN [command |-> rx.command, data |-> [i \in 0..(rx.expected - 1) |-> rx.buffer[i]]]
  ELSE None

ReceiveByte(b) ==
  LET h     == Hears(parser, b)
      out   == Forward(setup.mode, parser, b)
      sysex == h # <<>> /\ (h[1] \in {\hF0, \hF7} \/ ~IsStatus(h[1]))
  IN  /\ MaySend(b)
      /\ Len(low) + Len(out) <= setup.room
      /\ parser' = PushByte(parser, b)
      /\ low' = low \o out
      /\ due' = IF h # <<>> /\ IsForwarded(b) THEN Append(due, h) ELSE due
      /\ IF sysex
         THEN /\ rx' = Receive(rx, b, setup.sysex)
              /\ done' = Executed(b)
              /\ message' = IF b = \hF0 THEN <<b>>
                            ELSE IF message # <<>> /\ Begins(message) THEN Append(message, b)
                            ELSE <<>>
              /\ touched' = (touched /\ b # \hF0)
         ELSE UNCHANGED <<rx, message, touched>> /\ done' = None
      /\ UNCHANGED <<high, dueNow, remote, edits, setup>>

\* A file is read or written: the sector buffer holds something else.
UseCard ==
  /\ "Card" \in setup.sends
  /\ \E byte \in {0, 1} :
       rx' = [InvalidatePendingSysExTransfer(rx) EXCEPT !.buffer = [i \in DOMAIN @ |-> byte]]
  /\ touched' = TRUE
  /\ UNCHANGED <<parser, done, message, output, remote, edits, setup>>

-----------------------------------------------------------------------------
\* The main loop sends.
Queue(messages) ==
  /\ Len(low) + Len(FlattenSeq(messages)) <= setup.room
  /\ low' = low \o FlattenSeq(messages)
  /\ due' = due \o messages
  /\ UNCHANGED <<high, dueNow, input, remote, setup>>

\* The sequencer plays a note: OnNote.
SendNote ==
  /\ "Note" \in setup.sends /\ setup.mode = "SEQUENCER"
  /\ Queue(<<<<\h90, 60, 100>>>>)
  /\ UNCHANGED edits

\* The sequencer's clock, start and stop: OnClock, OnStart, OnStop.
SendClock(b) ==
  /\ "Clock" \in setup.sends /\ setup.mode = "SEQUENCER"
  /\ Len(high) < setup.room
  /\ high' = Append(high, b) /\ dueNow' = Append(dueNow, <<b>>)
  /\ UNCHANGED <<low, due, input, remote, edits, setup>>

\* OnProgramLoaded: the last byte, an active sensing message, does nothing.
SendProgram ==
  /\ "Program" \in setup.sends /\ setup.mode = "FULL"
  /\ Queue(<<<<\hB0, \h20, 2>>, <<\hC0, 1>>, <<\hFE>>>>)
  /\ UNCHANGED edits

\* OnEdit.  It leaves out the address of the edit before, which may have been of another
\* part: then what is sent goes to the parameter this part was last told of, if any.
SendEdit(c, a, v) ==
  /\ <<c, a>> \in setup.edited /\ setup.mode \in {"CONTROLLER", "CHAIN", "FULL"}
  /\ ours' = [ours EXCEPT ![c][a] = v]
  /\ editor' = OnEdit(editor, a)
  /\ LET again == a = told.last /\ editor.entries + 1 < ResendRate
         at    == IF again THEN told.at[c] ELSE a
     IN  /\ told' = [last |-> a, at |-> [told.at EXCEPT ![c] = at]]
         /\ astray' = IF at = a THEN astray \ {<<c, a>>} ELSE astray \cup {<<c, a>>, <<c, at>>}
  /\ Queue(EditMessages(editor, setup.mode, c, a, v))

-----------------------------------------------------------------------------
\* The timer interrupt sends a byte, which the next unit takes.
Arrives(b) ==
  LET h == Hears(next, b)
  IN  /\ next' = PushByte(next, b)
      /\ IF h # <<>> /\ High(h[1]) = \hB0 /\ h[1] % 16 \in Channels
         THEN \E part \in ControlChange(theirs[h[1] % 16], h[2], h[3]) :
                theirs' = [theirs EXCEPT ![h[1] % 16] = part]
         ELSE UNCHANGED theirs

FlushHigh ==
  /\ high # <<>>
  /\ high' = Tail(high)
  /\ Arrives(high[1])
  /\ dueNow' = IF Hears(next, high[1]) # <<>> /\ dueNow # <<>> THEN Tail(dueNow) ELSE dueNow
  /\ UNCHANGED <<low, due, input, edits, setup>>

FlushLow ==
  /\ high = <<>> /\ low # <<>>
  /\ low' = Tail(low)
  /\ Arrives(low[1])
  /\ due' = IF Hears(next, low[1]) # <<>> /\ due # <<>> THEN Tail(due) ELSE due
  /\ UNCHANGED <<high, dueNow, input, edits, setup>>

AnyByte  == UNION {s.bytes : s \in Setups}
AnyValue == UNION {Limits[a] : a \in Addresses}

Next ==
  \/ \E b \in AnyByte : ReceiveByte(b)
  \/ UseCard
  \/ SendNote \/ SendProgram
  \/ \E b \in {\hF8, \hFA, \hFC} : SendClock(b)
  \/ \E c \in Channels, a \in Addresses, v \in AnyValue : v \in Limits[a] /\ SendEdit(c, a, v)
  \/ FlushHigh \/ FlushLow

Spec == Init /\ [][Next]_vars

-----------------------------------------------------------------------------
\* The next unit hears the same messages in the same order, less the notes in a
\* chain: nothing is lost, made up, or cut in two, wherever the realtime bytes of
\* the other queue fall (midi_dispatcher.h RawMidiData, ProcessSysEx).
NextUnitHearsTheSame ==
  [][/\ FlushLow /\ Hears(next, low[1]) # <<>> =>
          due # <<>> /\ Hears(next, low[1]) = due[1]
     /\ FlushHigh => dueNow # <<>> /\ Hears(next, high[1]) = dueNow[1]
     /\ low' = <<>> => due' = <<>>]_vars

\* Whatever is edited of which part, and in whichever order, the next unit has the same
\* value at the same address of the same part when the queues are empty (a chain of units
\* is the exception OnEdit makes).  Left out are the parameters gone astray: OnEdit has
\* one memory of the last address for all parts (midi_dispatcher.h:303-306), each part of
\* the next unit has its own, and an edit of the address another part was just sent is
\* put down to the address this part was last sent.  Such an edit spoils these two
\* parameters of its part and no other, until they are edited again.
EditsReachTheNextUnit ==
  low = <<>> /\ high = <<>> =>
    \A c \in Channels, a \in Addresses :
      <<c, a>> \notin astray => theirs[c].values[a] = Remap(setup.mode, a, ours[c][a])

\* A command is carried out exactly when its message came whole, with a good
\* checksum, and the card was not used meanwhile; and with the data of that
\* message (storage.cc:907, InvalidatePendingSysExTransfer).  Left out are messages
\* that leave the header right before their end.
CommandNeedsWholeMessage ==
  [][\A b \in AnyByte : ReceiveByte(b) =>
       /\ b = \hF7 /\ parser.status = \hF0 /\ Begins(message) =>
            (done' # None <=> message # <<>> /\ IsWhole(message) /\ ~touched /\ setup.sysex)
       /\ done' # None /\ message # <<>> /\ Begins(message) =>
            /\ done'.command = SubSeq(message, Len(Header) + 1, Len(Header) + 2)
            /\ \A i \in DOMAIN done'.data : done'.data[i] = DataByte(message, i)]_vars
=============================================================================
