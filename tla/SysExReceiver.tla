---------------------------- MODULE SysExReceiver ----------------------------
(***************************************************************************)
(* The reception of SysEx commands, byte by byte (Storage::SysExReceive    *)
(* and the functions it calls in src/controller/storage.cc), as functions  *)
(* of a record r:                                                          *)
(*                                                                         *)
(*   r.state     sysex_rx_state_                                           *)
(*   r.received  sysex_rx_bytes_received_                                  *)
(*   r.checksum  sysex_rx_checksum_                                        *)
(*   r.command   sysex_rx_command_                                         *)
(*   r.expected  sysex_rx_expected_size_                                   *)
(*   r.buffer    buffer_, which is the sector buffer of the file system    *)
(*                                                                         *)
(* Every data byte comes in two bytes, its high half first.                *)
(***************************************************************************)
EXTENDS Integers, Sequences

CONSTANTS Header,      \* sysex_header, of which the first byte is \hF0
          DumpSize,    \* object_size, by command
          BufferSize   \* 512: the bytes of a sector

ASSUME SysExAssumption ==
  /\ Header \in Seq(0..255) /\ Header # <<>> /\ Header[1] = \hF0
  /\ BufferSize \in Nat /\ \A c \in DOMAIN DumpSize : DumpSize[c] \in 0..(BufferSize - 1)

Requests     == \h11..\h15
NameRequests == {\h16, \h17, \h18, \h19}
Poke         == \h0F
Peek         == \h1F

Known(c) == c \in DOMAIN DumpSize \cup Requests \cup NameRequests \cup {Poke, Peek}

\* The data bytes of a command, without the checksum.
Size(c, argument) ==
  CASE c \in DOMAIN DumpSize -> DumpSize[c]
    [] c = Poke              -> 2 + argument
    [] c = Peek              -> 2
    [] c \in NameRequests    -> 1
    [] OTHER                 -> 0

ParseCommand(r) ==
  LET c == r.command[1]
  IN  IF Known(c) THEN [r EXCEPT !.received = 0, !.state = "DATA", !.expected = Size(c, r.command[2])]
      ELSE [r EXCEPT !.received = 0, !.state = "FOOTER"]

ReceiveHeader(r, b) ==
  IF Header[r.received + 1] # b THEN [r EXCEPT !.state = "FOOTER"]
  ELSE IF r.received + 1 < Len(Header) THEN [r EXCEPT !.received = @ + 1]
  ELSE [r EXCEPT !.state = "COMMAND", !.received = 0]

ReceiveCommand(r, b) ==
  LET n == [r EXCEPT !.command[r.received + 1] = b, !.received = @ + 1]
  IN  IF n.received = 2 THEN ParseCommand(n) ELSE n

\* The data and then the checksum, which is not summed.
ReceiveData(r, b) ==
  LET i    == r.received \div 2
      low  == r.received % 2 = 1
      byte == IF low THEN r.buffer[i] + (b % 16) ELSE (16 * b) % 256
  IN  [r EXCEPT !.buffer[i] = byte,
                !.checksum = IF low /\ i < r.expected THEN (@ + byte) % 256 ELSE @,
                !.received = @ + 1,
                !.state = IF r.received + 1 >= 2 * (1 + r.expected) THEN "FOOTER" ELSE @]

\* The last byte of a message whose command will be carried out.
Accepts(r, b, enabled) ==
  /\ r.state = "FOOTER" /\ b = \hF7 /\ enabled
  /\ r.checksum = r.buffer[r.expected]

ReceiveFooter(r, b, enabled) ==
  [r EXCEPT !.state = IF Accepts(r, b, enabled) /\ Known(r.command[1]) THEN "OK" ELSE "ERROR"]

StartReception(r) == [r EXCEPT !.checksum = 0, !.received = 0, !.state = "HEADER"]

Receive(r0, b, enabled) ==
  LET r == IF b = \hF0 THEN StartReception(r0) ELSE r0
  IN  CASE r.state = "HEADER"  -> ReceiveHeader(r, b)
        [] r.state = "COMMAND" -> ReceiveCommand(r, b)
        [] r.state = "DATA"    -> ReceiveData(r, b)
        [] r.state = "FOOTER"  -> ReceiveFooter(r, b, enabled)
        [] OTHER               -> r

InvalidateLater(r) == r      \* variant: a transfer survives the use of the card

\* The file system is about to use the sector buffer.
InvalidatePendingSysExTransfer(r) == [r EXCEPT !.state = "ERROR"]

-----------------------------------------------------------------------------
\* What a whole message is, for the properties.
BodyLength(m) == 2 * (1 + Size(m[Len(Header) + 1], m[Len(Header) + 2]))

DataByte(m, i) == (16 * m[Len(Header) + 3 + 2 * i] + (m[Len(Header) + 4 + 2 * i] % 16)) % 256

\* The beginning of a message to this unit, up to its last byte.
Begins(m) ==
  LET h == Len(Header)
  IN  /\ \A i \in 1..Len(m) : IF i <= h THEN m[i] = Header[i] ELSE m[i] < 128
      /\ Len(m) > h => Known(m[h + 1])
      /\ Len(m) > h + 1 => Len(m) <= h + 2 + BodyLength(m)

Sum(m, n) ==
  LET s[i \in 0..n] == IF i = 0 THEN 0 ELSE (s[i - 1] + DataByte(m, i - 1)) % 256 IN s[n]

\* All of it but the last byte, with a good checksum.
IsWhole(m) ==
  /\ Begins(m) /\ Len(m) >= Len(Header) + 2 /\ Len(m) = Len(Header) + 2 + BodyLength(m)
  /\ LET n == Size(m[Len(Header) + 1], m[Len(Header) + 2]) IN DataByte(m, n) = Sum(m, n)
=============================================================================
