------------------------------- MODULE Frames -------------------------------
(***************************************************************************)
(* Frames and datagrams: building, splitting and accepting them.           *)
(*                                                                         *)
(* A datagram is a sequence of cells.  A cell stands for a field of the    *)
(* envelope, or for a byte of payload; fields of two bytes or more are one *)
(* cell, so lengths count cells.                                           *)
(***************************************************************************)
EXTENDS Naturals, Sequences

CONSTANTS
    HEADER, TAIL,            \* the first and the last cell
    Modulus,                 \* of the checksum; 0xFFFF in the code
    Commands                 \* CommandEnum

ASSUME EnvelopeAssumption == HEADER \in Nat /\ TAIL \in Nat /\ Modulus \in Nat \ {0}

\* header, length, serial, password, command; checksum, tail
ENVELOPE_SIZE == 7
HeadCells == 5

\* sum(cells) % Modulus
Checksum(cells) ==
    LET Sum[i \in 0..Len(cells)] == IF i = 0 THEN 0 ELSE Sum[i - 1] + cells[i]
    IN  Sum[Len(cells)] % Modulus

-----------------------------------------------------------------------------
(* build_packet()                                                          *)

Head5(serial, password, cmd, payload) ==
    <<HEADER, ENVELOPE_SIZE + Len(payload), serial, password, cmd>>

Body(serial, password, cmd, payload) == Head5(serial, password, cmd, payload) \o payload

BuildPacket(serial, password, cmd, payload) ==
    LET body == Body(serial, password, cmd, payload)
    IN  body \o <<Checksum(body), TAIL>>

-----------------------------------------------------------------------------
(* DataPacket                                                              *)

Declared(data) == data[2]

\* Mutant of EndOf: a frame ends with its datagram.
EndOfDatagram(data) == Len(data)

\* A length shorter than the envelope, or longer than what arrived, is not the end.
EndOf(data) ==
    IF Declared(data) >= ENVELOPE_SIZE /\ Declared(data) <= Len(data)
    THEN Declared(data) ELSE Len(data)

TailAndChecksum(data) ==
    LET end == EndOf(data)
    IN  data[end] = TAIL /\ data[end - 1] = Checksum(SubSeq(data, 1, end - 2))

IsFrame(data) == Len(data) >= ENVELOPE_SIZE /\ data[1] = HEADER

Accepted(data) == IsFrame(data) /\ data[HeadCells] \in Commands /\ TailAndChecksum(data)

\* What a handler gets to see of an accepted frame.
Packet(data) ==
    [command |-> data[HeadCells], device_serial |-> data[3],
     data |-> SubSeq(data, HeadCells + 1, EndOf(data) - 2)]

-----------------------------------------------------------------------------
(* split_frames()                                                          *)

\* The frame at i ends before the datagram does, and another one follows.
Splits(data, i, declared) ==
    declared >= ENVELOPE_SIZE /\ i + declared <= Len(data) /\ data[i + declared] = HEADER

SplitFrames(data) ==
    LET DeclaredAt(i) == IF i + 1 <= Len(data) THEN data[i + 1] ELSE 0
        From[i \in 1..Len(data)] ==
            IF Splits(data, i, DeclaredAt(i))
            THEN <<SubSeq(data, i, i + DeclaredAt(i) - 1)>> \o From[i + DeclaredAt(i)]
            ELSE <<SubSeq(data, i, Len(data))>>
    IN  From[1]
=============================================================================
