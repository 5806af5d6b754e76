------------------------------ MODULE Capture ------------------------------
(***************************************************************************)
(* What arrives in datagrams, at the listener and at the capture tool.     *)
(*                                                                         *)
(* A source puts one or more frames, and at times a few cells more, into a *)
(* datagram, and one cell may be damaged on the way.  A reply with the     *)
(* Wi-Fi configuration may be cut short, and its remainder come in a       *)
(* datagram of its own, with other sources' in between.                    *)
(*                                                                         *)
(* The listener hands on what DataPacket accepts.  The capture tool        *)
(* records everything, says of each frame whether it is valid, and leaves  *)
(* the Wi-Fi configuration out of what it shows.                           *)
(***************************************************************************)
EXTENDS Frames, SequencesExt, FiniteSets

CONSTANTS
    Sources,                 \* records of an ip and a port
    Target,                  \* the ip whose serial the tool has to learn
    None,                    \* nothing learned, nothing damaged, nobody
    WIFI_CONFIG_EVENT,       \* the command of the reply that is not shown
    Sendable,                \* frames that sources send
    Junk,                    \* what may follow the frames of a datagram
    Values,                  \* what a damaged cell may turn into
    MaxFrames                \* frames in a datagram, at most

\* The ports that the target sends from.
TargetPorts == {s.port : s \in {x \in Sources : x.ip = Target}}

ASSUME NoneAssumption ==
    /\ None \notin Nat /\ None \notin TargetPorts
    /\ None \notin [frame : Nat, cell : Nat, value : Nat]

\* Were the modulus 1, no checksum could tell anything.
ASSUME CellsAssumption == HEADER # TAIL /\ Modulus > 1

\* Frames are what build_packet() makes, and shorter than the number the header is
\* (1537), so that no length looks like a header.
ASSUME SendableAssumption ==
    \A f \in Sendable :
        /\ f \in Seq(Nat) /\ Len(f) >= ENVELOPE_SIZE /\ Len(f) < HEADER
        /\ f = BuildPacket(f[3], f[4], f[HeadCells], SubSeq(f, HeadCells + 1, Len(f) - 2))

\* What follows the frames holds no envelope, nor the end of one.
ASSUME JunkAssumption == \A junk \in Junk : junk \in Seq(Nat \ {HEADER, TAIL})

ASSUME ValuesAssumption == Values \subseteq Nat

ASSUME MaxFramesAssumption == MaxFrames \in Nat

VARIABLES
    serial, port,            \* what the tool learned
    wifi_cut,                \* sources whose last frame was a Wi-Fi reply cut short
    records,                 \* what it recorded of the last datagram
    handled,                 \* what the listener made of the last datagram
    rest,                    \* what each source has yet to send of a reply that was cut
    sent, damage             \* not in the code: frames of the last datagram; where it was hit

vars == <<serial, port, wifi_cut, records, handled, rest, sent, damage>>

Init ==
    /\ serial = None /\ port = None
    /\ wifi_cut = {}
    /\ records = <<>>
    /\ handled = <<>>
    /\ rest = [s \in Sources |-> <<>>]
    /\ sent = <<>> /\ damage = None

-----------------------------------------------------------------------------
(* The capture tool.                                                       *)

REDACTED == "redacted"

\* redact(): a Wi-Fi reply that starts anywhere inside hides all of it.
redact(data) ==
    IF \E i \in 1..Len(data) : /\ data[i] = HEADER
                               /\ i + HeadCells - 1 <= Len(data)
                               /\ data[i + HeadCells - 1] = WIFI_CONFIG_EVENT
    THEN REDACTED ELSE data

\* Mutant of NotAFrame: only the frame itself is looked at.
NotAFrameAlone(cap, src, frame) ==
    [cap EXCEPT !.records = Append(@, [frame |-> FALSE, shown |-> redact(frame)]),
                !.cut = @ \ {src}]

\* Cells that are not a frame: after a reply that was cut they are its remainder.
NotAFrame(cap, src, frame) ==
    [cap EXCEPT !.records = Append(@, [frame |-> FALSE, shown |->
                                  IF src \in cap.cut THEN REDACTED ELSE redact(frame)]),
                !.cut = @ \ {src}]

\* Where the tool takes a frame to end.
End(frame) ==
    IF Declared(frame) \in ENVELOPE_SIZE..Len(frame) THEN Declared(frame) ELSE Len(frame)

\* Mutant of Valid: the checksum is not looked at.
ValidByTail(frame) == frame[End(frame)] = TAIL

\* DataPacket makes the same test, in its own words (TailAndChecksum).
Valid(frame) ==
    /\ frame[End(frame)] = TAIL
    /\ frame[End(frame) - 1] = Checksum(SubSeq(frame, 1, End(frame) - 2))

\* Mutant of Learns: any frame of the target's will do.
LearnsFromAny(cap, src, frame) == src.ip = Target /\ cap.serial = None

\* The first frame of the target's that names a serial, valid or not, from any port.
Learns(cap, src, frame) == src.ip = Target /\ frame[3] # 0 /\ cap.serial = None

\* What is shown of a frame: its payload, and the cells behind its end.
Payload(frame) ==
    IF frame[HeadCells] = WIFI_CONFIG_EVENT THEN REDACTED
    ELSE SubSeq(frame, HeadCells + 1, End(frame) - 2)

Extra(frame) ==
    LET extra == SubSeq(frame, End(frame) + 1, Len(frame))
    IN  IF frame[HeadCells] = WIFI_CONFIG_EVENT /\ extra # <<>> THEN REDACTED ELSE redact(extra)

\* A frame: its serial may be learned, its end may be missing.
ARecord(cap, src, frame) ==
    LET learns == Learns(cap, src, frame)
    IN  [cap EXCEPT
          !.records = Append(@, [frame |-> TRUE, valid |-> Valid(frame),
                            cmd |-> frame[HeadCells], serial |-> frame[3],
                            shown |-> Payload(frame), extra |-> Extra(frame)]),
          !.cut = IF frame[HeadCells] = WIFI_CONFIG_EVENT /\ Declared(frame) > Len(frame)
                  THEN @ \cup {src} ELSE @ \ {src},
          !.serial = IF learns THEN frame[3] ELSE @,
          !.port = IF learns THEN src.port ELSE @]

\* Capture.datagram_received()
Capture(src, datagram) ==
    LET pieces == SplitFrames(datagram)
        After[i \in 0..Len(pieces)] ==
            IF i = 0 THEN [records |-> <<>>, cut |-> wifi_cut, serial |-> serial, port |-> port]
            ELSE IF IsFrame(pieces[i]) THEN ARecord(After[i - 1], src, pieces[i])
            ELSE NotAFrame(After[i - 1], src, pieces[i])
        cap == After[Len(pieces)]
    IN  /\ records' = cap.records
        /\ wifi_cut' = cap.cut
        /\ serial' = cap.serial
        /\ port' = cap.port

\* What the listener makes of a frame, if it accepts it.
Heard(frame) == IF Accepted(frame) THEN <<Packet(frame)>> ELSE <<>>

\* EvseListener._on_datagram(), with DataPacket
Listen(datagram) ==
    LET pieces == SplitFrames(datagram)
    IN  handled' = FlattenSeq([i \in DOMAIN pieces |-> Heard(pieces[i])])

Arrive(src, datagram) ==
    /\ Capture(src, datagram)
    /\ Listen(datagram)

\* What a datagram gave is written to the file and handled, before the next one comes.
Settle ==
    /\ records # <<>>
    /\ records' = <<>> /\ handled' = <<>>
    /\ sent' = <<>> /\ damage' = None
    /\ UNCHANGED <<serial, port, wifi_cut, rest>>

-----------------------------------------------------------------------------
(* The sources and the network.                                            *)

\* One cell of a frame is changed.
Hit(frame, cell, value) == [frame EXCEPT ![cell] = value]

\* Where the n-th of some frames starts, put together.
Start(frames, n) == Len(FlattenSeq(SubSeq(frames, 1, n - 1))) + 1

\* Of all runs of cells in the datagram, none passes for a frame but at the start of a
\* frame other than the n-th.
NoOtherRunPasses(frames, n, datagram) ==
    \A first \in 1..Len(datagram) :
        \/ \E m \in DOMAIN frames \ {n} : first = Start(frames, m)
        \/ \A last \in first..Len(datagram) :
              LET run == SubSeq(datagram, first, last)
              IN  ~ (IsFrame(run) /\ TailAndChecksum(run))

\* Damage that a checksum can tell: the cell changes by no multiple of the modulus.  A
\* damaged length moves the place where the checksum is looked for: what then stands
\* there is not right by chance.
Damage(frames, junk, n, k, v) ==
    LET hit == [frames EXCEPT ![n] = Hit(@, k, v)]
    IN  /\ v % Modulus # frames[n][k] % Modulus
        /\ k = 2 => NoOtherRunPasses(hit, n, FlattenSeq(hit) \o junk)

Send(src) ==
    /\ rest[src] = <<>>
    /\ \E frames \in SeqOf(Sendable, MaxFrames) \ {<<>>}, junk \in Junk :
          /\ sent' = frames
          /\ \/ damage' = None /\ Arrive(src, FlattenSeq(frames) \o junk)
             \/ \E n \in DOMAIN frames : \E k \in DOMAIN frames[n], v \in Values :
                   /\ Damage(frames, junk, n, k, v)
                   /\ damage' = [frame |-> n, cell |-> k, value |-> v]
                   /\ Arrive(src, FlattenSeq([frames EXCEPT ![n] = Hit(@, k, v)]) \o junk)
    /\ UNCHANGED rest

\* No part of the reply passes for a frame: not what was sent of it, by its last cells,
\* nor what is yet to come, by a header.
NoneLooksWhole(f, k) ==
    /\ ~ TailAndChecksum(SubSeq(f, 1, k))
    /\ \A i \in (k + 1)..Len(f) : f[i] # HEADER

\* A Wi-Fi reply is cut short, behind its envelope at the earliest.
Cut(src) ==
    /\ rest[src] = <<>>
    /\ \E f \in Sendable : \E k \in ENVELOPE_SIZE..(Len(f) - 1) :
          /\ f[HeadCells] = WIFI_CONFIG_EVENT
          /\ NoneLooksWhole(f, k)
          /\ rest' = [rest EXCEPT ![src] = SubSeq(f, k + 1, Len(f))]
          /\ Arrive(src, SubSeq(f, 1, k))
    /\ sent' = <<>> /\ damage' = None

SendRest(src) ==
    /\ rest[src] # <<>>
    /\ rest' = [rest EXCEPT ![src] = <<>>]
    /\ Arrive(src, rest[src])
    /\ sent' = <<>> /\ damage' = None

Next ==
    \/ Settle
    \/ /\ records = <<>>
       /\ \E src \in Sources : Send(src) \/ Cut(src) \/ SendRest(src)

Spec == Init /\ [][Next]_vars

-----------------------------------------------------------------------------
(* Properties.                                                             *)

\* A serial is learned with its port and is never the empty one, and whoever owes a
\* remainder is remembered (tools/capture.py:106-111).
TypeOK ==
    /\ serial \in (Nat \ {0}) \cup {None}
    /\ port \in TargetPorts \cup {None}
    /\ serial = None <=> port = None
    /\ wifi_cut \subseteq Sources
    /\ \A s \in Sources : rest[s] # <<>> => s \in wifi_cut

\* The frames behind a damaged length, or a damaged header that should have ended the
\* frame before, may end up in a piece with it.
TakenAlong ==
    IF damage # None /\ (damage.cell = 2 \/ (damage.cell = 1 /\ damage.frame > 1))
    THEN (damage.frame + 1)..Len(sent) ELSE {}

\* The i-th frame of the last datagram comes through, if those in lost do not.
ComesThrough(i, lost) ==
    /\ damage = None \/ damage.frame # i
    /\ i \notin lost

\* Every frame that is not damaged itself is handled, in order and with its payload,
\* whatever stands before or behind it, and no other, but for those that a damaged
\* envelope takes along (protocol.py:42-52, data_types.py:344-354).
FramesArrive ==
    \E lost \in SUBSET TakenAlong :
        handled = FlattenSeq([i \in DOMAIN sent |->
                                IF ComesThrough(i, lost) THEN Heard(sent[i]) ELSE <<>>])

\* Of a record that the tool calls valid, and of a frame: its serial and command.
ValidRecord(r) == IF r.frame /\ r.valid THEN <<<<r.serial, r.cmd>>>> ELSE <<>>
SerialAndCommand(f) == <<f[3], f[HeadCells]>>

\* The tool calls just those frames valid, of known commands or not
\* (tools/capture.py:97-99, which repeats what DataPacket does).
ValidIsIntact ==
    \E lost \in SUBSET TakenAlong :
        FlattenSeq([i \in DOMAIN records |-> ValidRecord(records[i])])
          = FlattenSeq([i \in DOMAIN sent |->
                IF ComesThrough(i, lost) THEN <<SerialAndCommand(sent[i])>> ELSE <<>>])

\* The remainder of a Wi-Fi reply that was cut is not shown, whatever other sources sent
\* in between (tools/capture.py:73-74).
RemainderIsRedacted ==
    [][\A s \in Sources : rest[s] # <<>> /\ rest'[s] = <<>> =>
          \A i \in DOMAIN records' : records'[i].shown = REDACTED]_vars
=============================================================================
