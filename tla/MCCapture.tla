----------------------------- MODULE MCCapture -----------------------------
(* Capture with frames of every sort: of an unknown command and without a     *)
(* serial, with a payload that looks like a header, and a Wi-Fi reply.        *)
EXTENDS Capture, TLC

MCSources == {[ip |-> 1, port |-> 2], [ip |-> 2, port |-> 1]}

\* Frames of 7, 9 and 9 cells.
MCFrames == {BuildPacket(0, 0, 6, <<>>), BuildPacket(2, 0, 3, <<20, 0>>),
             BuildPacket(1, 0, 4, <<3, 1>>)}
MCJunk == {<<>>, <<0, 1>>}

\* As a length: shorter than an envelope, just one, two frames, beyond most datagrams;
\* the last is a header.
MCValues == {0, 7, 16, 20}
=============================================================================
