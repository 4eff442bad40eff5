----------------------------- MODULE DhanDecoder -----------------------------
(***************************************************************************)
(* How a binary frame of Dhan's feeds is taken apart: Decoder.frame and    *)
(* decode_depth20_frame of dhan/binary.py, which are one loop over two     *)
(* sets of sizes.  Constant-level operators only.                          *)
(*                                                                         *)
(* A frame is [packets, size, noise]: what Dhan wrote, in order, each      *)
(* [code, size, declared]; how many bytes of it there are, fewer than were *)
(* written when it is cut; and what a header reads like where none was     *)
(* written.  The fields of a packet are left out: they are read at fixed   *)
(* places behind the header.                                               *)
(***************************************************************************)
EXTENDS PartialSums

\* The two sockets: length of a header, PACKET_SIZE, and the counters kept.
MarketFeed == [header |-> 8,
               sizes  |-> [c \in {2, 4, 5, 6, 8, 50} |->
                             CASE c = 2 -> 16 [] c = 4 -> 50 [] c = 5 -> 12
                               [] c = 6 -> 16 [] c = 8 -> 162 [] c = 50 -> 10]]
Depth20 == [header |-> 12, sizes |-> [c \in {41, 51} |-> 12 + 20 * 16]]

\* Where packet i begins, and how many bytes are written.
Sizes(packets)       == [i \in DOMAIN packets |-> packets[i].size]
StartsAt(packets, i) == PartialSums(Sizes(packets))[i - 1]
Written(packets)     == PartialSums(Sizes(packets))[Len(packets)]

\* What HEADER.unpack_from reads at an offset.
HeaderAt(frame, offset) ==
  LET here == {i \in DOMAIN frame.packets : StartsAt(frame.packets, i) = offset} IN
  IF here = {} THEN [code |-> frame.noise.code, declared |-> frame.noise.declared, from |-> 0]
  ELSE LET i == CHOOSE i \in here : TRUE
       IN [code |-> frame.packets[i].code, declared |-> frame.packets[i].declared, from |-> i]

NothingSeen == [packets |-> <<>>, mismatches |-> 0, truncated |-> 0, unknown |-> 0]

\* Mutant: the end of a frame is left without a word.
CutShortUncounted == NothingSeen

\* A loop that stops before the end of the frame says so.
CutShort == [NothingSeen EXCEPT !.truncated = 1]

\* Mutant: every packet is left behind by the length in its own header.
StrideByHeader(socket, head) == head.declared

\* "MESSAGE LENGTH IS NOT THE STRIDE": a known packet is left behind by its
\* known size, only an unknown one by what its header claims.
Stride(socket, head) ==
  IF head.code \in DOMAIN socket.sizes THEN socket.sizes[head.code] ELSE head.declared

\* A packet that is cut, or an unknown one that does not say where it ends,
\* ends the loop.
Stops(socket, frame, offset) ==
  LET head   == HeaderAt(frame, offset)
      stride == Stride(socket, head)
  IN \/ offset + stride > frame.size
     \/ head.code \notin DOMAIN socket.sizes /\ stride <= socket.header

\* One turn of the loop, put before what the turns after it make of the frame.
\* The counters are Decoder's; the depth socket keeps none.
Turn(socket, frame, offset, rest) ==
  LET head   == HeaderAt(frame, offset)
      known  == head.code \in DOMAIN socket.sizes
      stride == Stride(socket, head)
      agrees == known /\ head.declared \in {stride, stride - socket.header}
  IN [packets    |-> IF known /\ ~Stops(socket, frame, offset)
                     THEN <<[code |-> head.code, from |-> head.from]>> \o rest.packets
                     ELSE rest.packets,
      mismatches |-> rest.mismatches + (IF known /\ ~agrees THEN 1 ELSE 0),
      truncated  |-> rest.truncated,
      unknown    |-> rest.unknown + (IF known THEN 0 ELSE 1)]

\* The loop of both decoders, from an offset to the end of the frame.
Frame(socket, frame) ==
  LET from[offset \in 0 .. frame.size] ==
        LET stride == Stride(socket, HeaderAt(frame, offset)) IN
        IF offset + socket.header > frame.size THEN NothingSeen
        ELSE Turn(socket, frame, offset,
                  IF Stops(socket, frame, offset) \/ stride <= 0 THEN CutShort
                  ELSE from[offset + stride])
  IN from[0]
===============================================================================
