----------------------------- MODULE MsgSplitter -----------------------------
(***************************************************************************)
(* The splitter of the proxy (tgproxy/bridge.py 50-138): it cuts the       *)
(* client's stream, which arrives in pieces of any size, at the packets of *)
(* MTProto's transport.  It looks at the plain bytes and cuts the          *)
(* encrypted ones; an encrypted byte is its place in the stream here.      *)
(***************************************************************************)
EXTENDS Integers, SequencesExt

NewSplitter(proto) == [proto |-> proto, cipher |-> <<>>, plain |-> <<>>, disabled |-> FALSE]

(* The transport's length field: one byte, or four, or four with the marks 0x7F and
   0xFF; the highest bit of a length asks for a quick acknowledgement. *)
Long(b) == b[1] \in {127, 255}
HeaderLen(proto, b) == IF proto = "abridged" /\ ~Long(b) THEN 1 ELSE 4
PayloadLen(proto, b) ==
    CASE proto = "intermediate" -> b[1] + 256 * b[2] + 65536 * b[3] + 16777216 * (b[4] % 128)
      [] proto = "abridged" /\ Long(b) -> 4 * (b[2] + 256 * b[3] + 65536 * b[4])
      [] OTHER -> 4 * (b[1] % 128)

Incomplete == -1

(* Mutant: the header is not counted when the bytes at hand are. *)
EagerPacketLen(proto, b) ==
    IF Len(b) < HeaderLen(proto, b) THEN Incomplete
    ELSE LET n == PayloadLen(proto, b)
         IN CASE n = 0 -> 0
              [] n > 0 /\ Len(b) < n -> Incomplete
              [] OTHER -> HeaderLen(proto, b) + n

(* _next_packet_len: 0 when this is no packet. *)
NextPacketLen(proto, b) ==
    IF Len(b) < HeaderLen(proto, b) THEN Incomplete
    ELSE LET n == PayloadLen(proto, b)
         IN CASE n = 0 -> 0
              [] n > 0 /\ Len(b) < HeaderLen(proto, b) + n -> Incomplete
              [] OTHER -> HeaderLen(proto, b) + n

(* Where the walk over the buffer cuts it; what is no packet is cut at its end, for good. *)
Cuts(proto, b) ==
    LET cuts[o \in 0..Len(b)] ==
            LET n == IF o = Len(b) THEN Incomplete ELSE NextPacketLen(proto, SubSeq(b, o + 1, Len(b)))
            IN CASE n = Incomplete -> [ends |-> <<>>, off |-> FALSE]
                 [] n = 0 -> [ends |-> <<Len(b)>>, off |-> TRUE]
                 [] OTHER -> LET end  == IF o + n > Len(b) THEN Len(b) ELSE o + n
                                 rest == cuts[end]
                             IN [ends |-> <<end>> \o rest.ends, off |-> rest.off]
    IN cuts[0]

Pieces(seq, ends) == [i \in 1..Len(ends) |-> SubSeq(seq, (IF i = 1 THEN 0 ELSE ends[i - 1]) + 1, ends[i])]

(* split: the whole packets there are now, each a part; the rest waits. *)
Split(sp, chunk, bytes) ==
    IF sp.disabled THEN [parts |-> <<chunk>>, after |-> sp]
    ELSE LET cipher == sp.cipher \o chunk
             plain  == sp.plain \o bytes
             cuts   == Cuts(sp.proto, plain)
             done   == IF cuts.ends = <<>> THEN 0 ELSE Last(cuts.ends)
         IN [parts |-> Pieces(cipher, cuts.ends),
             after |-> [sp EXCEPT !.cipher = SubSeq(cipher, done + 1, Len(cipher)),
                                  !.plain = SubSeq(plain, done + 1, Len(plain)),
                                  !.disabled = cuts.off]]

(* Mutant: the end of the stream forgets what waits. *)
ForgetTail(sp) == [parts |-> <<>>, after |-> NewSplitter(sp.proto)]

(* flush: at the end of the stream, what waits goes as it is. *)
Flush(sp) == [parts |-> IF sp.cipher = <<>> THEN <<>> ELSE <<sp.cipher>>,
              after |-> [sp EXCEPT !.cipher = <<>>, !.plain = <<>>]]
=============================================================================
