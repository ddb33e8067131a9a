------------------------------ MODULE HostStream ------------------------------
(***************************************************************************)
(* What the host applications send.  A connection carries a stream of      *)
(* bytes that is a concatenation of frames; frame k of connection c is     *)
(* Stream[c][k]:                                                           *)
(*   code   the command code of the frame,                                 *)
(*   ok     FALSE for a frame whose length field declares a body shorter   *)
(*          than header + command code, which ThalesPayShield::parse       *)
(*          refuses however many bytes follow it,                          *)
(*   end    the offset in the stream of the byte after the frame.          *)
(* A host may stop anywhere: only a prefix of its stream need arrive, cut  *)
(* at any byte.  Payload bytes and headers are abstracted: the framing of  *)
(* bytes is the subject of module ThalesFraming.                           *)
(***************************************************************************)
EXTENDS Naturals, Sequences, FiniteSets

CONSTANTS
  Conns,      \* connection attempts, each made once
  Codes,      \* command codes that occur in the streams
  Stream,     \* what each connection carries
  MaxFrame    \* longest well-formed frame: 2 + u16::MAX in the code

Frame == [code : Codes, ok : BOOLEAN, end : Nat]

(* Offset of the first byte of frame k; k may be one past the last frame.  *)
Start(c, k) == IF k = 1 THEN 0 ELSE Stream[c][k - 1].end

(* Number of bytes of the whole stream.                                    *)
Total(c) == Start(c, Len(Stream[c]) + 1)

(* Frame k and all frames before it are well-formed.                       *)
WellFormedUpTo(c, k) == \A i \in 1 .. k : Stream[c][i].ok

ASSUME ConnsAssumption == IsFiniteSet(Conns)

ASSUME StreamAssumption ==
  /\ MaxFrame \in Nat
  /\ Stream \in [Conns -> Seq(Frame)]
  /\ \A c \in Conns : \A k \in DOMAIN Stream[c] :
       /\ Start(c, k) < Stream[c][k].end
       /\ Stream[c][k].ok => Stream[c][k].end - Start(c, k) <= MaxFrame
===============================================================================
