---------------------------- MODULE ThalesFraming ----------------------------
(***************************************************************************)
(* The bytes of payShield frames (protocol/thales.rs): two bytes of        *)
(* length, most significant first, then a header, a code, in responses an  *)
(* error code, and a payload.                                              *)
(***************************************************************************)
EXTENDS Naturals, Sequences

Radix == 256
Bytes == 0 .. Radix - 1

(* The cast to u16 drops what two bytes cannot hold.                       *)
to_be_bytes(n) == <<(n \div Radix) % Radix, n % Radix>>

from_be_bytes(buf) == buf[1] * Radix + buf[2]

frame_response(header, response_code, error_code, payload) ==
  LET body == header \o (response_code \o (error_code \o payload))
  IN to_be_bytes(Len(body)) \o body

(* BU is answered with BV: wrapping_add(1) on the second byte.             *)
response_code(cmd) == <<cmd[1], (cmd[2] + 1) % Radix>>

frame_error(header, cmd, error_code) ==
  frame_response(header, response_code(cmd), error_code, << >>)

-------------------------------------------------------------------------------
frame_len(buf) == 2 + from_be_bytes(buf)

(* parse returns Some.                                                     *)
Parses(buf) ==
  /\ Len(buf) >= 6
  /\ from_be_bytes(buf) >= 4
  /\ Len(buf) >= frame_len(buf)

(* What parse returns; frame_len is what the caller drains.                *)
parse(buf) ==
  [header |-> SubSeq(buf, 3, 4), code |-> SubSeq(buf, 5, 6),
   payload |-> SubSeq(buf, 7, frame_len(buf))]

(* The HSM client stops reading.                                           *)
is_response_complete(data) ==
  Len(data) >= 2 /\ Len(data) >= frame_len(data)
===============================================================================
