----------------------------- MODULE DataHandlers -----------------------------
(***************************************************************************)
(* The data commands: one block HE and HG (encrypt_decrypt.rs), messages   *)
(* M0, M2 and M4 (international_encrypt.rs), EMV counters K0               *)
(* (emv_decrypt.rs), the echo B2 (heartbeat.rs), and the commands that are *)
(* answered 68 whatever they hold.                                         *)
(*                                                                         *)
(* A clear text is a sequence of blocks of 16 hex digits.  All modes of    *)
(* the service that these commands use keep the blocks in their places.    *)
(***************************************************************************)
EXTENDS Handlers

CONSTANT Counters       \* transaction counters of EMV cards

(* The fields of all commands; a command reads those it has.  mode and     *)
(* format are those of the input, mode2 that of the output of M4.          *)
DataBlank ==
  [cmd |-> "", wire |-> TRUE, mode |-> "00", mode2 |-> "00", format |-> "1",
   key |-> "", key2 |-> "", pan |-> "pan", atc |-> "atc", data |-> Nothing]

Encrypt(key, data) ==
  Call("encrypt_data", <<key>>, "ECB", data.of, Nothing, <<>>, data.len)
Decipher(key, mode, derivation, data) ==
  Call("decrypt_data", <<key>>, mode, derivation, data, <<>>, 0)
EncryptResult(key) ==
  Call("reencrypt", <<key>>, "ECB", <<>>, Nothing, <<>>, 0)

-------------------------------------------------------------------------------
(* encrypt_decrypt.rs: exactly 16 digits are read.                         *)
parse_key_and_data(r) == [r.data EXCEPT !.of = <<@[1]>>, !.len = 16]

HE(r) == Plan(<<Malformed(~r.wire), Unmapped(r.key)>>,
              <<Encrypt(r.key, parse_key_and_data(r))>>)
HG(r) == Plan(<<Malformed(~r.wire), Unmapped(r.key)>>,
              <<Decipher(r.key, "ECB", <<>>, parse_key_and_data(r))>>)

-------------------------------------------------------------------------------
(* international_encrypt.rs: ECB and hexadecimal input only.               *)
parse_m0_fields(r) ==
  <<Malformed(r.mode # "00"), Malformed(r.format # "1"), Malformed(~r.wire)>>

M0(r) == Plan(parse_m0_fields(r) \o <<Unmapped(r.key)>>,
              <<Encrypt(r.key, r.data)>>)
M2(r) == Plan(parse_m0_fields(r) \o <<Unmapped(r.key)>>,
              <<Decipher(r.key, "ECB", <<>>, r.data)>>)

(* Mutant: the result of the first call is encrypted for the source again. *)
BugTranslateToSource(r) ==
  <<Decipher(r.key, "ECB", <<>>, r.data), EncryptResult(r.key)>>

(* The clear text of the first call is the input of the second.            *)
TranslateData(r) ==
  <<Decipher(r.key, "ECB", <<>>, r.data), EncryptResult(r.key2)>>

M4(r) ==
  Plan(<<Malformed(r.mode # "00"), Malformed(r.mode2 # "00"),
         Malformed(r.format # "1"), Malformed(~r.wire),
         Unmapped(r.key), Unmapped(r.key2)>>,
       TranslateData(r))

-------------------------------------------------------------------------------
(* Mutant: the zeros that fill up the field without the counter.           *)
BugSessionOfZeros(r) == <<r.pan, "0000">>

(* emv_decrypt.rs: the session is that of the card and the counter.        *)
session_derivation_data(r) == <<r.pan, r.atc>>

parse_k0(r) == <<Malformed(~r.wire)>>

K0(r) == Plan(parse_k0(r) \o <<Unmapped(r.key)>>,
              <<Decipher(r.key, "EMV_CBC", session_derivation_data(r), r.data)>>)

(* heartbeat.rs: 00 without a call.                                        *)
B2(r) == Plan(<<>>, <<>>)

(* Commands that are answered with 68 unread: random PINs, HMACs, Diebold  *)
(* PINs, dynamic verification values; A0 stands for the list of noop.rs.   *)
RandomPin == {"JA"}
Hmac == {"LQ", "LS"}
DieboldPin == {"CE", "GA"}
DynamicCvv == {"QY", "PM"}
NotAvailable == {"A0"}
GatedData == RandomPin \cup Hmac \cup DieboldPin \cup DynamicCvv \cup NotAvailable

DataCommands == GatedData \cup {"HE", "HG", "M0", "M2", "M4", "K0", "B2"}

DataProgram(r) ==
  CASE r.cmd = "HE" -> HE(r) [] r.cmd = "HG" -> HG(r)
    [] r.cmd = "M0" -> M0(r) [] r.cmd = "M2" -> M2(r) [] r.cmd = "M4" -> M4(r)
    [] r.cmd = "K0" -> K0(r) [] r.cmd = "B2" -> B2(r)
    [] r.cmd \in GatedData -> Plan(<<Unsupported(TRUE)>>, <<>>)

-------------------------------------------------------------------------------
(* The commands that hosts send, given the data in their hands; they have  *)
(* no use for what was decrypted with a wrong key, nor for no data.        *)
Useful(d) == d.of \notin {Garbled, <<>>}
Clear(hold) == {d \in hold : d.kind = "plain" /\ Useful(d)}
Ciphers(hold) == {d \in hold : d.kind = "cipher" /\ Useful(d)}

(* What a frame can hold, given the data in the hands of its sender.       *)
DataFields ==
  [cmd : DataCommands, wire : BOOLEAN, mode : STRING, mode2 : STRING, format : STRING,
   key : STRING, key2 : STRING, pan : STRING, atc : STRING, data : Data]

DataFrame(r, hold) ==
  /\ r \in DataFields /\ r.data \in hold \cup {Nothing}
  /\ r.wire /\ r.cmd \in {"HE", "M0"} => r.data.kind = "plain" /\ Useful(r.data)
  /\ r.wire /\ r.cmd \in {"HG", "M2", "M4", "K0"} =>
       r.data.kind = "cipher" /\ Useful(r.data)

DataRequests(hold) ==
  {[DataBlank EXCEPT !.cmd = x, !.key = k, !.data = d] :
     x \in {"HE", "M0"}, k \in Refs, d \in Clear(hold)}
  \cup
  {[DataBlank EXCEPT !.cmd = x, !.key = k, !.data = d] :
     x \in {"HG", "M2"}, k \in Refs, d \in Ciphers(hold)}
  \cup
  {[DataBlank EXCEPT !.cmd = "M4", !.key = k, !.key2 = l, !.data = d] :
     k \in Refs, l \in Refs, d \in Ciphers(hold)}
  \cup
  {[DataBlank EXCEPT !.cmd = "K0", !.key = k, !.atc = n, !.data = d] :
     k \in Refs, n \in Counters, d \in Ciphers(hold)}

BadData ==
  {[DataBlank EXCEPT !.cmd = x, !.wire = FALSE] :
     x \in DataCommands}
  \cup
  {[DataBlank EXCEPT !.cmd = x, !.mode = IF b = 1 THEN "01" ELSE "00",
                 !.mode2 = IF b = 2 THEN "02" ELSE "00",
                 !.format = IF b = 3 THEN "0" ELSE "1", !.wire = FALSE] :
     x \in {"M0", "M2", "M4"}, b \in 1 .. 3}

-------------------------------------------------------------------------------
(* What the command's cipher text holds for a host that knows its key: the *)
(* first block of it for HG, the clear text of a card's session for K0.    *)
Meant(r) ==
  CASE r.cmd = "HG" -> SubSeq(r.data.of, 1, 1)
    [] r.cmd = "K0" -> SubSeq(r.data.of, 3, Len(r.data.of))
    [] OTHER -> r.data.of

MadeFor(r, key) ==
  /\ r.data.key = key
  /\ IF r.cmd = "K0" THEN r.data.alg = "EMV_CBC"
                            /\ SubSeq(r.data.of, 1, 2) = <<r.pan, r.atc>>
     ELSE r.data.alg = "ECB"

(* A decrypting command answers with the clear text exactly if the cipher  *)
(* text was made under the key of its call, be it by HE, by M0, by a chain *)
(* of M4s whose aliases were retargeted on the way, or by a card: HG reads *)
(* the first block of what M0 made, K0 needs the card's own counter.       *)
DecryptsWhatWasEncrypted ==
  \A c \in Conns :
    Answered(c, {"HG", "M2", "K0"}, "00") =>
      (out[c].of = Meant(req[c]) <=> MadeFor(req[c], trace[c][1][req[c].key]))

(* M4 moves a clear text from the key of its first call to the key of its  *)
(* second without changing it, and a host never gets the clear text that   *)
(* passes through the proxy between the two, whichever call fails.         *)
TranslationKeepsData ==
  \A c \in Conns :
    code[c] # "none" /\ req[c].cmd = "M4" =>
      /\ out[c].kind # "plain"
      /\ code[c] = "00" =>
           /\ out[c].key = trace[c][2][req[c].key2]
           /\ MadeFor(req[c], trace[c][1][req[c].key]) =>
                out[c] = [req[c].data EXCEPT !.key = out[c].key]
===============================================================================
