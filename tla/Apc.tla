--------------------------------- MODULE Apc ---------------------------------
(***************************************************************************)
(* AWS Payment Cryptography as the handlers use it.  The service is not    *)
(* part of the repository; what is assumed of it is what the handlers rely *)
(* on and what their comments and grounding entries record.                *)
(*                                                                         *)
(* Cryptography is symbolic: a datum remembers the key it was made with,   *)
(* the algorithm or format, what it was made of and its width on the wire. *)
(* Two data are equal only if they were made in the same way, and nobody   *)
(* makes a datum of a key without the service.                             *)
(***************************************************************************)
EXTENDS Naturals, Sequences

CONSTANTS
  Keys,        \* key material held by the service
  NoKey,       \* not a key: the maker of clear or forged data
  PinDigits    \* number of digits of each PIN

ASSUME ApcAssumption ==
  /\ NoKey \notin Keys
  /\ \A p \in DOMAIN PinDigits : PinDigits[p] \in 4 .. 12

(* The literals that data are made of are strings; TLC knows it, the       *)
(* provers do not.                                                         *)
ASSUME LiteralsAssumption ==
  /\ {"nothing", "mac", "plain", "cipher", "block", "offset", "pvv", "cvv", "arqc",
      "arpc"} \subseteq STRING
  /\ {"", "ALG1", "ALG3", "AS2805", "CMAC", "DUKPT_ALG1", "DUKPT_ALG3", "DUKPT_CMAC",
      "VISA", "MASTERCARD", "AMEX", "EMV_COMMON", "ECB", "EMV_CBC",
      "ISO0", "ISO1", "ISO3", "ISO4", "CVV1", "Visa", "Mastercard", "Amex",
      "EmvCommon", "Emv2000", "UnionPay"} \subseteq STRING
  /\ {"80", "garbled", "OptionA", "OptionB"} \subseteq STRING

Datum(kind, key, alg, of, len) ==
  [kind |-> kind, key |-> key, alg |-> alg, of |-> of, len |-> len]

Nothing == Datum("nothing", NoKey, "", <<>>, 0)

(* What they are made of: pieces of data, of whatever meaning.             *)
Data ==
  [kind : STRING, key : Keys \cup {NoKey}, alg : STRING, of : Seq(STRING), len : Nat]

(* What decryption or decoding under a wrong key or format produces.       *)
Garbled == <<"garbled">>

(* The key derivations of UnionPay and EMV2000 are one: "minting under     *)
(* EMV2000 and verifying under UnionPay ACCEPTS all 32 cases", "APC's      *)
(* UnionPay derivation is functionally identical to EMV2000 over PAN + PAN *)
(* seq + ATC"; "UnionPay == EMV2000" also for the MAC of a script.         *)
Derivation(alg) == IF alg = "UnionPay" THEN "Emv2000" ELSE alg

(* Hex digits of the MAC that generate_mac returns: "APC returns a 4-byte  *)
(* MAC for ISO9797_ALGORITHM3", "APC's ISO9797 Alg1 MAC is also 4 bytes",  *)
(* "the full 32H (16-byte) AES-CMAC"; a CMAC of 3DES DUKPT is one block.   *)
FullDigits(alg) ==
  CASE alg = "CMAC" -> 32 [] alg = "DUKPT_CMAC" -> 16 [] OTHER -> 8

(* "APC verify_mac requires the full 32H (16-byte) AES-CMAC", "APC         *)
(* verify_mac only accepts a full 8H or 16H MAC".                          *)
VerifiableWidth(alg, n) == IF alg = "CMAC" THEN n = 32 ELSE n \in {8, 16}

(* A call: the operation, the identifiers of its keys, the algorithm or    *)
(* formats, the data it works on, the datum and the PIN block it is given, *)
(* and the width that the handler wants the result to have.                *)
Call(op, refs, alg, of, datum, block, n) ==
  [op |-> op, refs |-> refs, alg |-> alg, of |-> of,
   datum |-> datum, block |-> block, n |-> n]

Ok(out) == [v |-> "ok", out |-> out]
Mismatch == [v |-> "mismatch", out |-> Nothing]
Rejected == [v |-> "rejected", out |-> Nothing]

Verdict(b) == IF b THEN {Ok(Nothing)} ELSE {Mismatch}

(* A call about a PIN: the format of its block, the serial number (DUKPT)  *)
(* and the account that the block is bound to, and what else besides the   *)
(* PIN its reference value is made of.                                     *)
PinCall(op, refs, fmt, prefix, val, datum, block, n) ==
  [op |-> op, refs |-> refs, alg |-> fmt, of |-> prefix, val |-> val,
   datum |-> datum, block |-> block, n |-> n]

(* Format 1 does not hold the account.                                     *)
Binding(fmt, prefix) ==
  IF fmt = "ISO1" THEN SubSeq(prefix, 1, Len(prefix) - 1) ELSE prefix

PinBlock(key, fmt, prefix, pin, len) ==
  Datum("block", key, fmt, Append(Binding(fmt, prefix), pin), len)

(* The PIN in a block, read with a key, a format and a binding.            *)
PinOf(d) == d.of[Len(d.of)]

PinIn(block, key, fmt, prefix) ==
  IF block = PinBlock(key, fmt, prefix, PinOf(block), block.len)
  THEN PinOf(block) ELSE Garbled[1]

(* An offset must be bare digits, one for each digit of the PIN            *)
(* ("^[0-9]+$"); a verification value has four.                            *)
BareDigits(d) ==
  IF d.kind = "offset" /\ PinOf(d) \in DOMAIN PinDigits
  THEN PinDigits[PinOf(d)] ELSE 4

VerifyMac(c, ks) ==
  IF ~VerifiableWidth(c.alg, c.datum.len) THEN {Rejected}
  ELSE Verdict(c.datum = Datum("mac", ks[1], Derivation(c.alg), c.of, c.datum.len))

VerifyPin(c, ks) ==
  LET pin == PinIn(c.block, ks[1], c.alg, c.of) IN
  IF c.datum.len # BareDigits(c.datum) THEN {Rejected}
  ELSE IF pin = Garbled[1] THEN {Mismatch, Rejected}
  ELSE Verdict(c.datum.key = ks[2] /\ c.datum.of = Append(c.val, pin))

GeneratePin(c, ks) ==
  LET pin == PinIn(c.block, ks[2], c.alg, c.of)
      out == [c.datum EXCEPT !.key = ks[1], !.of = Append(c.val, pin)]
  IN IF pin = Garbled[1] THEN {Rejected}
     ELSE {Ok([out EXCEPT !.len = BareDigits(out)])}

(* Here val is the format of the new block.                                *)
TranslatePin(c, ks) ==
  LET pin == PinIn(c.block, ks[1], c.alg, c.of) IN
  {Ok(PinBlock(ks[2], c.val[1], c.of, pin, 16))}
    \cup (IF pin = Garbled[1] THEN {Rejected} ELSE {})

(* The PAN field of every command holds at most 14 digits, and "APC        *)
(* rejects Option B for any shorter PAN".  The response that a host asks   *)
(* for (block) is part of the ARPC.                                        *)
VerifyArqc(c, ks) ==
  IF c.of[1] = "OptionB" THEN {Rejected}
  ELSE IF c.datum # Datum("arqc", ks[1], Derivation(c.alg), c.of, 16) THEN {Mismatch}
  ELSE IF c.block = <<>> THEN {Ok(Nothing)}
  ELSE {Ok(Datum("arpc", ks[1], Derivation(c.alg), c.of \o c.block, 16))}

(* A cipher text is of the derivation data of its key and the clear blocks.*)
Decrypt(c, ks) ==
  LET n == Len(c.of)
      right == /\ c.datum.key = ks[1] /\ c.datum.alg = c.alg
               /\ SubSeq(c.datum.of, 1, n) = c.of
  IN {Ok(Datum("plain", NoKey, "",
               IF right THEN SubSeq(c.datum.of, n + 1, Len(c.datum.of))
               ELSE Garbled, c.datum.len))}

(* The results that the service may give to a call, with the keys that its *)
(* identifiers name at that moment; prev is the result of the call before. *)
Results(c, ks, prev) ==
  CASE c.op \in {"generate_mac", "compare_mac"} ->
         {Ok(Datum("mac", ks[1], Derivation(c.alg), c.of, FullDigits(c.alg)))}
    [] c.op = "verify_mac" -> VerifyMac(c, ks)
    [] c.op = "verify_pin_data" -> VerifyPin(c, ks)
    [] c.op = "generate_pin_data" -> GeneratePin(c, ks)
    [] c.op = "translate_pin_data" -> TranslatePin(c, ks)
    [] c.op = "generate_card_validation_data" ->
         {Ok(Datum("cvv", ks[1], c.alg, c.of, 3))}
    [] c.op = "verify_card_validation_data" ->
         Verdict(c.datum = Datum("cvv", ks[1], c.alg, c.of, 3))
    [] c.op = "verify_auth_request_cryptogram" -> VerifyArqc(c, ks)
    [] c.op = "encrypt_data" -> {Ok(Datum("cipher", ks[1], c.alg, c.of, c.n))}
    [] c.op = "reencrypt" ->
         {Ok(Datum("cipher", ks[1], c.alg, prev.of, prev.len))}
    [] c.op = "decrypt_data" -> Decrypt(c, ks)
===============================================================================
