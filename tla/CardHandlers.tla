----------------------------- MODULE CardHandlers -----------------------------
(***************************************************************************)
(* The card commands: verification values CW and CY (cvv.rs), application  *)
(* cryptograms KQ (kq_arqc.rs), KW (kw_arqc.rs), JS (unionpay_arqc.rs), K2 *)
(* and KS (cap_arqc.rs), and the gated NY and RY.                          *)
(*                                                                         *)
(* A card makes its cryptogram (ARQC) over its transaction data, padded,   *)
(* with a session key that its scheme derives from some of the card        *)
(* number, the transaction counter and the terminal's unpredictable number.*)
(* Transaction data is a sequence of pieces; "80" is the padding.          *)
(***************************************************************************)
EXTENDS Handlers

CONSTANTS
  Txns,     \* transaction data, as a card has it before padding
  Uns       \* unpredictable numbers that terminals choose

(* The fields of all commands; a command reads those it has.               *)
CardBlank ==
  [cmd |-> "", wire |-> TRUE, mode |-> "0", scheme |-> "1", deriv |-> "A",
   key |-> "", pan |-> "pan", digits |-> 16, atc |-> "atc", un |-> "un1",
   txn |-> <<>>, padding |-> "0", arqc |-> Nothing, arc |-> "arc",
   expiry |-> "exp", service |-> "svc", cvv |-> Nothing]

-------------------------------------------------------------------------------
(* cvv.rs                                                                  *)
read_pan(r) == <<Malformed(r.digits \notin 1 .. 19)>>
read_expiry_service(r) == <<r.pan, r.expiry, r.service>>

parse_cw(r) == <<Malformed(~r.wire)>> \o read_pan(r)
parse_cy(r) == <<Malformed(~r.wire)>> \o read_pan(r)

CW(r) ==
  Plan(parse_cw(r) \o <<Unmapped(r.key)>>,
       <<Call("generate_card_validation_data", <<r.key>>, "CVV1",
              read_expiry_service(r), Nothing, <<>>, 0)>>)

(* Mutant: the service code does not reach the verification.               *)
BugCyWithoutService(r) ==
  Plan(parse_cy(r) \o <<Unmapped(r.key)>>,
       <<Call("verify_card_validation_data", <<r.key>>, "CVV1",
              <<r.pan, r.expiry, "000">>, r.cvv, <<>>, 0)>>)

CY(r) ==
  Plan(parse_cy(r) \o <<Unmapped(r.key)>>,
       <<Call("verify_card_validation_data", <<r.key>>, "CVV1",
              read_expiry_service(r), r.cvv, <<>>, 0)>>)

-------------------------------------------------------------------------------
(* common.rs                                                               *)
(* Mutant: the unpredictable number is left out.                           *)
BugSessionWithoutUn(method, r) ==
  IF method \in {"Amex", "Visa"} THEN <<r.pan>> ELSE <<r.pan, r.atc>>

(* The fields that each derivation of a session key is given.              *)
build_session_key(method, r) ==
  CASE method \in {"EmvCommon", "Emv2000", "UnionPay"} -> <<r.pan, r.atc>>
    [] method = "Mastercard" -> <<r.pan, r.atc, r.un>>
    [] method \in {"Amex", "Visa"} -> <<r.pan>>

(* Mutant: the response code of the host does not reach the service.       *)
BugArpcFixedResponse(r) == IF r.mode = "0" THEN <<>> ELSE <<r.mode, "ok">>

(* ARPC method 1 takes the response code, method 2 the status update.      *)
build_arpc_attrs(r) == IF r.mode = "0" THEN <<>> ELSE <<r.mode, r.arc>>

verify_arqc(r, option, method) ==
  <<Call("verify_auth_request_cryptogram", <<r.key>>, method,
         <<option>> \o build_session_key(method, r) \o emv_pad(r.txn),
         r.arqc, build_arpc_attrs(r), 0)>>

-------------------------------------------------------------------------------
(* kq_arqc.rs and kw_arqc.rs: modes 3 and 4 do not verify, and are refused.*)
ModeRefusal(r, modes) == <<Malformed(r.mode \notin modes)>>

kq_session ==
  [s \in {"0", "1", "2"} |->
     CASE s = "0" -> "Visa" [] s = "1" -> "Mastercard" [] s = "2" -> "Amex"]

parse_kq(r) ==
  ModeRefusal(r, {"0", "1", "2"})
    \o <<Malformed(r.scheme \notin DOMAIN kq_session), Malformed(~r.wire)>>

KQ(r) ==
  Plan(parse_kq(r) \o <<Unmapped(r.key)>>,
       verify_arqc(r, "OptionA", kq_session[r.scheme]))

kw_session ==
  [s \in {"0", "1", "2", "3", "5", "C"} |->
     CASE s \in {"0", "1"} -> "Emv2000" [] s \in {"2", "3", "5"} -> "EmvCommon"
       [] s = "C" -> "UnionPay"]

kw_unsupported == {"4", "6", "7", "8", "9", "A", "B"}

(* The derivation byte decides on the option, whatever the scheme says.    *)
kw_option == [d \in {"A", "B"} |-> IF d = "A" THEN "OptionA" ELSE "OptionB"]

parse_kw(r) ==
  ModeRefusal(r, {"0", "1", "2"})
    \o <<Unsupported(r.scheme \in kw_unsupported),
         Malformed(r.scheme \notin DOMAIN kw_session),
         Malformed(r.deriv \notin DOMAIN kw_option), Malformed(~r.wire)>>

KW(r) ==
  Plan(parse_kw(r) \o <<Unmapped(r.key)>>,
       verify_arqc(r, kw_option[r.deriv], kw_session[r.scheme]))

(* unionpay_arqc.rs: the scheme and the padding flag are read and not used.*)
parse_js(r) == ModeRefusal(r, {"0", "1"}) \o <<Malformed(~r.wire)>>

JS(r) ==
  Plan(parse_js(r) \o <<Unmapped(r.key)>>,
       verify_arqc(r, "OptionA", "UnionPay"))

(* cap_arqc.rs: verification only, so the commands have no mode.           *)
parse_cap(r) == <<Malformed(~r.wire)>>

handle_cap(r, method) ==
  Plan(parse_cap(r) \o <<Unmapped(r.key)>>,
       verify_arqc([r EXCEPT !.mode = "0"], "OptionA", method))

K2(r) == handle_cap(r, "Mastercard")
KS(r) == handle_cap(r, "Emv2000")

(* cvv.rs, handle_ny and handle_ry.                                        *)
GatedCards == {"NY", "RY"}

CardCommands == GatedCards \cup {"CW", "CY", "KQ", "KW", "JS", "K2", "KS"}

CardProgram(r) ==
  CASE r.cmd = "CW" -> CW(r) [] r.cmd = "CY" -> CY(r)
    [] r.cmd = "KQ" -> KQ(r) [] r.cmd = "KW" -> KW(r) [] r.cmd = "JS" -> JS(r)
    [] r.cmd = "K2" -> K2(r) [] r.cmd = "KS" -> KS(r)
    [] r.cmd \in GatedCards -> Plan(<<Unsupported(TRUE)>>, <<>>)

-------------------------------------------------------------------------------
(* What a card computes: the fields of its session by its brand, and the   *)
(* transaction data padded once.                                           *)
CardFields(brand, r) ==
  (IF brand \in {"Amex", "Visa"} THEN <<r.pan>> ELSE <<r.pan, r.atc>>)
    \o (IF brand = "Mastercard" THEN <<r.un>> ELSE <<>>)

CardData(brand, option, r, txn) ==
  <<option>> \o CardFields(brand, r) \o Append(txn, "80")

CardArqc(key, brand, option, r, txn) ==
  Datum("arqc", key, Derivation(brand), CardData(brand, option, r, txn), 16)

(* What a frame can hold: only KW has a derivation byte.  Data that a host *)
(* has padded for JS is left out, see PaddedByHostIsAccepted.              *)
CardFrameFields ==
  [cmd : CardCommands, wire : BOOLEAN, mode : STRING, scheme : STRING, deriv : STRING,
   key : STRING, pan : STRING, digits : Nat, atc : STRING, un : STRING,
   txn : Seq(STRING), padding : STRING, arqc : Data, arc : STRING,
   expiry : STRING, service : STRING, cvv : Data]

CardFrame(r) ==
  /\ r \in CardFrameFields
  /\ r.cmd # "KW" => r.deriv = "A"
  /\ r.padding # "1"

(* The commands that hosts send, given the data in their hands.            *)
Cryptograms(hold) == {d \in hold : d.kind = "arqc"}

Profiles ==
  ({"KQ"} \X {"0", "1", "2", "7"} \X {"A"})
    \cup ({"KW"} \X {"0", "3", "5", "C", "4", "Z"} \X {"A"}) \cup ({"KW"} \X {"0", "1"} \X {"B", "C"})
    \cup ({"JS", "K2", "KS"} \X {"1"} \X {"A"})

(* Modes, and the response that an ARPC is to carry.                       *)
Responses ==
  {<<"0", "arc">>, <<"1", "arc">>, <<"1", "decline">>, <<"2", "csu">>, <<"3", "arc">>}

ArqcRequests(hold, profiles, paddings) ==
  {[CardBlank EXCEPT !.cmd = x[1], !.scheme = x[2], !.deriv = x[3], !.mode = o[1],
                 !.arc = o[2], !.key = k, !.un = u, !.padding = p,
                 !.txn = IF p = "1" THEN Append(t, "80") ELSE t, !.arqc = d] :
     x \in profiles, o \in Responses, k \in Refs, u \in Uns, p \in paddings,
     t \in Txns, d \in Cryptograms(hold)}

CvvRequests(hold) ==
  {[CardBlank EXCEPT !.cmd = "CW", !.key = k, !.digits = n, !.service = s] :
     k \in Refs, n \in {0, 1, 19, 20}, s \in {"svc", "999"}}
  \cup
  {[CardBlank EXCEPT !.cmd = "CY", !.key = k, !.service = s, !.cvv = d] :
     k \in Refs, s \in {"svc", "999"}, d \in {d \in hold : d.kind = "cvv"}}

BadCards ==
  {[CardBlank EXCEPT !.cmd = x, !.wire = FALSE] :
     x \in CardCommands}

-------------------------------------------------------------------------------
ArqcCommands == {"KQ", "KW", "JS", "K2", "KS"}

(* The cards that each command and scheme is for, as the manual's layouts  *)
(* say that head the handlers.                                             *)
BrandOf(r) ==
  CASE r.cmd = "KQ" /\ r.scheme = "0" -> "Visa"
    [] r.cmd = "K2" \/ (r.cmd = "KQ" /\ r.scheme = "1") -> "Mastercard"
    [] r.cmd = "KQ" /\ r.scheme = "2" -> "Amex"
    [] r.cmd = "KS" \/ (r.cmd = "KW" /\ r.scheme \in {"0", "1"}) -> "Emv2000"
    [] r.cmd = "KW" /\ r.scheme \in {"2", "3", "5"} -> "EmvCommon"
    [] r.cmd = "JS" \/ (r.cmd = "KW" /\ r.scheme = "C") -> "UnionPay"

(* The data that the card has padded, whoever else padded it.              *)
CardTxn(r) == IF r.padding = "1" THEN SubSeq(r.txn, 1, Len(r.txn) - 1) ELSE r.txn

Genuine(c) ==
  req[c].arqc = CardArqc(trace[c][1][req[c].key], BrandOf(req[c]),
                         kw_option[req[c].deriv], req[c], CardTxn(req[c]))

(* A cryptogram is accepted exactly if a card of the command's brand, or   *)
(* one that derives its session as that brand does (UnionPay and EMV2000), *)
(* made it for this transaction, under the key that the call was made with:*)
(* no replay over other data, another terminal's number or another brand's *)
(* session passes, and no genuine card is declined, also one whose data    *)
(* ends in a byte that looks like padding - but for the cards of Option B, *)
(* which KW takes and the service never serves.                            *)
ArqcAcceptedIfGenuine ==
  \A c \in Conns :
    Decided(c, ArqcCommands) /\ trace[c] # <<>> =>
      (code[c] = "00" <=> Genuine(c) /\ req[c].deriv = "A")

(* A host gets an ARPC exactly if it asked for one, and it is the one that *)
(* the card awaits: of the same session and transaction as the cryptogram  *)
(* just verified, and of the response that this host gave.                 *)
ArpcAnswersTheCard ==
  \A c \in Conns :
    Answered(c, ArqcCommands, "00") =>
      LET r == req[c] IN
      IF r.cmd \in {"KQ", "KW", "JS"} /\ r.mode # "0"
      THEN out[c] = Datum("arpc", r.arqc.key, r.arqc.alg,
                          r.arqc.of \o <<r.mode, r.arc>>, 16)
      ELSE out[c] = Nothing

(* CY accepts exactly the values that CW issued for the same card, expiry  *)
(* and service code, under the key of this call.                           *)
CvvAcceptedIfIssued ==
  \A c \in Conns :
    Decided(c, {"CY"}) /\ trace[c] # <<>> =>
      (code[c] = "00" <=>
         req[c].cvv = Datum("cvv", trace[c][1][req[c].key], "CVV1",
                            <<req[c].pan, req[c].expiry, req[c].service>>, 3))

(* unionpay_arqc.rs, the layout of JS: "'1'=CUP 0x80-pad applied"; and of  *)
(* the same flag of JU and KU, issuer_script_mac.rs: "it must be honoured  *)
(* - padding an already-padded message MACs the wrong data".               *)
PaddedByHostIsAccepted ==
  \A c \in Conns :
    Decided(c, {"JS"}) /\ trace[c] # <<>> /\ req[c].padding = "1" =>
      (code[c] = "00" <=> Genuine(c))
===============================================================================
