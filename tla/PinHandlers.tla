----------------------------- MODULE PinHandlers -----------------------------
(***************************************************************************)
(* The PIN commands: translation CC and CA (pin.rs), change DU and CU      *)
(* (pin_change.rs), verification DA, EA, DC, EC (pin_verify_non_dukpt.rs), *)
(* CK (dukpt_pin_verify.rs) and GO (dukpt_pin_verify_aes.rs), and those of *)
(* their families that are gated.                                          *)
(*                                                                         *)
(* A PIN block holds a PIN, and is bound to a key, a format, an account    *)
(* (but for format 1) and, under DUKPT, a serial number.  An offset or a   *)
(* verification value is the reference for a PIN under a verification key. *)
(***************************************************************************)
EXTENDS Handlers

CONSTANT Accounts      \* account numbers that hosts send

(* The fields of all commands; a command reads those it has.  val is the   *)
(* validation data of an offset, or the key index of a verification value. *)
PinBlank ==
  [cmd |-> "", wire |-> TRUE, mode |-> "0", flag |-> "", key |-> "", key2 |-> "",
   fmt |-> "01", fmt2 |-> "01", acct |-> "acct", ksn |-> "", nibbles |-> 20,
   val |-> "val", table |-> "digits",
   ref |-> Nothing, block |-> Nothing, newBlock |-> Nothing]

-------------------------------------------------------------------------------
(* common.rs                                                               *)
map_pin_block_format ==
  [f \in {"01", "05", "47", "48"} |->
     CASE f = "01" -> "ISO0" [] f = "05" -> "ISO1" [] f = "47" -> "ISO3"
       [] f = "48" -> "ISO4"]

BadFormat(bad) == Refuse(bad, "23")

(* offset.trim_end_matches('F')                                            *)
TrimF(d) == [d EXCEPT !.len = BareDigits(d)]

(* The reference value: an offset is made of the validation data and the   *)
(* PIN, a verification value of the account, the key index and the PIN.    *)
OffsetOf(r) == <<r.val>>
PvvOf(r) == <<r.acct, r.val>>

NewOffset == Datum("offset", NoKey, "", <<>>, 0)
NewPvv == Datum("pvv", NoKey, "", <<>>, 0)

(* Mutant: the two keys are swapped.                                        *)
BugVerifyPinDataSwapsKeys(r, fmt, prefix, val, ref) ==
  PinCall("verify_pin_data", <<r.key2, r.key>>, fmt, prefix, val, ref, r.block, 0)

(* verify_pin_data: the key of the block, then the verification key.       *)
VerifyPinData(r, fmt, prefix, val, ref) ==
  PinCall("verify_pin_data", <<r.key, r.key2>>, fmt, prefix, val, ref, r.block, 0)

(* Mutant: the new value is made of the current PIN.                        *)
BugGenerateFromCurrentBlock(r, fmt, val, new, n) ==
  PinCall("generate_pin_data", <<r.key2, r.key>>, fmt, <<r.acct>>, val, new,
          r.block, n)

(* generate_pin_data: the verification key, then the key of the new block. *)
GeneratePinData(r, fmt, val, new, n) ==
  PinCall("generate_pin_data", <<r.key2, r.key>>, fmt, <<r.acct>>, val, new,
          r.newBlock, n)

FormatRefusal(r) == <<BadFormat(r.fmt \notin DOMAIN map_pin_block_format)>>

-------------------------------------------------------------------------------
(* pin_change.rs: one format covers both blocks.                           *)
parse_du(r) == <<Malformed(~r.wire)>>
parse_cu(r) == <<Malformed(~r.wire)>>

DU(r) ==
  LET fmt == map_pin_block_format[r.fmt] IN
  Plan(parse_du(r) \o BothKeys(r) \o FormatRefusal(r),
       <<VerifyPinData(r, fmt, <<r.acct>>, OffsetOf(r), TrimF(r.ref)),
         GeneratePinData(r, fmt, OffsetOf(r), NewOffset, 12)>>)

CU(r) ==
  LET fmt == map_pin_block_format[r.fmt] IN
  Plan(parse_cu(r) \o BothKeys(r) \o FormatRefusal(r),
       <<VerifyPinData(r, fmt, <<r.acct>>, PvvOf(r), r.ref),
         GeneratePinData(r, fmt, PvvOf(r), NewPvv, 4)>>)

-------------------------------------------------------------------------------
(* pin_verify_non_dukpt.rs: DA and EA, DC and EC.  The layouts that head   *)
(* the file say that the format is "consumed (proxy hardcodes IsoFormat0)";*)
(* the handlers forward it, and refuse those that the service does not have*)
parse_ibm(r) == <<Malformed(~r.wire)>>
parse_visa(r) == <<Malformed(~r.wire)>>

handle_ibm(r) ==
  Plan(parse_ibm(r) \o BothKeys(r) \o FormatRefusal(r),
       <<VerifyPinData(r, map_pin_block_format[r.fmt], <<r.acct>>, OffsetOf(r),
                       TrimF(r.ref))>>)

handle_visa(r) ==
  Plan(parse_visa(r) \o BothKeys(r) \o FormatRefusal(r),
       <<VerifyPinData(r, map_pin_block_format[r.fmt], <<r.acct>>, PvvOf(r),
                       r.ref)>>)

-------------------------------------------------------------------------------
(* dukpt_pin_verify.rs: the block is taken to be of format 0; tables and   *)
(* validation data that refer to the HSM's storage are refused.            *)
CK(r) ==
  Plan(<<Malformed(r.table # "digits"), Malformed(~r.wire)>> \o BothKeys(r),
       <<VerifyPinData(r, "ISO0", <<r.ksn, r.acct>>, OffsetOf(r), TrimF(r.ref))>>)

(* dukpt_pin_verify_aes.rs.  The number of nibbles of the serial number    *)
(* tells 3DES from AES DUKPT, and so the width of the block.               *)
parse_mode(r) ==
  <<Unsupported(r.mode = "1"), Malformed(r.mode \notin {"0", "2"})>>

parse_ksn_with_descriptor(r) == <<Malformed(r.nibbles \notin {20, 24})>>

map_dukpt_format(r) == <<Unsupported(r.fmt = "04")>> \o FormatRefusal(r)

parse_go(r) ==
  parse_mode(r) \o <<Malformed(~r.wire)>> \o parse_ksn_with_descriptor(r)
    \o map_dukpt_format(r) \o <<Malformed(r.table # "digits")>>

GO(r) ==
  Plan(parse_go(r) \o BothKeys(r),
       <<VerifyPinData(r, map_pin_block_format[r.fmt], <<r.ksn, r.acct>>,
                       OffsetOf(r), TrimF(r.ref))>>)

-------------------------------------------------------------------------------
(* pin.rs: a key flag means a DUKPT destination.                           *)
map_translate_format ==
  [f \in {"01", "05", "47"} |->
     CASE f = "01" -> "ISO0" [] f = "05" -> "ISO1" [] f = "47" -> "ISO3"]

TranslateFormatRefusals(f) ==
  <<Unsupported(f \in {"04", "48"}), BadFormat(f \notin DOMAIN map_translate_format)>>

parse_translate(r, has_dest_flag) ==
  <<Unsupported(has_dest_flag /\ r.flag \in {"*", "~"}), Malformed(~r.wire)>>
    \o TranslateFormatRefusals(r.fmt) \o TranslateFormatRefusals(r.fmt2)

(* Mutant: the outgoing format is the incoming one.                         *)
BugTranslateKeepsFormat(r) ==
  <<PinCall("translate_pin_data", <<r.key, r.key2>>, map_translate_format[r.fmt],
            <<r.acct>>, <<map_translate_format[r.fmt]>>, Nothing, r.block, 0)>>

Translate(r) ==
  <<PinCall("translate_pin_data", <<r.key, r.key2>>, map_translate_format[r.fmt],
            <<r.acct>>, <<map_translate_format[r.fmt2]>>, Nothing, r.block, 0)>>

CC(r) == Plan(parse_translate(r, FALSE) \o BothKeys(r), Translate(r))
CA(r) == Plan(parse_translate(r, TRUE) \o BothKeys(r), Translate(r))

(* The commands of the three families that are answered with 68 unread.    *)
GatedTranslations == {"G0", "BQ"}
GatedDukpt == {"CM", "CO", "CQ"}
GatedDukptAes == {"GQ", "GS", "GU"}
GatedPins == GatedTranslations \cup GatedDukpt \cup GatedDukptAes

PinProgram(r) ==
  CASE r.cmd = "DU" -> DU(r) [] r.cmd = "CU" -> CU(r)
    [] r.cmd \in {"DA", "EA"} -> handle_ibm(r)
    [] r.cmd \in {"DC", "EC"} -> handle_visa(r)
    [] r.cmd = "CK" -> CK(r) [] r.cmd = "GO" -> GO(r)
    [] r.cmd = "CC" -> CC(r) [] r.cmd = "CA" -> CA(r)
    [] r.cmd \in GatedPins -> Plan(<<Unsupported(TRUE)>>, <<>>)

-------------------------------------------------------------------------------
Checks == {"DA", "EA", "DC", "EC", "CK", "GO"}
Changes == {"DU", "CU"}
PinCommands == GatedPins \cup Checks \cup Changes \cup {"CC", "CA"}

(* What a frame can hold, given the data in the hands of its sender: a     *)
(* verification value has four digits.                                     *)
PinFields ==
  [cmd : PinCommands, wire : BOOLEAN, mode : STRING, flag : STRING, key : STRING,
   key2 : STRING, fmt : STRING, fmt2 : STRING, acct : STRING, ksn : STRING,
   nibbles : Nat, val : STRING, table : STRING,
   ref : Data, block : Data, newBlock : Data]

PinFrame(r, hold) ==
  /\ r \in PinFields /\ r.ref \in hold \cup {Nothing}
  /\ r.wire /\ r.cmd \in Checks \cup Changes =>
       IF r.cmd \in {"DC", "EC", "CU"} THEN r.ref.kind = "pvv" /\ r.ref.len = 4
       ELSE r.ref.kind = "offset"

(* The commands that hosts send, given the data in their hands.            *)
Blocks(hold, n) == {d \in hold : d.kind = "block" /\ d.len = n}
Values(hold, kind) == {d \in hold : d.kind = kind}

VerifyRequests(hold) ==
  {[PinBlank EXCEPT !.cmd = x, !.key = k, !.key2 = l, !.fmt = f, !.acct = a,
                 !.block = b, !.ref = v] :
     x \in {"DA", "EA"}, k \in Refs, l \in Refs, f \in {"01", "05", "04"},
     a \in Accounts, b \in Blocks(hold, 16), v \in Values(hold, "offset")}
  \cup
  {[PinBlank EXCEPT !.cmd = x, !.key = k, !.key2 = l, !.fmt = f, !.acct = a,
                 !.val = "1", !.block = b, !.ref = v] :
     x \in {"DC", "EC"}, k \in Refs, l \in Refs, f \in {"01", "47"},
     a \in Accounts, b \in Blocks(hold, 16), v \in Values(hold, "pvv")}

ChangeRequests(hold) ==
  {[PinBlank EXCEPT !.cmd = IF v.kind = "offset" THEN "DU" ELSE "CU",
                 !.val = IF v.kind = "offset" THEN "val" ELSE "1",
                 !.key = k, !.key2 = l, !.fmt = f, !.block = b, !.newBlock = n,
                 !.ref = v] :
     k \in Refs, l \in Refs, f \in {"01", "04"}, b \in Blocks(hold, 16),
     n \in Blocks(hold, 16),
     v \in Values(hold, "offset") \cup Values(hold, "pvv")}

DukptPins(hold) ==
  {[PinBlank EXCEPT !.cmd = "CK", !.key = k, !.key2 = l, !.ksn = s, !.table = t,
                 !.block = b, !.ref = v] :
     k \in Refs, l \in Refs, s \in {"ksn1", "ksn2"}, t \in {"digits", "stored"},
     b \in Blocks(hold, 16), v \in Values(hold, "offset")}
  \cup
  UNION {
    {[PinBlank EXCEPT !.cmd = "GO", !.mode = o, !.key = k, !.key2 = l, !.ksn = s,
                   !.nibbles = n, !.fmt = f, !.block = b, !.ref = v] :
       o \in {"0", "1", "2"}, k \in Refs, l \in Refs, s \in {"ksn1", "ksn2"},
       f \in {"01", "48", "04"},
       b \in Blocks(hold, IF n = 24 THEN 32 ELSE 16),
       v \in Values(hold, "offset")} : n \in {20, 24, 22}}

PinTranslations(hold) ==
  {[PinBlank EXCEPT !.cmd = x[1], !.flag = x[2], !.key = k, !.key2 = l, !.fmt = f,
                 !.fmt2 = g, !.acct = a, !.block = b] :
     x \in {<<"CC", "">>, <<"CA", "">>, <<"CA", "*">>}, k \in Refs, l \in Refs,
     f \in {"01", "05", "48"}, g \in {"01", "05", "99"}, a \in Accounts,
     b \in Blocks(hold, 16)}

BadPins ==
  {[PinBlank EXCEPT !.cmd = x, !.wire = FALSE] :
     x \in GatedPins \cup {"DU", "CU", "DA", "DC", "CK", "GO", "CC", "CA"}}

-------------------------------------------------------------------------------
(* What a command's block is bound to, as the host means it.  CK reads no  *)
(* format: a host means that of its block, whichever it is.                *)
HostFormat(r) == IF r.cmd = "CK" THEN r.block.alg ELSE map_pin_block_format[r.fmt]
HostBinding(r) == IF r.cmd \in {"CK", "GO"} THEN <<r.ksn, r.acct>> ELSE <<r.acct>>
HostValue(r) ==
  IF r.cmd \in {"DC", "EC", "CU"} THEN <<r.acct, r.val>> ELSE <<r.val>>

(* A block under key k holds the PIN p, and a value under key k refers to  *)
(* it, in the terms of the command r.                                      *)
Holds(r, b, k, p) ==
  b = PinBlock(k, HostFormat(r), HostBinding(r), p, b.len)
RefersTo(r, v, k, p) == v.key = k /\ v.of = Append(HostValue(r), p)

(* A PIN is accepted exactly if the block and the reference value are of   *)
(* one PIN, under the keys that the fields name then: nobody passes with   *)
(* another PIN, and no cardholder with the right PIN is turned away, be    *)
(* the offset fresh from DU and filled up with 'F', or the block fresh     *)
(* from CC, and whatever the format - but for CK, which serves format 0    *)
(* only (the KNOWN GAP of dukpt_pin_verify.rs).                            *)
PinAcceptedIfRight ==
  \A c \in Conns :
    Decided(c, Checks) /\ trace[c] # <<>> =>
      LET r == req[c]
          named == trace[c][1]
      IN code[c] = "00" <=> /\ Holds(r, r.block, named[r.key], PinOf(r.block))
                            /\ RefersTo(r, r.ref, named[r.key2], PinOf(r.block))
                            /\ r.cmd = "CK" => r.block.alg = "ISO0"

(* DU and CU release a new value only if the current PIN was right, and    *)
(* the new value is that of the new PIN, under the keys of the second      *)
(* call, as wide as its field.  If no alias stands behind the verification *)
(* key, the new value is under the key of the current one.  ("Both         *)
(* commands are atomic", pin_change.rs.)                                   *)
PinChangeIsRight ==
  \A c \in Conns :
    Answered(c, Changes, "00") =>
      LET r == req[c]
          named == trace[c]
      IN /\ Holds(r, r.block, named[1][r.key], PinOf(r.block))
         /\ RefersTo(r, r.ref, named[1][r.key2], PinOf(r.block))
         /\ Holds(r, r.newBlock, named[2][r.key], PinOf(r.newBlock))
         /\ RefersTo(r, out[c], named[2][r.key2], PinOf(r.newBlock))
         /\ out[c].kind = r.ref.kind
         /\ out[c].len = IF r.cmd = "DU" THEN 12 ELSE 4
         /\ r.key2 \notin Aliases => out[c].key = r.ref.key

(* A translated block holds the PIN of the block it was made from, in the  *)
(* format and under the key that the host asked for.                       *)
TranslationKeepsPin ==
  \A c \in Conns :
    Answered(c, {"CC", "CA"}, "00") =>
      LET r == req[c]
          named == trace[c][1]
      IN Holds(r, r.block, named[r.key], PinOf(r.block)) =>
           out[c] = PinBlock(named[r.key2], map_pin_block_format[r.fmt2],
                             <<r.acct>>, PinOf(r.block), 16)
===============================================================================
