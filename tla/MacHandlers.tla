----------------------------- MODULE MacHandlers -----------------------------
(***************************************************************************)
(* The MAC commands: C2/C4 and M6/M8 (mac.rs), the ten legacy commands     *)
(* (legacy_mac.rs), MY (mac_translate.rs), GW (dukpt_mac.rs) and the       *)
(* issuer scripts JU, KU and KY (issuer_script_mac.rs).                    *)
(*                                                                         *)
(* A field of a request holds the character of the wire where the code     *)
(* decides on it.  A message is a sequence of pieces; the pieces "~" and   *)
(* ";" are the bytes that some of the framings take for the end of the     *)
(* message, and "80" is the padding of EMV.                                *)
(***************************************************************************)
EXTENDS Handlers

CONSTANTS
  Messages,       \* messages that hosts send
  Scripts         \* issuer-script messages, unpadded

(* The fields of all commands; a command reads those it has.               *)
MacBlank ==
  [cmd |-> "", wire |-> TRUE, mode |-> "0", key |-> "", key2 |-> "",
   size |-> "0", alg |-> "1", size2 |-> "0", alg2 |-> "1", ksn |-> "",
   msg |-> <<>>, mac |-> Nothing,
   scheme |-> "1", card |-> "", skd |-> <<>>, padding |-> "0"]

(* r.take(n, "MAC") where the MAC is the last field of the frame.          *)
MacField(r, n) == Truncate(r.mac, n)
MacTooShort(r, n) == Malformed(r.mac.len < n)

Generate(key, alg, of, n) ==
  Call("generate_mac", <<key>>, alg, of, Nothing, Nothing, n)
Verify(key, alg, of, mac) ==
  Call("verify_mac", <<key>>, alg, of, mac, Nothing, 0)
Compare(key, alg, of, mac, n) ==
  Call("compare_mac", <<key>>, alg, of, mac, Nothing, n)

-------------------------------------------------------------------------------
(* mac.rs                                                                  *)
algorithm_from_mode_c2 ==
  [b \in {"0", "1", "2", "3"} |->
     CASE b = "0" -> "ALG1" [] b = "1" -> "ALG3" [] OTHER -> "AS2805"]

algorithm_from_m6_algo_byte ==
  [b \in {"1", "3", "6"} |->
     CASE b = "1" -> "ALG1" [] b = "3" -> "ALG3" [] b = "6" -> "CMAC"]

(* Hex digits of the MAC field.                                            *)
m6_mac_size == [b \in {"0", "1"} |-> IF b = "0" THEN 8 ELSE 16]

parse_c2_payload(r) ==
  <<Malformed(~r.wire), Malformed(r.mode # "0"),
    Malformed(r.alg \notin DOMAIN algorithm_from_mode_c2)>>

C2(r) ==
  Plan(parse_c2_payload(r) \o <<Unmapped(r.key)>>,
       <<Generate(r.key, algorithm_from_mode_c2[r.alg], r.msg, 8)>>)

C4(r) ==
  Plan(parse_c2_payload(r) \o <<MacTooShort(r, 8), Unmapped(r.key)>>,
       <<Verify(r.key, algorithm_from_mode_c2[r.alg], r.msg, MacField(r, 8))>>)

parse_m6_payload(r) ==
  <<Malformed(~r.wire), Malformed(r.mode # "0"),
    Malformed(r.size \notin DOMAIN m6_mac_size),
    Malformed(r.alg \notin DOMAIN algorithm_from_m6_algo_byte)>>

M6(r) ==
  Plan(parse_m6_payload(r) \o <<Unmapped(r.key)>>,
       <<Generate(r.key, algorithm_from_m6_algo_byte[r.alg], r.msg,
                  m6_mac_size[r.size])>>)

(* Mutant: M8 always verifies.                                              *)
BugM8CheckAlwaysVerifies(r, alg, n) == Verify(r.key, alg, r.msg, MacField(r, n))

(* A full AES-CMAC never fits the MAC field, so M8 makes the MAC again and *)
(* compares as much of it as the field holds.                              *)
M8Check(r, alg, n) ==
  IF alg = "CMAC" THEN Compare(r.key, alg, r.msg, MacField(r, n), n)
  ELSE Verify(r.key, alg, r.msg, MacField(r, n))

M8(r) ==
  Plan(parse_m6_payload(r)
         \o <<Malformed(r.size \in DOMAIN m6_mac_size
                          /\ r.mac.len < m6_mac_size[r.size]),
              Unmapped(r.key)>>,
       <<M8Check(r, algorithm_from_m6_algo_byte[r.alg], m6_mac_size[r.size])>>)

-------------------------------------------------------------------------------
(* legacy_mac.rs: MA, MC and ME end their data at the first '~', the others*)
(* give its length.                                                        *)
UpTo(mark, s) ==
  LET marks == {i \in DOMAIN s : s[i] = mark} IN
  IF marks = {} THEN s
  ELSE SubSeq(s, 1, (CHOOSE i \in marks : \A j \in marks : i <= j) - 1)

data_slice(r) == UpTo("~", r.msg)
parse_len_binary(r) == r.msg

(* The MAC is in the middle of the frame: the field is always 8 characters.*)
LegacyRefusals(r) == <<Malformed(~r.wire)>>
BlockRefusals(r) == <<Malformed(r.mode # "0"), Malformed(~r.wire)>>

(* Mutant: the new MAC is made with the source key.                         *)
BugTranslateTwiceSource(r, data) ==
  <<Verify(r.key, "ALG1", data, MacField(r, 8)),
    Generate(r.key, "ALG1", data, 8)>>

generate_alg1_mac(key, data) == <<Generate(key, "ALG1", data, 8)>>
generate_alg3_mac(key, data) == <<Generate(key, "ALG3", data, 8)>>
verify_alg1_mac(r, data) == <<Verify(r.key, "ALG1", data, MacField(r, 8))>>
verify_then_generate_alg1(r, data) ==
  <<Verify(r.key, "ALG1", data, MacField(r, 8)),
    Generate(r.key2, "ALG1", data, 8)>>

MA(r) == Plan(LegacyRefusals(r) \o <<Unmapped(r.key)>>,
              generate_alg1_mac(r.key, data_slice(r)))
MC(r) == Plan(LegacyRefusals(r) \o <<Unmapped(r.key)>>,
              verify_alg1_mac(r, data_slice(r)))
ME(r) == Plan(LegacyRefusals(r) \o BothKeys(r),
              verify_then_generate_alg1(r, data_slice(r)))
MK(r) == Plan(LegacyRefusals(r) \o <<Unmapped(r.key)>>,
              generate_alg1_mac(r.key, parse_len_binary(r)))
MM(r) == Plan(LegacyRefusals(r) \o <<Unmapped(r.key)>>,
              verify_alg1_mac(r, parse_len_binary(r)))
MO(r) == Plan(LegacyRefusals(r) \o BothKeys(r),
              verify_then_generate_alg1(r, parse_len_binary(r)))
MU(r) == Plan(BlockRefusals(r) \o <<Unmapped(r.key)>>,
              generate_alg1_mac(r.key, parse_len_binary(r)))
MW(r) == Plan(BlockRefusals(r) \o <<Unmapped(r.key)>>,
              verify_alg1_mac(r, parse_len_binary(r)))
MQ(r) == Plan(BlockRefusals(r) \o <<Unmapped(r.key)>>,
              generate_alg1_mac(r.key, parse_len_binary(r)))
MS(r) == Plan(BlockRefusals(r) \o <<Unmapped(r.key)>>,
              generate_alg3_mac(r.key, parse_len_binary(r)))

-------------------------------------------------------------------------------
(* mac_translate.rs and dukpt_mac.rs: size '1' is half a MAC.              *)
mac_size_from_byte == [b \in {"0", "1"} |-> IF b = "0" THEN 8 ELSE 4]

(* A MAC of less than 8 digits is compared, any other is verified.         *)
CheckWidth(key, alg, of, mac, n) ==
  IF n < 8 THEN Compare(key, alg, of, mac, n) ELSE Verify(key, alg, of, mac)

parse_my(r) ==
  <<Malformed(~r.wire), Malformed(r.mode # "0"),
    Malformed(r.size \notin DOMAIN mac_size_from_byte),
    Malformed(r.size2 \notin DOMAIN mac_size_from_byte),
    Malformed(r.alg \notin DOMAIN algorithm_from_m6_algo_byte),
    Malformed(r.alg2 \notin DOMAIN algorithm_from_m6_algo_byte),
    Malformed(r.size \in DOMAIN mac_size_from_byte
                /\ r.mac.len < mac_size_from_byte[r.size])>>

MY(r) ==
  LET n == mac_size_from_byte[r.size] IN
  Plan(parse_my(r) \o BothKeys(r),
       <<CheckWidth(r.key, algorithm_from_m6_algo_byte[r.alg], r.msg,
                    MacField(r, n), n),
         Generate(r.key2, algorithm_from_m6_algo_byte[r.alg2], r.msg,
                  mac_size_from_byte[r.size2])>>)

(* The key of a DUKPT MAC comes from the base key and the serial number.   *)
dukpt_algorithm ==
  [b \in {"1", "3", "6"} |->
     CASE b = "1" -> "DUKPT_ALG1" [] b = "3" -> "DUKPT_ALG3" [] b = "6" -> "DUKPT_CMAC"]

parse_gw(r) ==
  <<Malformed(~r.wire), Malformed(r.mode \notin {"0", "1"}),
    Malformed(r.size \notin DOMAIN mac_size_from_byte),
    Malformed(r.alg \notin DOMAIN dukpt_algorithm),
    Malformed(r.mode = "1" /\ r.size \in DOMAIN mac_size_from_byte
                /\ r.mac.len < mac_size_from_byte[r.size])>>

GW(r) ==
  LET n == mac_size_from_byte[r.size]
      alg == dukpt_algorithm[r.alg]
      of == <<r.ksn>> \o r.msg
  IN Plan(parse_gw(r) \o <<Unmapped(r.key)>>,
          IF r.mode = "1"
          THEN <<CheckWidth(r.key, alg, of, MacField(r, n), n)>>
          ELSE <<Generate(r.key, alg, of, n)>>)

-------------------------------------------------------------------------------
(* issuer_script_mac.rs                                                    *)
require_mode_0(r) ==
  <<Unsupported(r.mode \in {"1", "2", "3", "4"}), Malformed(r.mode # "0")>>

message_for_apc(msg, already_padded) ==
  IF already_padded THEN msg ELSE emv_pad(msg)

read_len_prefixed_message(r) == r.msg
read_delimited_message(r) == UpTo(";", r.msg)

(* The seed of the session key: a counter is the rightmost two bytes of    *)
(* the session data, a cryptogram is all of it.                            *)
Atc(r) == <<r.skd[2]>>
Ac(r) == r.skd

ku_session_mode ==
  [s \in {"0", "1", "2", "5", "6"} |->
     CASE s = "0" -> "VISA" [] s = "1" -> "MASTERCARD" [] s = "2" -> "AMEX"
       [] s = "5" -> "EMV_COMMON" [] s = "6" -> "UnionPay"]

(* Mutant: the counter is taken from the left of the field.                 *)
BugKuValueLeft(r) == IF r.scheme \in {"0", "2", "6"} THEN <<r.skd[1]>> ELSE Ac(r)

ku_value(r) == IF r.scheme \in {"0", "2", "6"} THEN Atc(r) ELSE Ac(r)

ku_message(r) ==
  IF r.scheme \in {"0", "1", "2"}
  THEN message_for_apc(read_delimited_message(r), FALSE)
  ELSE message_for_apc(read_len_prefixed_message(r),
                       r.scheme = "6" /\ r.padding = "1")

handle_generate(r, mode, value, message) ==
  <<Generate(r.key, mode, <<r.card>> \o value \o message, 8)>>

parse_ju(r) ==
  require_mode_0(r)
    \o <<Malformed(r.scheme # "1"), Malformed(~r.wire),
         Malformed(r.padding \notin {"0", "1"})>>

JU(r) ==
  Plan(parse_ju(r) \o <<Unmapped(r.key)>>,
       handle_generate(r, "Emv2000", Atc(r),
                       message_for_apc(read_len_prefixed_message(r),
                                       r.padding = "1")))

parse_ku(r) ==
  require_mode_0(r)
    \o <<Malformed(~r.wire), Unsupported(r.scheme \in {"3", "4"}),
         Malformed(r.scheme \notin DOMAIN ku_session_mode),
         Malformed(r.scheme = "6" /\ r.padding \notin {"0", "1"})>>

KU(r) ==
  Plan(parse_ku(r) \o <<Unmapped(r.key)>>,
       handle_generate(r, ku_session_mode[r.scheme], ku_value(r),
                       ku_message(r)))

KY(r) == Plan(<<Unsupported(TRUE)>>, <<>>)

-------------------------------------------------------------------------------
MacProgram(r) ==
  CASE r.cmd = "C2" -> C2(r) [] r.cmd = "C4" -> C4(r)
    [] r.cmd = "M6" -> M6(r) [] r.cmd = "M8" -> M8(r)
    [] r.cmd = "MA" -> MA(r) [] r.cmd = "MC" -> MC(r) [] r.cmd = "ME" -> ME(r)
    [] r.cmd = "MK" -> MK(r) [] r.cmd = "MM" -> MM(r) [] r.cmd = "MO" -> MO(r)
    [] r.cmd = "MU" -> MU(r) [] r.cmd = "MW" -> MW(r)
    [] r.cmd = "MQ" -> MQ(r) [] r.cmd = "MS" -> MS(r)
    [] r.cmd = "MY" -> MY(r) [] r.cmd = "GW" -> GW(r)
    [] r.cmd = "JU" -> JU(r) [] r.cmd = "KU" -> KU(r) [] r.cmd = "KY" -> KY(r)

-------------------------------------------------------------------------------
(* What a frame can hold: a MAC in the middle of it has at least the width *)
(* of its field, hosts fill up the counter of a script with zeros on the   *)
(* left, a script whose framing ends it at a ';' cannot hold one, and only *)
(* JU and scheme 6 of KU have the padding flag.                            *)
LegacyCommands == {"MA", "MC", "ME", "MK", "MM", "MO", "MU", "MW", "MQ", "MS"}
ReadsMac == {"C4", "M8", "MC", "ME", "MM", "MO", "MW"}
MacCommands == LegacyCommands \cup {"C2", "C4", "M6", "M8", "MY", "GW", "JU", "KU", "KY"}

MacFields ==
  [cmd : MacCommands, wire : BOOLEAN, mode : STRING, key : STRING, key2 : STRING,
   size : STRING, alg : STRING, size2 : STRING, alg2 : STRING, ksn : STRING,
   msg : Seq(STRING), mac : Data,
   scheme : STRING, card : STRING, skd : Seq(STRING), padding : STRING]

ScriptFrame(r) ==
  LET counter == r.cmd = "JU" \/ r.scheme \in {"0", "2", "6"} IN
  /\ Len(r.skd) = 2
  /\ counter => r.skd[1] = "zero"
  /\ r.cmd = "KU" /\ r.scheme \in {"1", "5"} => r.skd[1] # "zero"
  /\ r.padding = "1" => r.cmd = "JU" \/ r.scheme = "6"
  /\ r.cmd = "KU" /\ r.scheme \in {"0", "1", "2"} => UpTo(";", r.msg) = r.msg

MacFrame(r) ==
  /\ r \in MacFields
  /\ r.wire /\ (r.cmd = "MW" => r.mode = "0") /\ r.cmd \in LegacyCommands \cap ReadsMac =>
       r.mac.len >= 8
  /\ r.wire /\ r.mode = "0" /\ r.cmd \in {"JU", "KU"} => ScriptFrame(r)

(* The commands that hosts send, given the data in their hands.            *)

Macs(hold) == {d \in hold : d.kind = "mac"}
MacsFor(cmd, hold, n) ==
  IF cmd \in ReadsMac THEN {d \in Macs(hold) : d.len >= n} ELSE {Nothing}

PlainRequests(hold) ==
  {[MacBlank EXCEPT !.cmd = "C2", !.key = k, !.alg = a, !.msg = m] :
     k \in Refs, a \in {"0", "1", "2"}, m \in Messages}
  \cup
  {[MacBlank EXCEPT !.cmd = "C4", !.key = k, !.alg = a, !.msg = m, !.mac = d] :
     k \in Refs, a \in {"0", "1", "2"}, m \in Messages, d \in Macs(hold)}

SizedRequests(hold, profiles) ==
  {[MacBlank EXCEPT !.cmd = "M6", !.key = k, !.size = p[1], !.alg = p[2], !.msg = m] :
     k \in Refs, p \in profiles, m \in Messages}
  \cup
  {[MacBlank EXCEPT !.cmd = "M8", !.key = k, !.size = p[1], !.alg = p[2], !.msg = m,
                 !.mac = d] :
     k \in Refs, p \in profiles, m \in Messages, d \in Macs(hold)}

LegacyRequests(hold) ==
  UNION {
    {[MacBlank EXCEPT !.cmd = x, !.key = k, !.key2 = l, !.msg = m, !.mac = d] :
       k \in Refs, l \in IF x \in {"ME", "MO"} THEN Refs ELSE {""},
       m \in Messages, d \in MacsFor(x, hold, 8)} : x \in LegacyCommands}

MacTranslations(hold, profiles) ==
  {[MacBlank EXCEPT !.cmd = "MY", !.key = k, !.key2 = l, !.size = p[1], !.alg = p[2],
                 !.size2 = q[1], !.alg2 = q[2], !.msg = m, !.mac = d] :
     k \in Refs, l \in Refs, p \in profiles, q \in profiles,
     m \in Messages, d \in Macs(hold)}

DukptMacs(hold) ==
  {[MacBlank EXCEPT !.cmd = "GW", !.mode = o, !.key = k, !.ksn = s, !.size = z,
                 !.alg = a, !.msg = m, !.mac = d] :
     o \in {"0", "1"}, k \in Refs, s \in {"ksn1", "ksn2"}, z \in {"0", "1"},
     a \in {"1", "6"}, m \in Messages, d \in Macs(hold) \cup {Nothing}}

ScriptRequests ==
  {r \in
     {[MacBlank EXCEPT !.cmd = x[1], !.scheme = x[2], !.padding = x[3], !.key = k,
                    !.card = "pan",
                    !.skd = IF x[1] = "KU" /\ x[2] \in {"1", "5"}
                            THEN <<"ac1", "ac2">> ELSE <<"zero", "atc">>,
                    !.msg = IF x[3] = "1" THEN Append(m, "80") ELSE m] :
        x \in ({"JU"} \X {"1", "2"} \X {"0", "1"})
             \cup ({"KU"} \X {"0", "1", "2", "3", "5", "6", "9"} \X {"0"})
             \cup {<<"KU", "6", "1">>},
        k \in Refs, m \in Scripts} :
   r.cmd = "KU" /\ r.scheme \in {"0", "1", "2"} => UpTo(";", r.msg) = r.msg}

(* One frame that does not parse and one unsupported mode of each command. *)
BadMacs ==
  {[MacBlank EXCEPT !.cmd = x, !.wire = w, !.mode = IF w THEN "2" ELSE "0"] :
     x \in {"C2", "C4", "M6", "M8", "MU", "MW", "MQ", "MS", "MY", "GW",
            "JU", "KU", "KY"},
     w \in BOOLEAN}

-------------------------------------------------------------------------------
(* What a generating command returns under key k.                          *)
Made(r, k) ==
  LET call == MacProgram(r).calls[1] IN
  Kept(call, Datum("mac", k, Derivation(call.alg), call.of, FullDigits(call.alg)))

(* The generating command with the fields of a verifying one.              *)
GeneratingTwin ==
  [x \in {"C4", "M8", "MC", "MM", "MW", "ME", "MO", "GW"} |->
     CASE x = "C4" -> "C2" [] x = "M8" -> "M6" [] x \in {"MC", "ME"} -> "MA"
       [] x \in {"MM", "MO"} -> "MK" [] x = "MW" -> "MU" [] x = "GW" -> "GW"]

Twin(r) ==
  [r EXCEPT !.cmd = GeneratingTwin[@], !.mode = IF r.cmd = "GW" THEN "0" ELSE @]

(* Did the command's first call find the MAC genuine?                      *)
Passed(c) == IF req[c].cmd \in {"ME", "MO"} THEN Len(trace[c]) = 2
             ELSE code[c] = "00"

(* A verifying command passes exactly the MAC that its generating twin     *)
(* returns for the same fields and the same key, at every width: no other  *)
(* MAC passes, and one's own MAC is neither called a mismatch, rejected by *)
(* the service nor refused as malformed - but for M8 where the service's   *)
(* MAC has not as many digits as the size byte asks for.  (C4 and C2, M8   *)
(* and M6, MC, MM, MW and MA, MK, MU, both modes of GW, the first half of  *)
(* ME and MO.)                                                             *)
VerifiesItsTwin ==
  \A c \in Conns :
    Decided(c, DOMAIN GeneratingTwin) /\ (req[c].cmd = "GW" => req[c].mode = "1") =>
      /\ trace[c] # <<>> =>
           LET made == Made(Twin(req[c]), trace[c][1][req[c].key]) IN
           Passed(c) <=> Truncate(req[c].mac, made.len) = made
      /\ code[c] = "15" /\ MacProgram(Twin(req[c])).calls # <<>> =>
           \A k \in Keys :
             req[c].mac = Made(Twin(req[c]), k) =>
               req[c].cmd = "M8" /\ req[c].mac.len < m6_mac_size[req[c].size]

(* ME, MO and MY release a MAC only if the one they were given is of this  *)
(* message under the key of their first call, and what they release is of  *)
(* the same message under the key of their second call - even when an      *)
(* operator retargets an alias between the two calls.                      *)
TranslationReMacs ==
  \A c \in Conns :
    Answered(c, {"ME", "MO", "MY"}, "00") =>
      /\ out[c].kind = "mac" /\ req[c].mac.kind = "mac"
      /\ out[c].of = req[c].mac.of
      /\ req[c].mac.key = trace[c][1][req[c].key]
      /\ out[c].key = trace[c][2][req[c].key2]

(* Session data without the zeros that fill up a counter.                  *)
Unfilled(skd) == IF skd[1] = "zero" THEN <<skd[2]>> ELSE skd

(* The MAC of an issuer script is the one that the card computes: over the *)
(* card number, the counter or cryptogram of its session without the       *)
(* filling of the field, and the script padded exactly once, whoever       *)
(* padded it.  JU and scheme 6 of KU give one card the same MAC, although  *)
(* they name its session differently to the service.                       *)
ScriptMacIsCards ==
  \A c \in Conns :
    Answered(c, {"JU", "KU"}, "00") =>
      LET r == req[c] IN
      /\ out[c].of = <<r.card>> \o Unfilled(r.skd)
                       \o (IF r.padding = "1" THEN r.msg ELSE Append(r.msg, "80"))
      /\ r.cmd = "JU" =>
           out[c] = Made([r EXCEPT !.cmd = "KU", !.scheme = "6"], trace[c][1][r.key])

(* mac_translate.rs, the layout of MY: "In MAC Algo '6'=CMAC", "In MAC Size*)
(* '0'=full 4B": the first four bytes of a genuine CMAC pass.              *)
MyAcceptsItsWidths ==
  \A c \in Conns :
    /\ Decided(c, {"MY"}) /\ trace[c] # <<>>
    /\ req[c].mac.len = mac_size_from_byte[req[c].size]
    /\ req[c].mac = Datum("mac", trace[c][1][req[c].key],
                          algorithm_from_m6_algo_byte[req[c].alg], req[c].msg,
                          req[c].mac.len)
    => code[c] = "00"
===============================================================================
