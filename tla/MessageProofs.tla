---------------------------- MODULE MessageProofs ----------------------------
(***************************************************************************)
(* The properties of the MAC and data commands, for every number of tasks, *)
(* every key map, every moment at which aliases are retargeted and every   *)
(* traffic of well-formed frames.                                          *)
(***************************************************************************)
EXTENDS MacHandlers, DataHandlers, HandlersProofs

-------------------------------------------------------------------------------
(* The plans of the MAC commands: when their calls are made, and which.    *)
PlainGuard(r) ==
  /\ r.wire /\ r.mode = "0" /\ r.alg \in DOMAIN algorithm_from_mode_c2
  /\ r.key \in Mapped

SizedGuard(r) ==
  /\ r.wire /\ r.mode = "0" /\ r.size \in DOMAIN m6_mac_size
  /\ r.alg \in DOMAIN algorithm_from_m6_algo_byte /\ r.key \in Mapped

(* What C2, C4, M6 and M8 do without waiting.                              *)
LEMMA MacParsing ==
  ASSUME NEW r
  PROVE  /\ Refusals(parse_c2_payload(r))
         /\ Clears(parse_c2_payload(r)) <=>
              r.wire /\ r.mode = "0" /\ r.alg \in DOMAIN algorithm_from_mode_c2
         /\ Refusals(parse_m6_payload(r))
         /\ Clears(parse_m6_payload(r)) <=>
              /\ r.wire /\ r.mode = "0" /\ r.size \in DOMAIN m6_mac_size
              /\ r.alg \in DOMAIN algorithm_from_m6_algo_byte
PROOF
  <1>2. /\ Refusals(parse_c2_payload(r))
        /\ Clears(parse_c2_payload(r)) <=>
             r.wire /\ r.mode = "0" /\ r.alg \in DOMAIN algorithm_from_mode_c2
    BY Malformed3, Zenon DEF parse_c2_payload
  <1> DEFINE a == <<Malformed(~r.wire), Malformed(r.mode # "0")>>
             b == <<Malformed(r.size \notin DOMAIN m6_mac_size),
                    Malformed(r.alg \notin DOMAIN algorithm_from_m6_algo_byte)>>
  <1>3. parse_m6_payload(r) = a \o b
    BY DEF parse_m6_payload
  <1>4. Refusals(a) /\ (Clears(a) <=> r.wire /\ r.mode = "0")
    BY Malformed2, Zenon
  <1>5. /\ Refusals(b)
        /\ Clears(b) <=> /\ r.size \in DOMAIN m6_mac_size
                         /\ r.alg \in DOMAIN algorithm_from_m6_algo_byte
    BY Malformed2, Zenon
  <1> HIDE DEF a, b
  <1> QED BY <1>2, <1>3, <1>4, <1>5, RefusalsJoin

(* The calls of C2, C4, M6 and M8.                                         *)
LEMMA PlainPlans ==
  ASSUME NEW r
  PROVE  /\ C2(r).calls =
              IF PlainGuard(r)
              THEN <<Generate(r.key, algorithm_from_mode_c2[r.alg], r.msg, 8)>> ELSE <<>>
         /\ C4(r).calls =
              IF PlainGuard(r) /\ ~(r.mac.len < 8)
              THEN <<Verify(r.key, algorithm_from_mode_c2[r.alg], r.msg, MacField(r, 8))>>
              ELSE <<>>
         /\ M6(r).calls =
              IF SizedGuard(r)
              THEN <<Generate(r.key, algorithm_from_m6_algo_byte[r.alg], r.msg,
                              m6_mac_size[r.size])>> ELSE <<>>
         /\ M8(r).calls =
              IF SizedGuard(r) /\ ~(r.mac.len < m6_mac_size[r.size])
              THEN <<M8Check(r, algorithm_from_m6_algo_byte[r.alg], m6_mac_size[r.size])>>
              ELSE <<>>
PROOF
  <1>1. "15" \in Errors /\ "10" \in Errors
    BY Codes
  <1> DEFINE k == <<Unmapped(r.key)>>
             w == <<MacTooShort(r, 8), Unmapped(r.key)>>
             v == <<Malformed(r.size \in DOMAIN m6_mac_size
                                /\ r.mac.len < m6_mac_size[r.size]), Unmapped(r.key)>>
  <1>2. Refusals(k) /\ (Clears(k) <=> r.key \in Mapped)
    BY KeyRefusals
  <1>3. Refusals(w) /\ (Clears(w) <=> ~(r.mac.len < 8) /\ r.key \in Mapped)
    <2> DEFINE a == <<MacTooShort(r, 8)>>
    <2>1. w = a \o k
      OBVIOUS
    <2>2. Refusals(a) /\ (Clears(a) <=> ~(r.mac.len < 8))
      BY <1>1, Refuse1 DEF Malformed, MacTooShort
    <2> HIDE DEF a, w, k
    <2> QED BY <2>1, <2>2, <1>2, RefusalsJoin
  <1>4. /\ Refusals(v)
        /\ Clears(v) <=>
             /\ ~(r.size \in DOMAIN m6_mac_size /\ r.mac.len < m6_mac_size[r.size])
             /\ r.key \in Mapped
    BY <1>1, Refuse2, Zenon DEF Malformed, Unmapped
  <1> HIDE DEF k, w, v
  <1>5. /\ Refusals(parse_c2_payload(r) \o k) /\ Refusals(parse_c2_payload(r) \o w)
        /\ Clears(parse_c2_payload(r) \o k) <=> PlainGuard(r)
        /\ Clears(parse_c2_payload(r) \o w) <=> PlainGuard(r) /\ ~(r.mac.len < 8)
    BY <1>2, <1>3, MacParsing, RefusalsJoin DEF PlainGuard
  <1>6. /\ Refusals(parse_m6_payload(r) \o k) /\ Refusals(parse_m6_payload(r) \o v)
        /\ Clears(parse_m6_payload(r) \o k) <=> SizedGuard(r)
        /\ Clears(parse_m6_payload(r) \o v) <=>
             SizedGuard(r) /\ ~(r.mac.len < m6_mac_size[r.size])
    BY <1>2, <1>4, MacParsing, RefusalsJoin DEF SizedGuard
  <1>7. C2(r).calls =
          IF PlainGuard(r)
          THEN <<Generate(r.key, algorithm_from_mode_c2[r.alg], r.msg, 8)>> ELSE <<>>
    BY <1>5, PlanOf DEF C2, k
  <1>8. C4(r).calls =
          IF PlainGuard(r) /\ ~(r.mac.len < 8)
          THEN <<Verify(r.key, algorithm_from_mode_c2[r.alg], r.msg, MacField(r, 8))>>
          ELSE <<>>
    BY <1>5, PlanOf DEF C4, w
  <1>9. M6(r).calls =
          IF SizedGuard(r)
          THEN <<Generate(r.key, algorithm_from_m6_algo_byte[r.alg], r.msg,
                          m6_mac_size[r.size])>> ELSE <<>>
    BY <1>6, PlanOf DEF M6, k
  <1>10. M8(r).calls =
          IF SizedGuard(r) /\ ~(r.mac.len < m6_mac_size[r.size])
          THEN <<M8Check(r, algorithm_from_m6_algo_byte[r.alg], m6_mac_size[r.size])>>
          ELSE <<>>
    BY <1>6, PlanOf DEF M8, v
  <1> QED BY <1>7, <1>8, <1>9, <1>10

(* The calls of the ten legacy commands.                                   *)
LEMMA LegacyPlans ==
  ASSUME NEW r
  PROVE  LET one == r.wire /\ r.key \in Mapped
             two == r.wire /\ r.key \in Mapped /\ r.key2 \in Mapped
             blk == r.wire /\ r.mode = "0" /\ r.key \in Mapped
             tilde == data_slice(r)
         IN
         /\ MA(r).calls = IF one THEN generate_alg1_mac(r.key, tilde) ELSE <<>>
         /\ MC(r).calls = IF one THEN verify_alg1_mac(r, tilde) ELSE <<>>
         /\ ME(r).calls = IF two THEN verify_then_generate_alg1(r, tilde) ELSE <<>>
         /\ MK(r).calls = IF one THEN generate_alg1_mac(r.key, r.msg) ELSE <<>>
         /\ MM(r).calls = IF one THEN verify_alg1_mac(r, r.msg) ELSE <<>>
         /\ MO(r).calls = IF two THEN verify_then_generate_alg1(r, r.msg) ELSE <<>>
         /\ MU(r).calls = IF blk THEN generate_alg1_mac(r.key, r.msg) ELSE <<>>
         /\ MW(r).calls = IF blk THEN verify_alg1_mac(r, r.msg) ELSE <<>>
         /\ MQ(r).calls = IF blk THEN generate_alg1_mac(r.key, r.msg) ELSE <<>>
         /\ MS(r).calls = IF blk THEN generate_alg3_mac(r.key, r.msg) ELSE <<>>
         /\ one /\ ~two => ME(r).refusal = "10" /\ MO(r).refusal = "10"
PROOF
  <1>1. "15" \in Errors
    BY Codes
  <1> DEFINE one == r.wire /\ r.key \in Mapped
             two == r.wire /\ r.key \in Mapped /\ r.key2 \in Mapped
             blk == r.wire /\ r.mode = "0" /\ r.key \in Mapped
             k == <<Unmapped(r.key)>>
  <1>2. /\ Refusals(LegacyRefusals(r)) /\ Refusals(BlockRefusals(r))
        /\ Clears(LegacyRefusals(r)) <=> r.wire
        /\ Clears(BlockRefusals(r)) <=> r.mode = "0" /\ r.wire
    BY <1>1, Refuse1, Refuse2, Zenon DEF LegacyRefusals, BlockRefusals, Malformed
  <1>3. Refusals(k) /\ (Clears(k) <=> r.key \in Mapped)
    BY KeyRefusals
  <1> HIDE DEF k
  <1>4. /\ Refusals(LegacyRefusals(r) \o k) /\ (Clears(LegacyRefusals(r) \o k) <=> one)
        /\ Refusals(BlockRefusals(r) \o k) /\ (Clears(BlockRefusals(r) \o k) <=> blk)
    BY <1>2, <1>3, RefusalsJoin
  <1>5. /\ Refusals(LegacyRefusals(r) \o BothKeys(r))
        /\ Clears(LegacyRefusals(r) \o BothKeys(r)) <=> two
    BY <1>2, KeyRefusals, RefusalsJoin
  <1>6. ASSUME NEW calls
        PROVE  /\ Plan(LegacyRefusals(r) \o k, calls).calls = IF one THEN calls ELSE <<>>
               /\ Plan(BlockRefusals(r) \o k, calls).calls = IF blk THEN calls ELSE <<>>
               /\ Plan(LegacyRefusals(r) \o BothKeys(r), calls).calls =
                    IF two THEN calls ELSE <<>>
    <2>1. Plan(LegacyRefusals(r) \o k, calls).calls = IF one THEN calls ELSE <<>>
      BY <1>4, PlanOf
    <2>2. Plan(BlockRefusals(r) \o k, calls).calls = IF blk THEN calls ELSE <<>>
      BY <1>4, PlanOf
    <2>3. Plan(LegacyRefusals(r) \o BothKeys(r), calls).calls = IF two THEN calls ELSE <<>>
      BY <1>5, PlanOf
    <2> QED BY <2>1, <2>2, <2>3
  <1>7. ASSUME NEW calls, one, ~two
        PROVE  Plan(LegacyRefusals(r) \o BothKeys(r), calls).refusal = "10"
    <2>1. \A i \in DOMAIN BothKeys(r) : BothKeys(r)[i].code = "10"
      BY DEF BothKeys, Unmapped, Refuse
    <2>2. Clears(LegacyRefusals(r)) /\ ~Clears(BothKeys(r))
      BY <1>2, <1>7, KeyRefusals
    <2> QED BY <2>1, <2>2, <1>2, KeyRefusals, RefusedLater
  <1> HIDE DEF one, two, blk
  <1>8. /\ MA(r).calls = IF one THEN generate_alg1_mac(r.key, data_slice(r)) ELSE <<>>
        /\ MC(r).calls = IF one THEN verify_alg1_mac(r, data_slice(r)) ELSE <<>>
        /\ MK(r).calls = IF one THEN generate_alg1_mac(r.key, r.msg) ELSE <<>>
        /\ MM(r).calls = IF one THEN verify_alg1_mac(r, r.msg) ELSE <<>>
    BY <1>6 DEF MA, MC, MK, MM, k, parse_len_binary
  <1>9. /\ ME(r).calls = IF two THEN verify_then_generate_alg1(r, data_slice(r)) ELSE <<>>
        /\ MO(r).calls = IF two THEN verify_then_generate_alg1(r, r.msg) ELSE <<>>
        /\ one /\ ~two => ME(r).refusal = "10" /\ MO(r).refusal = "10"
    BY <1>6, <1>7 DEF ME, MO, parse_len_binary
  <1>10. /\ MU(r).calls = IF blk THEN generate_alg1_mac(r.key, r.msg) ELSE <<>>
         /\ MW(r).calls = IF blk THEN verify_alg1_mac(r, r.msg) ELSE <<>>
         /\ MQ(r).calls = IF blk THEN generate_alg1_mac(r.key, r.msg) ELSE <<>>
         /\ MS(r).calls = IF blk THEN generate_alg3_mac(r.key, r.msg) ELSE <<>>
    BY <1>6 DEF MU, MW, MQ, MS, k, parse_len_binary
  <1> QED BY <1>8, <1>9, <1>10 DEF one, two, blk

(* The calls of MY and GW.                                                 *)
MyGuard(r) ==
  /\ r.wire /\ r.mode = "0"
  /\ r.size \in DOMAIN mac_size_from_byte /\ r.size2 \in DOMAIN mac_size_from_byte
  /\ r.alg \in DOMAIN algorithm_from_m6_algo_byte
  /\ r.alg2 \in DOMAIN algorithm_from_m6_algo_byte
  /\ ~(r.mac.len < mac_size_from_byte[r.size])
  /\ r.key \in Mapped /\ r.key2 \in Mapped

GwGuard(r) ==
  /\ r.wire /\ r.mode \in {"0", "1"} /\ r.size \in DOMAIN mac_size_from_byte
  /\ r.alg \in DOMAIN dukpt_algorithm
  /\ ~(r.mode = "1" /\ r.mac.len < mac_size_from_byte[r.size])
  /\ r.key \in Mapped

(* MY checks the MAC it is given before it makes another.                  *)
LEMMA MyPlan ==
  ASSUME NEW r
  PROVE  MY(r).calls =
           IF MyGuard(r)
           THEN <<CheckWidth(r.key, algorithm_from_m6_algo_byte[r.alg], r.msg,
                             MacField(r, mac_size_from_byte[r.size]),
                             mac_size_from_byte[r.size]),
                  Generate(r.key2, algorithm_from_m6_algo_byte[r.alg2], r.msg,
                           mac_size_from_byte[r.size2])>>
           ELSE <<>>
PROOF
  <1>1. "15" \in Errors
    BY Codes
  <1> DEFINE a == <<Malformed(~r.wire), Malformed(r.mode # "0"),
                    Malformed(r.size \notin DOMAIN mac_size_from_byte)>>
             b == <<Malformed(r.size2 \notin DOMAIN mac_size_from_byte),
                    Malformed(r.alg \notin DOMAIN algorithm_from_m6_algo_byte),
                    Malformed(r.alg2 \notin DOMAIN algorithm_from_m6_algo_byte)>>
             d == <<Malformed(r.size \in DOMAIN mac_size_from_byte
                                /\ r.mac.len < mac_size_from_byte[r.size])>>
  <1>2. parse_my(r) = a \o b \o d
    BY DEF parse_my
  <1>3. /\ Refusals(a)
        /\ Clears(a) <=> r.wire /\ r.mode = "0" /\ r.size \in DOMAIN mac_size_from_byte
    BY Malformed3, Zenon
  <1>4. /\ Refusals(b)
        /\ Clears(b) <=> /\ r.size2 \in DOMAIN mac_size_from_byte
                         /\ r.alg \in DOMAIN algorithm_from_m6_algo_byte
                         /\ r.alg2 \in DOMAIN algorithm_from_m6_algo_byte
    BY Malformed3, Zenon
  <1>5. /\ Refusals(d)
        /\ Clears(d) <=> ~(r.size \in DOMAIN mac_size_from_byte
                             /\ r.mac.len < mac_size_from_byte[r.size])
    BY <1>1, Refuse1, Zenon DEF Malformed
  <1> HIDE DEF a, b, d
  <1>6. Refusals(a \o b) /\ (Clears(a \o b) <=> Clears(a) /\ Clears(b))
    BY <1>3, <1>4, RefusalsJoin
  <1>7. /\ Refusals(parse_my(r))
        /\ Clears(parse_my(r)) <=> Clears(a) /\ Clears(b) /\ Clears(d)
    BY <1>2, <1>5, <1>6, RefusalsJoin
  <1> DEFINE rs == parse_my(r) \o BothKeys(r)
  <1>8. Refusals(rs) /\ (Clears(rs) <=> MyGuard(r))
    BY <1>3, <1>4, <1>5, <1>7, KeyRefusals, RefusalsJoin DEF MyGuard
  <1> HIDE DEF rs
  <1> QED BY <1>8, PlanOf DEF MY, rs

(* GW checks or makes a MAC, by its mode.                                  *)
LEMMA GwPlan ==
  ASSUME NEW r
  PROVE  GW(r).calls =
           IF ~GwGuard(r) THEN <<>>
           ELSE IF r.mode = "1"
                THEN <<CheckWidth(r.key, dukpt_algorithm[r.alg], <<r.ksn>> \o r.msg,
                                  MacField(r, mac_size_from_byte[r.size]),
                                  mac_size_from_byte[r.size])>>
                ELSE <<Generate(r.key, dukpt_algorithm[r.alg], <<r.ksn>> \o r.msg,
                                mac_size_from_byte[r.size])>>
PROOF
  <1>1. "15" \in Errors
    BY Codes
  <1> DEFINE a == <<Malformed(~r.wire), Malformed(r.mode \notin {"0", "1"})>>
             b == <<Malformed(r.size \notin DOMAIN mac_size_from_byte),
                    Malformed(r.alg \notin DOMAIN dukpt_algorithm)>>
             d == <<Malformed(r.mode = "1" /\ r.size \in DOMAIN mac_size_from_byte
                                /\ r.mac.len < mac_size_from_byte[r.size])>>
  <1>2. parse_gw(r) = a \o b \o d
    BY DEF parse_gw
  <1>3. Refusals(a) /\ (Clears(a) <=> r.wire /\ r.mode \in {"0", "1"})
    BY Malformed2, Zenon
  <1>4. /\ Refusals(b)
        /\ Clears(b) <=> /\ r.size \in DOMAIN mac_size_from_byte
                         /\ r.alg \in DOMAIN dukpt_algorithm
    BY Malformed2, Zenon
  <1>5. /\ Refusals(d)
        /\ Clears(d) <=> ~(r.mode = "1" /\ r.size \in DOMAIN mac_size_from_byte
                             /\ r.mac.len < mac_size_from_byte[r.size])
    BY <1>1, Refuse1, Zenon DEF Malformed
  <1> HIDE DEF a, b, d
  <1>6. Refusals(a \o b) /\ (Clears(a \o b) <=> Clears(a) /\ Clears(b))
    BY <1>3, <1>4, RefusalsJoin
  <1>7. /\ Refusals(parse_gw(r))
        /\ Clears(parse_gw(r)) <=> Clears(a) /\ Clears(b) /\ Clears(d)
    BY <1>2, <1>5, <1>6, RefusalsJoin
  <1> DEFINE rs == parse_gw(r) \o <<Unmapped(r.key)>>
  <1>8. Refusals(rs) /\ (Clears(rs) <=> GwGuard(r))
    BY <1>3, <1>4, <1>5, <1>7, KeyRefusals, RefusalsJoin DEF GwGuard
  <1> HIDE DEF rs
  <1> QED BY <1>8, PlanOf DEF GW, rs

(* The calls of the issuer scripts; KY has none.                           *)
JuGuard(r) ==
  /\ r.mode = "0" /\ r.scheme = "1" /\ r.wire /\ r.padding \in {"0", "1"}
  /\ r.key \in Mapped

KuGuard(r) ==
  /\ r.mode = "0" /\ r.wire /\ r.scheme \notin {"3", "4"}
  /\ r.scheme \in DOMAIN ku_session_mode
  /\ ~(r.scheme = "6" /\ r.padding \notin {"0", "1"}) /\ r.key \in Mapped

(* JU and KU make one MAC, of the card's session and the padded script.    *)
LEMMA ScriptPlans ==
  ASSUME NEW r
  PROVE  /\ JU(r).calls =
              IF JuGuard(r)
              THEN handle_generate(r, "Emv2000", Atc(r),
                                   message_for_apc(r.msg, r.padding = "1"))
              ELSE <<>>
         /\ KU(r).calls =
              IF KuGuard(r)
              THEN handle_generate(r, ku_session_mode[r.scheme], ku_value(r), ku_message(r))
              ELSE <<>>
         /\ KY(r).calls = <<>>
PROOF
  <1>1. "15" \in Errors /\ "68" \in Errors
    BY Codes
  <1>2. /\ Refusals(require_mode_0(r))
        /\ Clears(require_mode_0(r)) <=> r.mode = "0"
    <2> DEFINE f == r.mode \in {"1", "2", "3", "4"}
               g == r.mode # "0"
    <2>1. require_mode_0(r) = <<Refuse(f, "68"), Refuse(g, "15")>>
      BY DEF require_mode_0, Malformed, Unsupported
    <2>2. f => g
      OBVIOUS
    <2>3. g <=> r.mode # "0"
      OBVIOUS
    <2> HIDE DEF f, g
    <2>4. LET s == <<Refuse(f, "68"), Refuse(g, "15")>> IN
          Refusals(s) /\ (Clears(s) <=> ~f /\ ~g)
      BY <1>1, Refuse2
    <2> QED BY <2>1, <2>2, <2>3, <2>4
  <1> DEFINE unsupported == r.scheme \in {"3", "4"}
             unflagged == r.scheme = "6" /\ r.padding \notin {"0", "1"}
             j == <<Malformed(r.scheme # "1"), Malformed(~r.wire),
                    Malformed(r.padding \notin {"0", "1"})>>
             u == <<Malformed(~r.wire), Unsupported(unsupported)>>
             v == <<Malformed(r.scheme \notin DOMAIN ku_session_mode),
                    Malformed(unflagged)>>
             k == <<Unmapped(r.key)>>
  <1> HIDE DEF unsupported, unflagged
  <1>3. Refusals(j) /\ (Clears(j) <=> r.scheme = "1" /\ r.wire /\ r.padding \in {"0", "1"})
    BY Malformed3, Zenon
  <1>4. Refusals(u) /\ (Clears(u) <=> r.wire /\ ~unsupported)
    <2> DEFINE f == ~r.wire
               l == <<Refuse(f, "15"), Refuse(unsupported, "68")>>
    <2>1. f <=> ~r.wire
      OBVIOUS
    <2>2. u = l
      BY DEF Malformed, Unsupported
    <2> HIDE DEF f, u
    <2>3. Refusals(l) /\ (Clears(l) <=> ~f /\ ~unsupported)
      BY <1>1, Refuse2, Zenon
    <2> HIDE DEF l
    <2> QED BY <2>1, <2>2, <2>3
  <1>5. /\ Refusals(v)
        /\ Clears(v) <=> /\ r.scheme \in DOMAIN ku_session_mode
                         /\ ~unflagged
    BY Malformed2, Zenon
  <1>6. parse_ju(r) = require_mode_0(r) \o j
    BY DEF parse_ju
  <1>7. parse_ku(r) = require_mode_0(r) \o (u \o v)
    <2>1. <<Malformed(~r.wire), Unsupported(unsupported),
            Malformed(r.scheme \notin DOMAIN ku_session_mode),
            Malformed(unflagged)>> = u \o v
      OBVIOUS
    <2> HIDE DEF u, v
    <2> QED BY <2>1, Zenon DEF parse_ku, unsupported, unflagged
  <1>8. Refusals(k) /\ (Clears(k) <=> r.key \in Mapped)
    BY KeyRefusals
  <1> HIDE DEF j, u, v, k
  <1>9. Refusals(u \o v) /\ (Clears(u \o v) <=> Clears(u) /\ Clears(v))
    BY <1>4, <1>5, RefusalsJoin
  <1>10. /\ Refusals(parse_ju(r)) /\ (Clears(parse_ju(r)) <=> r.mode = "0" /\ Clears(j))
         /\ Refusals(parse_ku(r)) /\ (Clears(parse_ku(r)) <=> r.mode = "0" /\ Clears(u \o v))
    BY <1>2, <1>3, <1>6, <1>7, <1>9, RefusalsJoin
  <1>11. /\ Refusals(parse_ju(r) \o k) /\ (Clears(parse_ju(r) \o k) <=> JuGuard(r))
         /\ Refusals(parse_ku(r) \o k) /\ (Clears(parse_ku(r) \o k) <=> KuGuard(r))
    BY <1>3, <1>4, <1>5, <1>8, <1>9, <1>10, RefusalsJoin
       DEF JuGuard, KuGuard, unsupported, unflagged
  <1>12. JU(r).calls =
           IF JuGuard(r)
           THEN handle_generate(r, "Emv2000", Atc(r),
                                message_for_apc(r.msg, r.padding = "1"))
           ELSE <<>>
    BY <1>11, PlanOf DEF JU, k, read_len_prefixed_message
  <1>13. KU(r).calls =
           IF KuGuard(r)
           THEN handle_generate(r, ku_session_mode[r.scheme], ku_value(r), ku_message(r))
           ELSE <<>>
    BY <1>11, PlanOf DEF KU, k
  <1>14. KY(r).calls = <<>>
    <2>1. Refusals(<<Unsupported(TRUE)>>)
      BY <1>1, Refuse1 DEF Unsupported
    <2> QED BY <2>1, PlanOf DEF KY
  <1> QED BY <1>12, <1>13, <1>14

-------------------------------------------------------------------------------
(* What the calls of the MAC commands find out.                            *)
IsMac(d, key, alg, of) ==
  d.kind = "mac" /\ d.key = key /\ d.alg = Derivation(alg) /\ d.of = of

(* A field of n digits holds n digits of what is at least as wide.         *)
LEMMA TruncateIs ==
  ASSUME NEW d \in Data, NEW n \in Nat
  PROVE  /\ Truncate(d, n) \in Data
         /\ Truncate(d, n).kind = d.kind /\ Truncate(d, n).key = d.key
         /\ Truncate(d, n).alg = d.alg /\ Truncate(d, n).of = d.of
         /\ Truncate(d, n).len = IF n < d.len THEN n ELSE d.len
PROOF BY DEF Data, Truncate

(* The MAC that the service makes.                                         *)
LEMMA ServiceMac ==
  ASSUME NEW k \in Keys, NEW alg \in STRING, NEW of \in Seq(STRING), NEW n \in Nat
  PROVE  /\ Datum("mac", k, Derivation(alg), of, FullDigits(alg)) \in Data
         /\ Datum("mac", k, Derivation(alg), of, FullDigits(alg)).len = FullDigits(alg)
         /\ FullDigits(alg) \in Nat /\ 8 <= FullDigits(alg)
         /\ Truncate(Datum("mac", k, Derivation(alg), of, FullDigits(alg)), n)
              = Datum("mac", k, Derivation(alg), of,
                      IF n < FullDigits(alg) THEN n ELSE FullDigits(alg))
PROOF
  <1>1. FullDigits(alg) \in Nat /\ 8 <= FullDigits(alg)
    BY DEF FullDigits
  <1> DEFINE d == Datum("mac", k, Derivation(alg), of, FullDigits(alg))
  <1>2. d \in Data /\ d.len = FullDigits(alg) /\ IsMac(d, k, alg, of)
    <2>1. ASSUME NEW w \in Nat PROVE Datum("mac", k, Derivation(alg), of, w) \in Data
      <3>1. "mac" \in STRING /\ Derivation(alg) \in STRING
        BY LiteralsAssumption DEF Derivation
      <3> QED BY <3>1 DEF Data, Datum
    <2>2. d.len = FullDigits(alg) /\ IsMac(d, k, alg, of)
      BY DEF Datum, IsMac
    <2> QED BY <2>1, <2>2, <1>1
  <1> HIDE DEF d
  <1>3. Truncate(d, n)
          = Datum("mac", k, Derivation(alg), of,
                  IF n < FullDigits(alg) THEN n ELSE FullDigits(alg))
    <2> DEFINE t == Truncate(d, n)
    <2>1. /\ t \in Data /\ t.kind = "mac" /\ t.key = k /\ t.alg = Derivation(alg) /\ t.of = of
          /\ t.len = IF n < FullDigits(alg) THEN n ELSE FullDigits(alg)
      BY <1>2, TruncateIs DEF IsMac
    <2> HIDE DEF t
    <2>2. t = Datum("mac", k, Derivation(alg), of,
                    IF n < FullDigits(alg) THEN n ELSE FullDigits(alg))
      BY <2>1, DataFieldsDecide
    <2> QED BY <2>2 DEF t
  <1> QED BY <1>1, <1>2, <1>3 DEF d

(* generate_mac answers with the MAC, cut to the width of its field.       *)
LEMMA GenerateAnswers ==
  ASSUME NEW b, Keyed(b), NEW key \in Mapped, NEW alg \in STRING,
         NEW of \in Seq(STRING), NEW n \in Nat, NEW prev, NEW o,
         Passes(Generate(key, alg, of, n), b, prev, o)
  PROVE  /\ o = Datum("mac", b[key], Derivation(alg), of,
                      IF n < FullDigits(alg) THEN n ELSE FullDigits(alg))
         /\ o \in Data /\ o.kind = "mac" /\ o.of = of /\ o.key = b[key] /\ b[key] \in Keys
PROOF
  <1> DEFINE call == Generate(key, alg, of, n)
             d == Datum("mac", b[key], Derivation(alg), of, FullDigits(alg))
  <1>1. b[key] \in Keys
    BY DEF Keyed
  <1>2. /\ call.op = "generate_mac" /\ call.alg = alg /\ call.of = of /\ call.n = n
        /\ call.refs = <<key>>
    BY DEF Generate, Call
  <1>3. KeysUnder(b, call)[1] = b[key]
    BY <1>2, Tuples DEF KeysUnder
  <1> HIDE DEF call
  <1>4. Results(call, KeysUnder(b, call), prev) = {Ok(d)}
    BY <1>2, <1>3 DEF Results
  <1>5. o = Left(call, d)
    BY <1>4 DEF Passes, Ok, call
  <1>6. o = Truncate(d, n)
    BY <1>2, <1>5 DEF Left, Kept
  <1>7. o = Datum("mac", b[key], Derivation(alg), of,
                  IF n < FullDigits(alg) THEN n ELSE FullDigits(alg))
    BY <1>1, <1>6, ServiceMac
  <1>8. o \in Data
    BY <1>1, <1>6, ServiceMac, TruncateIs
  <1> QED BY <1>1, <1>7, <1>8 DEF Datum

(* A call that checks the first n digits of a MAC of at least as many.     *)
Checking(call, key, alg, of, mac, n) ==
  \/ /\ call = Verify(key, alg, of, Truncate(mac, n))
     /\ VerifiableWidth(alg, n)
  \/ /\ call = Compare(key, alg, of, Truncate(mac, n), n)
     /\ n <= FullDigits(alg)

(* It passes genuine MACs and no others.                                   *)
LEMMA CheckAnswers ==
  ASSUME NEW b, Keyed(b), NEW key \in Mapped, NEW alg \in STRING,
         NEW of \in Seq(STRING), NEW n \in Nat, NEW mac \in Data, n <= mac.len,
         NEW call, Checking(call, key, alg, of, mac, n), NEW prev
  PROVE  /\ \A o : Passes(call, b, prev, o) => o = Nothing /\ IsMac(mac, b[key], alg, of)
         /\ Mismatches(call, b, prev) \/ Rejects(call, b, prev) =>
              ~IsMac(mac, b[key], alg, of)
PROOF
  <1> DEFINE cut == Truncate(mac, n)
             full == Datum("mac", b[key], Derivation(alg), of, FullDigits(alg))
  <1>1. b[key] \in Keys
    BY DEF Keyed
  <1>2. /\ cut \in Data /\ cut.len = n
        /\ IsMac(cut, b[key], alg, of) <=> IsMac(mac, b[key], alg, of)
    BY TruncateIs DEF IsMac, Data
  <1> HIDE DEF cut
  <1>3. cut = Datum("mac", b[key], Derivation(alg), of, n) <=> IsMac(mac, b[key], alg, of)
    BY <1>2, DataFieldsDecide DEF IsMac
  <1>4. CASE call = Verify(key, alg, of, cut) /\ VerifiableWidth(alg, n)
    <2>1. /\ call.op = "verify_mac" /\ call.alg = alg /\ call.of = of
          /\ call.datum = cut /\ call.refs = <<key>>
      BY <1>4 DEF Verify, Call
    <2>2. KeysUnder(b, call)[1] = b[key]
      BY <2>1, Tuples DEF KeysUnder
    <2>3. Results(call, KeysUnder(b, call), prev) = Verdict(IsMac(mac, b[key], alg, of))
      BY <2>1, <2>2, <1>2, <1>3, <1>4 DEF Results, VerifyMac, Verdict
    <2>4. \A o : Left(call, o) = o
      BY <2>1 DEF Left, Kept
    <2> QED BY <2>1, <2>3, <2>4
            DEF Passes, Mismatches, Rejects, Verdict, Ok, Mismatch, Rejected, Agrees
  <1>5. CASE call = Compare(key, alg, of, cut, n) /\ n <= FullDigits(alg)
    <2>1. /\ call.op = "compare_mac" /\ call.alg = alg /\ call.of = of
          /\ call.datum = cut /\ call.refs = <<key>> /\ call.n = n
      BY <1>5 DEF Compare, Call
    <2>2. KeysUnder(b, call)[1] = b[key]
      BY <2>1, Tuples DEF KeysUnder
    <2>3. Results(call, KeysUnder(b, call), prev) = {Ok(full)}
      BY <2>1, <2>2 DEF Results
    <2>4. Truncate(full, n) = Datum("mac", b[key], Derivation(alg), of, n)
      BY <1>1, <1>5, ServiceMac
    <2>5. Agrees(call, full) <=> IsMac(mac, b[key], alg, of)
      BY <2>1, <2>4, <1>3 DEF Agrees
    <2>6. Left(call, full) = Nothing
      BY <2>1 DEF Left
    <2> HIDE DEF full
    <2> QED BY <2>3, <2>5, <2>6 DEF Passes, Mismatches, Rejects, Ok, Rejected
  <1> QED BY <1>4, <1>5 DEF Checking, cut

-------------------------------------------------------------------------------
(* Each command has its own handler.                                       *)
LEMMA MacDispatch ==
  ASSUME NEW r
  PROVE  /\ r.cmd = "C2" => MacProgram(r) = C2(r)
         /\ r.cmd = "C4" => MacProgram(r) = C4(r)
         /\ r.cmd = "M6" => MacProgram(r) = M6(r)
         /\ r.cmd = "M8" => MacProgram(r) = M8(r)
         /\ r.cmd = "MA" => MacProgram(r) = MA(r)
         /\ r.cmd = "MC" => MacProgram(r) = MC(r)
         /\ r.cmd = "ME" => MacProgram(r) = ME(r)
         /\ r.cmd = "MK" => MacProgram(r) = MK(r)
         /\ r.cmd = "MM" => MacProgram(r) = MM(r)
         /\ r.cmd = "MO" => MacProgram(r) = MO(r)
         /\ r.cmd = "MU" => MacProgram(r) = MU(r)
         /\ r.cmd = "MW" => MacProgram(r) = MW(r)
         /\ r.cmd = "MQ" => MacProgram(r) = MQ(r)
         /\ r.cmd = "MS" => MacProgram(r) = MS(r)
         /\ r.cmd = "MY" => MacProgram(r) = MY(r)
         /\ r.cmd = "GW" => MacProgram(r) = GW(r)
         /\ r.cmd = "JU" => MacProgram(r) = JU(r)
         /\ r.cmd = "KU" => MacProgram(r) = KU(r)
         /\ r.cmd = "KY" => MacProgram(r) = KY(r)
PROOF BY DEF MacProgram

(* The algorithms and widths of the tables.                                *)
LEMMA MacTables ==
  /\ \A b \in DOMAIN algorithm_from_mode_c2 :
       LET alg == algorithm_from_mode_c2[b] IN
       alg \in STRING /\ FullDigits(alg) = 8 /\ VerifiableWidth(alg, 8)
  /\ \A b \in DOMAIN algorithm_from_m6_algo_byte :
       LET alg == algorithm_from_m6_algo_byte[b] IN
       /\ alg \in STRING
       /\ IF alg = "CMAC" THEN FullDigits(alg) = 32
          ELSE FullDigits(alg) = 8 /\ VerifiableWidth(alg, 8) /\ VerifiableWidth(alg, 16)
  /\ \A b \in DOMAIN dukpt_algorithm :
       LET alg == dukpt_algorithm[b] IN alg \in STRING /\ VerifiableWidth(alg, 8)
  /\ \A b \in DOMAIN m6_mac_size : m6_mac_size[b] \in {8, 16}
  /\ \A b \in DOMAIN mac_size_from_byte : mac_size_from_byte[b] \in {4, 8}
  /\ \A b \in DOMAIN ku_session_mode : ku_session_mode[b] \in STRING
  /\ "ALG1" \in STRING /\ FullDigits("ALG1") = 8 /\ VerifiableWidth("ALG1", 8)
  /\ "ALG3" \in STRING /\ "Emv2000" \in STRING /\ "UnionPay" \in STRING
PROOF
  <1>1. {"ALG1", "ALG3", "AS2805", "CMAC", "DUKPT_ALG1", "DUKPT_ALG3", "DUKPT_CMAC",
         "VISA", "MASTERCARD", "AMEX", "EMV_COMMON", "Emv2000", "UnionPay"} \subseteq STRING
    BY LiteralsAssumption
  <1>2. ASSUME NEW b \in DOMAIN algorithm_from_mode_c2
        PROVE  LET alg == algorithm_from_mode_c2[b] IN
               alg \in STRING /\ FullDigits(alg) = 8 /\ VerifiableWidth(alg, 8)
    <2>1. algorithm_from_mode_c2[b] \in {"ALG1", "ALG3", "AS2805"}
      BY DEF algorithm_from_mode_c2
    <2> QED BY <2>1, <1>1 DEF FullDigits, VerifiableWidth
  <1>3. ASSUME NEW b \in DOMAIN algorithm_from_m6_algo_byte
        PROVE  LET alg == algorithm_from_m6_algo_byte[b] IN
               /\ alg \in STRING
               /\ IF alg = "CMAC" THEN FullDigits(alg) = 32
                  ELSE /\ FullDigits(alg) = 8
                       /\ VerifiableWidth(alg, 8) /\ VerifiableWidth(alg, 16)
    <2>1. algorithm_from_m6_algo_byte[b] \in {"ALG1", "ALG3", "CMAC"}
      BY DEF algorithm_from_m6_algo_byte
    <2> QED BY <2>1, <1>1 DEF FullDigits, VerifiableWidth
  <1>4. ASSUME NEW b \in DOMAIN dukpt_algorithm
        PROVE  dukpt_algorithm[b] \in STRING /\ VerifiableWidth(dukpt_algorithm[b], 8)
    <2>1. dukpt_algorithm[b] \in {"DUKPT_ALG1", "DUKPT_ALG3", "DUKPT_CMAC"}
      BY DEF dukpt_algorithm
    <2> QED BY <2>1, <1>1 DEF VerifiableWidth
  <1>5. ASSUME NEW b \in DOMAIN ku_session_mode PROVE ku_session_mode[b] \in STRING
    <2>1. ku_session_mode[b] \in {"VISA", "MASTERCARD", "AMEX", "EMV_COMMON", "Emv2000", "UnionPay"}
      BY DEF ku_session_mode
    <2> QED BY <2>1, <1>1
  <1>6. /\ \A b \in DOMAIN m6_mac_size : m6_mac_size[b] \in {8, 16}
        /\ \A b \in DOMAIN mac_size_from_byte : mac_size_from_byte[b] \in {4, 8}
    BY DEF m6_mac_size, mac_size_from_byte
  <1>7. /\ "ALG1" \in STRING /\ FullDigits("ALG1") = 8 /\ VerifiableWidth("ALG1", 8)
        /\ "ALG3" \in STRING /\ "Emv2000" \in STRING /\ "UnionPay" \in STRING
    BY <1>1 DEF FullDigits, VerifiableWidth
  <1> QED BY <1>2, <1>3, <1>4, <1>5, <1>6, <1>7

(* What stands before a mark is a message as well.                         *)
LEMMA UpToIsText ==
  ASSUME NEW mark, NEW s \in Seq(STRING)
  PROVE  UpTo(mark, s) \in Seq(STRING)
PROOF
  <1> DEFINE marks == {i \in DOMAIN s : s[i] = mark}
  <1>1. CASE marks = {}
    BY <1>1 DEF UpTo
  <1>2. CASE marks # {}
    <2>1. marks \in SUBSET Nat /\ marks \subseteq 1 .. Len(s)
      OBVIOUS
    <2> HIDE DEF marks
    <2>2. PICK i \in marks : i = CHOOSE x \in marks : \A y \in marks : x <= y
      BY <1>2, <2>1, LeastOf
    <2>3. UpTo(mark, s) = SubSeq(s, 1, i - 1)
      BY <1>2, <2>2 DEF UpTo, marks
    <2>4. i \in 1 .. Len(s)
      BY <2>1, <2>2
    <2> QED BY <2>3, <2>4
  <1> QED BY <1>1, <1>2

-------------------------------------------------------------------------------
(* The commands that verify, and their generating twins.                   *)
VerifyingMac(r) ==
  r.cmd \in DOMAIN GeneratingTwin /\ (r.cmd = "GW" => r.mode = "1")

(* What a generating command returns.                                      *)
LEMMA MadeBy ==
  ASSUME NEW r, NEW key, NEW alg \in STRING, NEW of \in Seq(STRING), NEW n \in Nat,
         MacProgram(r).calls = <<Generate(key, alg, of, n)>>, NEW k \in Keys
  PROVE  Made(r, k) =
           Datum("mac", k, Derivation(alg), of,
                 IF n < FullDigits(alg) THEN n ELSE FullDigits(alg))
PROOF
  <1> DEFINE call == Generate(key, alg, of, n)
  <1>1. MacProgram(r).calls[1] = call
    BY Tuples
  <1>2. call.op = "generate_mac" /\ call.alg = alg /\ call.of = of /\ call.n = n
    BY DEF Generate, Call
  <1> HIDE DEF call
  <1>3. Made(r, k) = Truncate(Datum("mac", k, Derivation(alg), of, FullDigits(alg)), n)
    BY <1>1, <1>2 DEF Made, Kept
  <1> QED BY <1>3, ServiceMac

(* The twin has the fields of its command.                                 *)
LEMMA TwinFields ==
  ASSUME NEW r \in MacFields, VerifyingMac(r)
  PROVE  /\ Twin(r).cmd = GeneratingTwin[r.cmd]
         /\ Twin(r).mode = IF r.cmd = "GW" THEN "0" ELSE r.mode
         /\ Twin(r).wire = r.wire /\ Twin(r).key = r.key /\ Twin(r).size = r.size
         /\ Twin(r).alg = r.alg /\ Twin(r).ksn = r.ksn /\ Twin(r).msg = r.msg
         /\ r.cmd = "C4" => Twin(r).cmd = "C2"
         /\ r.cmd = "M8" => Twin(r).cmd = "M6"
         /\ r.cmd \in {"MC", "ME"} => Twin(r).cmd = "MA"
         /\ r.cmd \in {"MM", "MO"} => Twin(r).cmd = "MK"
         /\ r.cmd = "MW" => Twin(r).cmd = "MU"
         /\ r.cmd = "GW" => Twin(r).cmd = "GW"
PROOF
  <1>1. /\ Twin(r).cmd = GeneratingTwin[r.cmd]
        /\ Twin(r).mode = IF r.cmd = "GW" THEN "0" ELSE r.mode
        /\ Twin(r).wire = r.wire /\ Twin(r).key = r.key /\ Twin(r).size = r.size
        /\ Twin(r).alg = r.alg /\ Twin(r).ksn = r.ksn /\ Twin(r).msg = r.msg
    BY DEF Twin, MacFields
  <1>2. /\ GeneratingTwin["C4"] = "C2" /\ GeneratingTwin["M8"] = "M6"
        /\ GeneratingTwin["MC"] = "MA" /\ GeneratingTwin["ME"] = "MA"
        /\ GeneratingTwin["MM"] = "MK" /\ GeneratingTwin["MO"] = "MK"
        /\ GeneratingTwin["MW"] = "MU" /\ GeneratingTwin["GW"] = "GW"
    BY DEF GeneratingTwin
  <1> QED BY <1>1, <1>2

(* The MAC of a verifying command and the MAC of its twin are over the     *)
(* same data with the same algorithm, and the field is as wide as what the *)
(* twin returns or wider.                                                  *)
Verifies(r, alg, of, n, w) ==
  /\ n <= r.mac.len /\ w <= n /\ r.key \in Mapped
  /\ r.cmd \in {"ME", "MO"} => r.key2 \in Mapped
  /\ \A k \in Keys : Made(Twin(r), k) = Datum("mac", k, Derivation(alg), of, w)
  /\ \E call :
       /\ Checking(call, r.key, alg, of, r.mac, n)
       /\ MacProgram(r).calls = IF r.cmd \in {"ME", "MO"}
                                THEN <<call, Generate(r.key2, "ALG1", of, 8)>>
                                ELSE <<call>>

(* C4 checks what C2 makes.                                                *)
LEMMA C4Verifies ==
  ASSUME NEW r, MacFrame(r), r.cmd = "C4", MacProgram(r).calls # <<>>
  PROVE  \E alg \in STRING, of \in Seq(STRING), n \in Nat, w \in Nat :
           Verifies(r, alg, of, n, w)
PROOF
  <1> DEFINE alg == algorithm_from_mode_c2[r.alg]
  <1>1. r \in MacFields /\ VerifyingMac(r) /\ r.msg \in Seq(STRING) /\ r.mac \in Data
    BY DEF MacFrame, MacFields, VerifyingMac, GeneratingTwin
  <1>2. /\ PlainGuard(r) /\ ~(r.mac.len < 8)
        /\ MacProgram(r).calls = <<Verify(r.key, alg, r.msg, Truncate(r.mac, 8))>>
    BY MacDispatch, PlainPlans DEF MacField
  <1>3. PlainGuard(Twin(r))
    BY <1>1, <1>2, TwinFields DEF PlainGuard
  <1>4. MacProgram(Twin(r)).calls = <<Generate(r.key, alg, r.msg, 8)>>
    BY <1>1, <1>3, TwinFields, MacDispatch, PlainPlans
  <1>5. alg \in STRING /\ FullDigits(alg) = 8 /\ VerifiableWidth(alg, 8)
    BY <1>2, MacTables DEF PlainGuard
  <1> HIDE DEF alg
  <1>6. \A k \in Keys : Made(Twin(r), k) = Datum("mac", k, Derivation(alg), r.msg, 8)
    BY <1>1, <1>4, <1>5, MadeBy
  <1>7. 8 <= r.mac.len /\ r.key \in Mapped
    BY <1>1, <1>2 DEF PlainGuard, Data
  <1>8. Verifies(r, alg, r.msg, 8, 8)
    BY <1>2, <1>5, <1>6, <1>7 DEF Verifies, Checking
  <1> QED BY <1>1, <1>5, <1>8

(* M8 checks what M6 makes; a CMAC it makes again and compares.            *)
LEMMA M8Verifies ==
  ASSUME NEW r, MacFrame(r), r.cmd = "M8", MacProgram(r).calls # <<>>
  PROVE  \E alg \in STRING, of \in Seq(STRING), n \in Nat, w \in Nat :
           Verifies(r, alg, of, n, w)
PROOF
  <1> DEFINE alg == algorithm_from_m6_algo_byte[r.alg]
             n == m6_mac_size[r.size]
             w == IF n < FullDigits(alg) THEN n ELSE FullDigits(alg)
  <1>1. r \in MacFields /\ VerifyingMac(r) /\ r.msg \in Seq(STRING) /\ r.mac \in Data
    BY DEF MacFrame, MacFields, VerifyingMac, GeneratingTwin
  <1>2. /\ SizedGuard(r) /\ ~(r.mac.len < n)
        /\ MacProgram(r).calls = <<M8Check(r, alg, n)>>
    BY MacDispatch, PlainPlans
  <1>3. SizedGuard(Twin(r))
    BY <1>1, <1>2, TwinFields DEF SizedGuard
  <1>4. MacProgram(Twin(r)).calls = <<Generate(r.key, alg, r.msg, n)>>
    BY <1>1, <1>3, TwinFields, MacDispatch, PlainPlans
  <1>5. /\ alg \in STRING /\ n \in {8, 16}
        /\ IF alg = "CMAC" THEN FullDigits(alg) = 32
           ELSE FullDigits(alg) = 8 /\ VerifiableWidth(alg, 8) /\ VerifiableWidth(alg, 16)
    BY <1>2, MacTables DEF SizedGuard
  <1> HIDE DEF alg, n
  <1>6. \A k \in Keys : Made(Twin(r), k) = Datum("mac", k, Derivation(alg), r.msg, w)
    BY <1>1, <1>4, <1>5, MadeBy
  <1>7. n <= r.mac.len /\ r.key \in Mapped /\ n \in Nat /\ w \in Nat /\ w <= n
    BY <1>1, <1>2, <1>5 DEF SizedGuard, Data
  <1>8. Checking(M8Check(r, alg, n), r.key, alg, r.msg, r.mac, n)
    BY <1>5 DEF Checking, M8Check, MacField
  <1> HIDE DEF w
  <1>9. Verifies(r, alg, r.msg, n, w)
    BY <1>2, <1>6, <1>7, <1>8 DEF Verifies
  <1> QED BY <1>1, <1>5, <1>7, <1>9

(* MC, MM, MW, ME and MO check what MA, MK and MU make.                    *)
LEMMA LegacyVerifies ==
  ASSUME NEW r, MacFrame(r), r.cmd \in {"MC", "MM", "MW", "ME", "MO"},
         MacProgram(r).calls # <<>>
  PROVE  \E alg \in STRING, of \in Seq(STRING), n \in Nat, w \in Nat :
           Verifies(r, alg, of, n, w)
PROOF
  <1> DEFINE of == IF r.cmd \in {"MC", "ME"} THEN data_slice(r) ELSE r.msg
             call == Verify(r.key, "ALG1", of, Truncate(r.mac, 8))
  <1>1. r \in MacFields /\ VerifyingMac(r) /\ r.msg \in Seq(STRING) /\ r.mac \in Data
    BY DEF MacFrame, MacFields, VerifyingMac, GeneratingTwin
  <1>2. of \in Seq(STRING)
    BY <1>1, UpToIsText DEF data_slice
  <1>3. /\ r.wire /\ (r.cmd = "MW" => r.mode = "0") /\ r.key \in Mapped
        /\ r.cmd \in {"ME", "MO"} => r.key2 \in Mapped
        /\ MacProgram(r).calls = IF r.cmd \in {"ME", "MO"}
                                 THEN <<call, Generate(r.key2, "ALG1", of, 8)>>
                                 ELSE <<call>>
    <2>1. CASE r.cmd = "MC"
      <3>1. MacProgram(r).calls = IF r.wire /\ r.key \in Mapped
                                  THEN verify_alg1_mac(r, data_slice(r)) ELSE <<>>
        BY <2>1, MacDispatch, LegacyPlans, Zenon
      <3>2. r.wire /\ r.key \in Mapped /\ of = data_slice(r)
        BY <3>1, <2>1
      <3>3. MacProgram(r).calls = verify_alg1_mac(r, of)
        BY <3>1, <3>2, Zenon
      <3> HIDE DEF of
      <3> QED BY <3>2, <3>3, <2>1 DEF verify_alg1_mac, MacField
    <2>2. CASE r.cmd = "MM"
      <3>1. MacProgram(r).calls = IF r.wire /\ r.key \in Mapped
                                  THEN verify_alg1_mac(r, r.msg) ELSE <<>>
        BY <2>2, MacDispatch, LegacyPlans, Zenon
      <3>2. r.wire /\ r.key \in Mapped /\ of = r.msg
        BY <3>1, <2>2
      <3>3. MacProgram(r).calls = verify_alg1_mac(r, of)
        BY <3>1, <3>2, Zenon
      <3> HIDE DEF of
      <3> QED BY <3>2, <3>3, <2>2 DEF verify_alg1_mac, MacField
    <2>3. CASE r.cmd = "MW"
      <3>1. MacProgram(r).calls = IF r.wire /\ r.mode = "0" /\ r.key \in Mapped
                                  THEN verify_alg1_mac(r, r.msg) ELSE <<>>
        BY <2>3, MacDispatch, LegacyPlans, Zenon
      <3>2. r.wire /\ r.mode = "0" /\ r.key \in Mapped /\ of = r.msg
        BY <3>1, <2>3
      <3>3. MacProgram(r).calls = verify_alg1_mac(r, of)
        BY <3>1, <3>2, Zenon
      <3> HIDE DEF of
      <3> QED BY <3>2, <3>3, <2>3 DEF verify_alg1_mac, MacField
    <2>4. CASE r.cmd = "ME"
      <3>1. MacProgram(r).calls = IF r.wire /\ r.key \in Mapped /\ r.key2 \in Mapped
                                  THEN verify_then_generate_alg1(r, data_slice(r)) ELSE <<>>
        BY <2>4, MacDispatch, LegacyPlans, Zenon
      <3>2. r.wire /\ r.key \in Mapped /\ r.key2 \in Mapped /\ of = data_slice(r)
        BY <3>1, <2>4
      <3>3. MacProgram(r).calls = verify_then_generate_alg1(r, of)
        BY <3>1, <3>2, Zenon
      <3> HIDE DEF of
      <3> QED BY <3>2, <3>3, <2>4 DEF verify_then_generate_alg1, MacField
    <2>5. CASE r.cmd = "MO"
      <3>1. MacProgram(r).calls = IF r.wire /\ r.key \in Mapped /\ r.key2 \in Mapped
                                  THEN verify_then_generate_alg1(r, r.msg) ELSE <<>>
        BY <2>5, MacDispatch, LegacyPlans, Zenon
      <3>2. r.wire /\ r.key \in Mapped /\ r.key2 \in Mapped /\ of = r.msg
        BY <3>1, <2>5
      <3>3. MacProgram(r).calls = verify_then_generate_alg1(r, of)
        BY <3>1, <3>2, Zenon
      <3> HIDE DEF of
      <3> QED BY <3>2, <3>3, <2>5 DEF verify_then_generate_alg1, MacField
    <2> QED BY <2>1, <2>2, <2>3, <2>4, <2>5
  <1>4. 8 <= r.mac.len
    BY <1>1, <1>3 DEF MacFrame, LegacyCommands, ReadsMac, Data
  <1>5. MacProgram(Twin(r)).calls = <<Generate(r.key, "ALG1", of, 8)>>
    <2>1. /\ Twin(r).wire /\ Twin(r).key \in Mapped /\ (r.cmd = "MW" => Twin(r).mode = "0")
          /\ Twin(r).key = r.key /\ Twin(r).msg = r.msg /\ data_slice(Twin(r)) = data_slice(r)
      BY <1>1, <1>3, TwinFields DEF data_slice
    <2>2. CASE r.cmd \in {"MC", "ME"}
      <3>1. Twin(r).cmd = "MA"
        BY <2>2, <1>1, TwinFields
      <3> QED BY <2>1, <2>2, <3>1, MacDispatch, LegacyPlans DEF generate_alg1_mac
    <2>3. CASE r.cmd \in {"MM", "MO"}
      <3>1. Twin(r).cmd = "MK"
        BY <2>3, <1>1, TwinFields
      <3> QED BY <2>1, <2>3, <3>1, MacDispatch, LegacyPlans DEF generate_alg1_mac
    <2>4. CASE r.cmd = "MW"
      <3>1. Twin(r).cmd = "MU"
        BY <2>4, <1>1, TwinFields
      <3> QED BY <2>1, <2>4, <3>1, MacDispatch, LegacyPlans DEF generate_alg1_mac
    <2> QED BY <2>2, <2>3, <2>4
  <1> HIDE DEF of
  <1>6. \A k \in Keys : Made(Twin(r), k) = Datum("mac", k, Derivation("ALG1"), of, 8)
    BY <1>2, <1>5, MacTables, MadeBy
  <1>7. Checking(call, r.key, "ALG1", of, r.mac, 8)
    BY MacTables DEF Checking
  <1> HIDE DEF call
  <1>8. Verifies(r, "ALG1", of, 8, 8)
    BY <1>3, <1>4, <1>6, <1>7 DEF Verifies
  <1> QED BY <1>2, <1>8, MacTables

(* What MY and GW do with a MAC of n digits checks all of them.            *)
LEMMA CheckWidthChecks ==
  ASSUME NEW key, NEW alg \in STRING, NEW of, NEW mac \in Data, NEW n \in {4, 8},
         VerifiableWidth(alg, 8)
  PROVE  Checking(CheckWidth(key, alg, of, Truncate(mac, n), n), key, alg, of, mac, n)
PROOF
  <1>1. CASE n = 4
    <2>1. n <= FullDigits(alg) /\ n < 8
      BY <1>1 DEF FullDigits
    <2> QED BY <2>1 DEF CheckWidth, Checking
  <1>2. CASE n = 8
    <2>1. ~(n < 8)
      BY <1>2
    <2> QED BY <2>1, <1>2 DEF CheckWidth, Checking
  <1> QED BY <1>1, <1>2

(* GW in mode 1 checks what it makes in mode 0.                            *)
LEMMA GwVerifies ==
  ASSUME NEW r, MacFrame(r), r.cmd = "GW", r.mode = "1", MacProgram(r).calls # <<>>
  PROVE  \E alg \in STRING, of \in Seq(STRING), n \in Nat, w \in Nat :
           Verifies(r, alg, of, n, w)
PROOF
  <1> DEFINE alg == dukpt_algorithm[r.alg]
             n == mac_size_from_byte[r.size]
             of == <<r.ksn>> \o r.msg
             call == CheckWidth(r.key, alg, of, Truncate(r.mac, n), n)
  <1>1. /\ r \in MacFields /\ VerifyingMac(r) /\ r.mac \in Data
        /\ r.ksn \in STRING /\ r.msg \in Seq(STRING)
    BY DEF MacFrame, MacFields, VerifyingMac, GeneratingTwin
  <1>2. of \in Seq(STRING)
    BY <1>1
  <1>3. GwGuard(r) /\ MacProgram(r).calls = <<call>>
    <2>1. MacProgram(r).calls = GW(r).calls
      BY MacDispatch, Zenon
    <2>2. GwGuard(r)
      BY <2>1, GwPlan
    <2> QED BY <2>1, <2>2, GwPlan, Zenon DEF MacField
  <1>4. GwGuard(Twin(r)) /\ Twin(r).mode = "0"
    BY <1>1, <1>3, TwinFields DEF GwGuard
  <1>5. MacProgram(Twin(r)).calls = <<Generate(r.key, alg, of, n)>>
    <2> DEFINE tw == Twin(r)
    <2>1. /\ tw.cmd = "GW" /\ tw.mode = "0" /\ tw.key = r.key /\ tw.alg = r.alg
          /\ tw.ksn = r.ksn /\ tw.msg = r.msg /\ tw.size = r.size
      BY <1>1, <1>4, TwinFields
    <2> HIDE DEF tw
    <2>2. MacProgram(tw).calls = GW(tw).calls /\ tw.mode # "1"
      BY <2>1, MacDispatch
    <2>3. GW(tw).calls = <<Generate(tw.key, dukpt_algorithm[tw.alg], <<tw.ksn>> \o tw.msg,
                                    mac_size_from_byte[tw.size])>>
      BY <2>2, <1>4, GwPlan, Zenon DEF tw
    <2> QED BY <2>1, <2>2, <2>3 DEF tw
  <1>6. alg \in STRING /\ VerifiableWidth(alg, 8) /\ n \in {4, 8}
    BY <1>3, MacTables DEF GwGuard
  <1>7. n <= FullDigits(alg) /\ (IF n < FullDigits(alg) THEN n ELSE FullDigits(alg)) = n
    BY <1>6 DEF FullDigits
  <1>8. n <= r.mac.len /\ r.key \in Mapped /\ n \in Nat /\ n <= n
    BY <1>1, <1>3, <1>6 DEF GwGuard, Data
  <1>9. Checking(call, r.key, alg, of, r.mac, n)
    BY <1>1, <1>6, CheckWidthChecks
  <1> HIDE DEF alg, n, of, call
  <1>10. \A k \in Keys : Made(Twin(r), k) = Datum("mac", k, Derivation(alg), of, n)
    <2>1. ASSUME NEW k \in Keys PROVE Made(Twin(r), k) = Datum("mac", k, Derivation(alg), of, n)
      <3>1. Made(Twin(r), k) = Datum("mac", k, Derivation(alg), of,
                                 IF n < FullDigits(alg) THEN n ELSE FullDigits(alg))
        BY <1>2, <1>5, <1>6, <1>8, MadeBy
      <3> QED BY <3>1, <1>7
    <2> QED BY <2>1
  <1>11. Verifies(r, alg, of, n, n)
    BY <1>3, <1>8, <1>9, <1>10 DEF Verifies
  <1> QED BY <1>2, <1>6, <1>8, <1>11

(* Every verifying command checks what its twin makes.                     *)
LEMMA EveryVerifies ==
  ASSUME NEW r, MacFrame(r), VerifyingMac(r), MacProgram(r).calls # <<>>
  PROVE  \E alg \in STRING, of \in Seq(STRING), n \in Nat, w \in Nat :
           Verifies(r, alg, of, n, w)
PROOF
  <1>1. r.cmd \in {"C4", "M8", "MC", "MM", "MW", "ME", "MO", "GW"}
    BY DEF VerifyingMac, GeneratingTwin
  <1>2. r.cmd = "GW" => r.mode = "1"
    BY DEF VerifyingMac
  <1> QED BY <1>1, <1>2, C4Verifies, M8Verifies, LegacyVerifies, GwVerifies

-------------------------------------------------------------------------------
(* The issuer scripts.                                                     *)
CardsData(r) ==
  <<r.card>> \o Unfilled(r.skd)
    \o (IF r.padding = "1" THEN r.msg ELSE Append(r.msg, "80"))

InScheme6(r) == [r EXCEPT !.cmd = "KU", !.scheme = "6"]

(* A script is a sequence of strings, padded or not.                       *)
LEMMA CardsDataIsText ==
  ASSUME NEW r \in MacFields, Len(r.skd) = 2
  PROVE  /\ CardsData(r) \in Seq(STRING)
         /\ Append(r.msg, "80") \in Seq(STRING) /\ <<r.skd[2]>> \in Seq(STRING)
PROOF
  <1>1. /\ r.card \in STRING /\ r.skd \in Seq(STRING) /\ r.msg \in Seq(STRING)
        /\ "80" \in STRING
    BY LiteralsAssumption DEF MacFields
  <1>2. r.skd[2] \in STRING
    BY <1>1
  <1>3. Append(r.msg, "80") \in Seq(STRING) /\ <<r.skd[2]>> \in Seq(STRING)
        /\ <<r.card>> \in Seq(STRING)
    BY <1>1, <1>2
  <1> DEFINE v == Unfilled(r.skd)
             p == IF r.padding = "1" THEN r.msg ELSE Append(r.msg, "80")
  <1>4. v \in Seq(STRING) /\ p \in Seq(STRING)
    BY <1>1, <1>3 DEF Unfilled
  <1> HIDE DEF v, p
  <1>5. <<r.card>> \o v \o p \in Seq(STRING)
    BY <1>3, <1>4
  <1> QED BY <1>3, <1>5 DEF CardsData, v, p

(* JU and KU make the MAC that the card makes, and JU the one that KU      *)
(* makes in scheme 6.                                                      *)
LEMMA JuCalls ==
  ASSUME NEW r, MacFrame(r), r.cmd = "JU", MacProgram(r).calls # <<>>
  PROVE  /\ r.key \in Mapped /\ CardsData(r) \in Seq(STRING)
         /\ MacProgram(r).calls = <<Generate(r.key, "Emv2000", CardsData(r), 8)>>
         /\ MacProgram(InScheme6(r)).calls = <<Generate(r.key, "UnionPay", CardsData(r), 8)>>
PROOF
  <1>1. MacProgram(r).calls = JU(r).calls
    BY MacDispatch, Zenon
  <1>2. JuGuard(r)
    BY <1>1, ScriptPlans
  <1>3. r \in MacFields /\ ScriptFrame(r)
    BY <1>2 DEF JuGuard, MacFrame
  <1>4. Len(r.skd) = 2 /\ r.skd[1] = "zero"
    BY <1>3, Zenon DEF ScriptFrame
  <1> DEFINE p == IF r.padding = "1" THEN r.msg ELSE Append(r.msg, "80")
  <1>5. /\ CardsData(r) = <<r.card>> \o <<r.skd[2]>> \o p
        /\ message_for_apc(r.msg, r.padding = "1") = p
    BY <1>4 DEF CardsData, Unfilled, message_for_apc, emv_pad
  <1> HIDE DEF p
  <1>6. MacProgram(r).calls = <<Generate(r.key, "Emv2000", CardsData(r), 8)>>
    <2>1. JU(r).calls = handle_generate(r, "Emv2000", Atc(r), p)
      BY <1>2, <1>5, ScriptPlans
    <2> QED BY <2>1, <1>1, <1>5 DEF handle_generate, Atc
  <1>7. MacProgram(InScheme6(r)).calls = <<Generate(r.key, "UnionPay", CardsData(r), 8)>>
    <2> DEFINE q == InScheme6(r)
    <2>1. /\ q.cmd = "KU" /\ q.scheme = "6" /\ q.mode = r.mode /\ q.wire = r.wire
          /\ q.key = r.key /\ q.card = r.card /\ q.skd = r.skd /\ q.msg = r.msg
          /\ q.padding = r.padding
      BY <1>3 DEF InScheme6, MacFields
    <2> HIDE DEF q
    <2>2. ku_session_mode["6"] = "UnionPay" /\ "6" \in DOMAIN ku_session_mode
      BY DEF ku_session_mode
    <2>3. KuGuard(q)
      BY <2>1, <2>2, <1>2 DEF KuGuard, JuGuard
    <2>4. MacProgram(q).calls = KU(q).calls
      BY <2>1, MacDispatch, Zenon
    <2>5. ku_value(q) = <<r.skd[2]>>
      BY <2>1 DEF ku_value, Atc
    <2>6. ku_message(q) = p
      BY <2>1, <1>5 DEF ku_message, read_len_prefixed_message, message_for_apc, emv_pad
    <2>7. KU(q).calls = handle_generate(q, "UnionPay", <<r.skd[2]>>, p)
      BY <2>1, <2>2, <2>3, <2>5, <2>6, ScriptPlans
    <2> QED BY <2>1, <2>4, <2>7, <1>5 DEF handle_generate, q
  <1>8. CardsData(r) \in Seq(STRING) /\ r.key \in Mapped
    BY <1>2, <1>3, <1>4, CardsDataIsText DEF JuGuard
  <1> QED BY <1>6, <1>7, <1>8

(* The five schemes of KU.                                                 *)
LEMMA KuCalls ==
  ASSUME NEW r, MacFrame(r), r.cmd = "KU", MacProgram(r).calls # <<>>
  PROVE  /\ r.key \in Mapped /\ CardsData(r) \in Seq(STRING)
         /\ \E alg \in STRING :
              MacProgram(r).calls = <<Generate(r.key, alg, CardsData(r), 8)>>
PROOF
  <1>1. MacProgram(r).calls = KU(r).calls
    BY MacDispatch, Zenon
  <1>2. KuGuard(r)
    BY <1>1, ScriptPlans
  <1>3. r \in MacFields /\ ScriptFrame(r)
    BY <1>2 DEF KuGuard, MacFrame
  <1>4. /\ Len(r.skd) = 2 /\ r.scheme \in {"0", "1", "2", "5", "6"}
        /\ r.scheme \in {"0", "2", "6"} => r.skd[1] = "zero"
        /\ r.scheme \in {"1", "5"} => r.skd[1] # "zero"
        /\ r.padding = "1" => r.scheme = "6"
        /\ r.scheme \in {"0", "1", "2"} => UpTo(";", r.msg) = r.msg
    BY <1>2, <1>3 DEF ScriptFrame, KuGuard, ku_session_mode
  <1>5. ku_value(r) = Unfilled(r.skd)
    BY <1>4 DEF ku_value, Unfilled, Atc, Ac
  <1>6. ku_message(r) = IF r.padding = "1" THEN r.msg ELSE Append(r.msg, "80")
    BY <1>4 DEF ku_message, read_len_prefixed_message, read_delimited_message,
                message_for_apc, emv_pad
  <1> DEFINE alg == ku_session_mode[r.scheme]
  <1>7. KU(r).calls = handle_generate(r, alg, ku_value(r), ku_message(r))
    BY <1>2, ScriptPlans
  <1>8. alg \in STRING
    BY <1>2, MacTables DEF KuGuard
  <1> HIDE DEF alg
  <1>9. KU(r).calls = <<Generate(r.key, alg, CardsData(r), 8)>>
    BY <1>5, <1>6, <1>7 DEF handle_generate, CardsData
  <1>10. CardsData(r) \in Seq(STRING) /\ r.key \in Mapped
    BY <1>2, <1>3, <1>4, CardsDataIsText DEF KuGuard
  <1> QED BY <1>1, <1>8, <1>9, <1>10

-------------------------------------------------------------------------------
(* A call that checks a MAC, of whatever width.                            *)
Checks(call, key, alg, of, mac, n) ==
  \/ call = Verify(key, alg, of, Truncate(mac, n))
  \/ call = Compare(key, alg, of, Truncate(mac, n), n)

(* It passes genuine MACs only.                                            *)
LEMMA PassIsGenuine ==
  ASSUME NEW b, Keyed(b), NEW key \in Mapped, NEW alg \in STRING,
         NEW of \in Seq(STRING), NEW n \in Nat, NEW mac \in Data,
         NEW call, Checks(call, key, alg, of, mac, n), NEW prev, NEW o,
         Passes(call, b, prev, o)
  PROVE  o = Nothing /\ IsMac(mac, b[key], alg, of)
PROOF
  <1> DEFINE cut == Truncate(mac, n)
             full == Datum("mac", b[key], Derivation(alg), of, FullDigits(alg))
  <1>1. b[key] \in Keys
    BY DEF Keyed
  <1>2. IsMac(cut, b[key], alg, of) <=> IsMac(mac, b[key], alg, of)
    BY TruncateIs DEF IsMac
  <1> HIDE DEF cut
  <1>3. CASE call = Verify(key, alg, of, cut)
    <2>1. /\ call.op = "verify_mac" /\ call.alg = alg /\ call.of = of
          /\ call.datum = cut /\ call.refs = <<key>>
      BY <1>3 DEF Verify, Call
    <2>2. KeysUnder(b, call)[1] = b[key]
      BY <2>1, Tuples DEF KeysUnder
    <2>3. PICK res \in Results(call, KeysUnder(b, call), prev) :
            res.v = "ok" /\ o = Left(call, res.out)
      BY DEF Passes
    <2>4. res \in VerifyMac(call, KeysUnder(b, call))
      BY <2>1, <2>3 DEF Results
    <2>5. /\ cut = Datum("mac", b[key], Derivation(alg), of, cut.len)
          /\ res.out = Nothing
      BY <2>1, <2>2, <2>3, <2>4 DEF VerifyMac, Verdict, Ok, Mismatch, Rejected
    <2>6. IsMac(cut, b[key], alg, of)
      BY <2>5 DEF IsMac, Datum
    <2> QED BY <2>1, <2>3, <2>5, <2>6, <1>2 DEF Left, Kept
  <1>4. CASE call = Compare(key, alg, of, cut, n)
    <2>1. /\ call.op = "compare_mac" /\ call.alg = alg /\ call.of = of
          /\ call.datum = cut /\ call.refs = <<key>> /\ call.n = n
      BY <1>4 DEF Compare, Call
    <2>2. KeysUnder(b, call)[1] = b[key]
      BY <2>1, Tuples DEF KeysUnder
    <2>3. Results(call, KeysUnder(b, call), prev) = {Ok(full)}
      BY <2>1, <2>2 DEF Results
    <2>4. Truncate(full, n) = cut /\ o = Nothing
      BY <2>1, <2>3 DEF Passes, Agrees, Left, Ok
    <2>5. full \in Data /\ IsMac(full, b[key], alg, of)
      BY <1>1, ServiceMac DEF IsMac, Datum
    <2> HIDE DEF full
    <2>6. IsMac(cut, b[key], alg, of)
      BY <2>4, <2>5, TruncateIs DEF IsMac
    <2> QED BY <2>4, <2>6, <1>2
  <1> QED BY <1>3, <1>4 DEF Checks, cut

(* What the MAC commands call: they make one MAC, check one, or check one  *)
(* and make another of the same data.                                      *)
Makes(r, calls) ==
  /\ r.key \in Mapped
  /\ \E alg \in STRING, of \in Seq(STRING), n \in Nat :
       calls = <<Generate(r.key, alg, of, n)>>

ChecksOne(r, calls) ==
  /\ r.key \in Mapped
  /\ \E alg \in STRING, of \in Seq(STRING), n \in Nat :
       \E call : Checks(call, r.key, alg, of, r.mac, n) /\ calls = <<call>>

ReMacs(r, calls) ==
  /\ r.key \in Mapped /\ r.key2 \in Mapped
  /\ \E alg \in STRING, alg2 \in STRING, of \in Seq(STRING), n \in Nat, w \in Nat :
       \E call : /\ Checks(call, r.key, alg, of, r.mac, n)
                 /\ calls = <<call, Generate(r.key2, alg2, of, w)>>

(* The verifying commands.                                                 *)
LEMMA VerifyingShape ==
  ASSUME NEW r, MacFrame(r), VerifyingMac(r), MacProgram(r).calls # <<>>
  PROVE  IF r.cmd \in {"ME", "MO"} THEN ReMacs(r, MacProgram(r).calls)
         ELSE ChecksOne(r, MacProgram(r).calls)
PROOF
  <1>1. PICK alg \in STRING, of \in Seq(STRING), n \in Nat, w \in Nat :
          Verifies(r, alg, of, n, w)
    BY EveryVerifies
  <1>2. PICK call :
          /\ Checking(call, r.key, alg, of, r.mac, n)
          /\ MacProgram(r).calls = IF r.cmd \in {"ME", "MO"}
                                   THEN <<call, Generate(r.key2, "ALG1", of, 8)>>
                                   ELSE <<call>>
    BY <1>1 DEF Verifies
  <1>3. Checks(call, r.key, alg, of, r.mac, n)
    BY <1>2 DEF Checking, Checks
  <1>4. r.key \in Mapped /\ (r.cmd \in {"ME", "MO"} => r.key2 \in Mapped)
    BY <1>1 DEF Verifies
  <1>5. "ALG1" \in STRING /\ 8 \in Nat
    BY MacTables
  <1>6. CASE r.cmd \in {"ME", "MO"}
    <2>1. MacProgram(r).calls = <<call, Generate(r.key2, "ALG1", of, 8)>>
      BY <1>2, <1>6
    <2>2. ReMacs(r, MacProgram(r).calls)
      BY <2>1, <1>3, <1>4, <1>5, <1>6 DEF ReMacs
    <2> QED BY <2>2, <1>6
  <1>7. CASE r.cmd \notin {"ME", "MO"}
    <2>1. MacProgram(r).calls = <<call>>
      BY <1>2, <1>7
    <2>2. ChecksOne(r, MacProgram(r).calls)
      BY <2>1, <1>3, <1>4 DEF ChecksOne
    <2> QED BY <2>2, <1>7
  <1> QED BY <1>6, <1>7

(* MY.                                                                     *)
LEMMA MyShape ==
  ASSUME NEW r, MacFrame(r), r.cmd = "MY", MacProgram(r).calls # <<>>
  PROVE  ReMacs(r, MacProgram(r).calls)
PROOF
  <1> DEFINE alg == algorithm_from_m6_algo_byte[r.alg]
             alg2 == algorithm_from_m6_algo_byte[r.alg2]
             n == mac_size_from_byte[r.size]
             w == mac_size_from_byte[r.size2]
             call == CheckWidth(r.key, alg, r.msg, Truncate(r.mac, n), n)
  <1>1. MacProgram(r).calls = MY(r).calls
    BY MacDispatch, Zenon
  <1>2. MyGuard(r)
    BY <1>1, MyPlan
  <1>3. MacProgram(r).calls = <<call, Generate(r.key2, alg2, r.msg, w)>>
    BY <1>1, <1>2, MyPlan, Zenon DEF MacField
  <1>4. alg \in STRING /\ alg2 \in STRING /\ n \in {4, 8} /\ w \in {4, 8}
    BY <1>2, MacTables DEF MyGuard
  <1>5. r.key \in Mapped /\ r.key2 \in Mapped /\ r.msg \in Seq(STRING)
    BY <1>2 DEF MyGuard, MacFrame, MacFields
  <1> HIDE DEF alg, alg2, n, w
  <1>6. Checks(call, r.key, alg, r.msg, r.mac, n)
    BY DEF CheckWidth, Checks
  <1> HIDE DEF call
  <1>7. n \in Nat /\ w \in Nat
    BY <1>4
  <1> QED BY <1>3, <1>4, <1>5, <1>6, <1>7 DEF ReMacs

(* The generating commands of mac.rs and legacy_mac.rs, and GW in mode 0.  *)
LEMMA GeneratingShape ==
  ASSUME NEW r, MacFrame(r), MacProgram(r).calls # <<>>,
         \/ r.cmd \in {"C2", "M6", "MA", "MK", "MU", "MQ", "MS"}
         \/ r.cmd = "GW" /\ r.mode # "1"
  PROVE  Makes(r, MacProgram(r).calls)
PROOF
  <1>1. /\ r.msg \in Seq(STRING) /\ r.ksn \in STRING /\ data_slice(r) \in Seq(STRING)
        /\ "ALG1" \in STRING /\ "ALG3" \in STRING /\ 8 \in Nat
    BY MacTables, UpToIsText DEF MacFrame, MacFields, data_slice
  <1>2. CASE r.cmd = "C2"
    <2> DEFINE alg == algorithm_from_mode_c2[r.alg]
    <2>1. MacProgram(r).calls = C2(r).calls
      BY <1>2, MacDispatch, Zenon
    <2>2. PlainGuard(r)
      BY <2>1, PlainPlans
    <2>3. MacProgram(r).calls = <<Generate(r.key, alg, r.msg, 8)>>
      BY <2>1, <2>2, PlainPlans, Zenon
    <2>4. alg \in STRING /\ r.key \in Mapped
      BY <2>2, MacTables DEF PlainGuard
    <2> HIDE DEF alg
    <2> QED BY <2>3, <2>4, <1>1 DEF Makes
  <1>3. CASE r.cmd = "M6"
    <2> DEFINE alg == algorithm_from_m6_algo_byte[r.alg]
               n == m6_mac_size[r.size]
    <2>1. MacProgram(r).calls = M6(r).calls
      BY <1>3, MacDispatch, Zenon
    <2>2. SizedGuard(r)
      BY <2>1, PlainPlans
    <2>3. MacProgram(r).calls = <<Generate(r.key, alg, r.msg, n)>>
      BY <2>1, <2>2, PlainPlans, Zenon
    <2>4. alg \in STRING /\ r.key \in Mapped /\ n \in {8, 16}
      BY <2>2, MacTables DEF SizedGuard
    <2> HIDE DEF alg, n
    <2>5. n \in Nat
      BY <2>4
    <2> QED BY <2>3, <2>4, <2>5, <1>1 DEF Makes
  <1>4. CASE r.cmd = "MA"
    <2>1. MacProgram(r).calls = IF r.wire /\ r.key \in Mapped
                                THEN generate_alg1_mac(r.key, data_slice(r)) ELSE <<>>
      BY <1>4, MacDispatch, LegacyPlans, Zenon
    <2>2. r.key \in Mapped /\ MacProgram(r).calls = generate_alg1_mac(r.key, data_slice(r))
      BY <2>1
    <2> QED BY <2>2, <1>1 DEF Makes, generate_alg1_mac
  <1>5. CASE r.cmd = "MK"
    <2>1. MacProgram(r).calls = IF r.wire /\ r.key \in Mapped
                                THEN generate_alg1_mac(r.key, r.msg) ELSE <<>>
      BY <1>5, MacDispatch, LegacyPlans, Zenon
    <2>2. r.key \in Mapped /\ MacProgram(r).calls = generate_alg1_mac(r.key, r.msg)
      BY <2>1
    <2> QED BY <2>2, <1>1 DEF Makes, generate_alg1_mac
  <1>6. CASE r.cmd \in {"MU", "MQ"}
    <2>1. MacProgram(r).calls = IF r.wire /\ r.mode = "0" /\ r.key \in Mapped
                                THEN generate_alg1_mac(r.key, r.msg) ELSE <<>>
      <3>1. CASE r.cmd = "MU"
        BY <3>1, MacDispatch, LegacyPlans, Zenon
      <3>2. CASE r.cmd = "MQ"
        BY <3>2, MacDispatch, LegacyPlans, Zenon
      <3> QED BY <1>6, <3>1, <3>2
    <2>2. r.key \in Mapped /\ MacProgram(r).calls = generate_alg1_mac(r.key, r.msg)
      BY <2>1
    <2> QED BY <2>2, <1>1 DEF Makes, generate_alg1_mac
  <1>7. CASE r.cmd = "MS"
    <2>1. MacProgram(r).calls = IF r.wire /\ r.mode = "0" /\ r.key \in Mapped
                                THEN generate_alg3_mac(r.key, r.msg) ELSE <<>>
      BY <1>7, MacDispatch, LegacyPlans, Zenon
    <2>2. r.key \in Mapped /\ MacProgram(r).calls = generate_alg3_mac(r.key, r.msg)
      BY <2>1
    <2> QED BY <2>2, <1>1 DEF Makes, generate_alg3_mac
  <1>8. CASE r.cmd = "GW" /\ r.mode # "1"
    <2> DEFINE alg == dukpt_algorithm[r.alg]
               n == mac_size_from_byte[r.size]
               of == <<r.ksn>> \o r.msg
    <2>1. MacProgram(r).calls = GW(r).calls
      BY <1>8, MacDispatch, Zenon
    <2>2. GwGuard(r)
      BY <2>1, GwPlan
    <2>3. MacProgram(r).calls = <<Generate(r.key, alg, of, n)>>
      BY <1>8, <2>1, <2>2, GwPlan, Zenon
    <2>4. alg \in STRING /\ r.key \in Mapped /\ n \in {4, 8} /\ of \in Seq(STRING)
      BY <2>2, <1>1, MacTables DEF GwGuard
    <2> HIDE DEF alg, n, of
    <2>5. n \in Nat
      BY <2>4
    <2> QED BY <2>3, <2>4, <2>5 DEF Makes
  <1> QED BY <1>2, <1>3, <1>4, <1>5, <1>6, <1>7, <1>8

(* Every MAC command.                                                      *)
LEMMA MacShapes ==
  ASSUME NEW r, MacFrame(r)
  PROVE  LET calls == MacProgram(r).calls IN
         calls = <<>> \/ Makes(r, calls) \/ ChecksOne(r, calls) \/ ReMacs(r, calls)
PROOF
  <1> SUFFICES ASSUME MacProgram(r).calls # <<>>
               PROVE  LET calls == MacProgram(r).calls IN
                      Makes(r, calls) \/ ChecksOne(r, calls) \/ ReMacs(r, calls)
    OBVIOUS
  <1>1. \/ r.cmd \in {"C2", "M6", "MA", "MK", "MU", "MQ", "MS"}
        \/ r.cmd = "GW" /\ r.mode # "1"
        \/ VerifyingMac(r)
        \/ r.cmd = "MY" \/ r.cmd = "JU" \/ r.cmd = "KU" \/ r.cmd = "KY"
    BY DEF MacFrame, MacFields, MacCommands, LegacyCommands, VerifyingMac, GeneratingTwin
  <1>2. CASE r.cmd = "JU"
    <2>1. "Emv2000" \in STRING /\ 8 \in Nat
      BY MacTables
    <2> QED BY <1>2, <2>1, JuCalls DEF Makes
  <1>3. CASE r.cmd = "KU"
    <2>1. 8 \in Nat
      OBVIOUS
    <2> QED BY <1>3, <2>1, KuCalls DEF Makes
  <1>4. r.cmd # "KY"
    BY MacDispatch, ScriptPlans
  <1> QED BY <1>1, <1>2, <1>3, <1>4, GeneratingShape, VerifyingShape, MyShape

-------------------------------------------------------------------------------
(* The data of messages: MACs, and clear texts and cipher texts, none of   *)
(* which is in part what a wrong key makes of another.                     *)
Whole(d) ==
  d.kind \in {"plain", "cipher"} =>
    d.of = Garbled \/ \A i \in DOMAIN d.of : d.of[i] # "garbled"

MessageData == {d \in Data : Whole(d)}

(* What the MAC commands answer is such data.                              *)
LEMMA MacCloses ==
  ASSUME NEW r, MacFrame(r)
  PROVE  Closes(MacProgram(r).calls, MessageData)
PROOF
  <1> DEFINE calls == MacProgram(r).calls
  <1>0. r.mac \in Data
    BY DEF MacFrame, MacFields
  <1>1. ASSUME NEW key \in Mapped, NEW alg \in STRING, NEW of \in Seq(STRING), NEW n \in Nat,
               NEW b, Keyed(b), NEW prev, NEW o, Passes(Generate(key, alg, of, n), b, prev, o)
        PROVE  o \in MessageData
    <2>1. o \in Data /\ o.kind = "mac"
      BY <1>1, GenerateAnswers
    <2> QED BY <2>1 DEF MessageData, Whole
  <1> HIDE DEF calls
  <1>2. CASE Makes(r, calls)
    <2>1. PICK alg \in STRING, of \in Seq(STRING), n \in Nat :
            calls = <<Generate(r.key, alg, of, n)>>
      BY <1>2 DEF Makes
    <2>2. r.key \in Mapped
      BY <1>2 DEF Makes
    <2>3. \A b, o : Keyed(b) /\ Passes(Generate(r.key, alg, of, n), b, Nothing, o)
                      => o \in MessageData \cup {Nothing}
      BY <2>2, <1>1
    <2> QED BY <2>1, <2>3 DEF Closes, calls
  <1>3. CASE ChecksOne(r, calls)
    <2>0. PICK alg \in STRING, of \in Seq(STRING), n \in Nat :
            \E call : Checks(call, r.key, alg, of, r.mac, n) /\ calls = <<call>>
      BY <1>3 DEF ChecksOne
    <2>1. PICK call : Checks(call, r.key, alg, of, r.mac, n) /\ calls = <<call>>
      BY <2>0
    <2>2. r.key \in Mapped
      BY <1>3 DEF ChecksOne
    <2>3. \A b, o : Keyed(b) /\ Passes(call, b, Nothing, o) => o \in MessageData \cup {Nothing}
      BY <2>1, <2>2, <1>0, PassIsGenuine
    <2> QED BY <2>1, <2>3 DEF Closes, calls
  <1>4. CASE ReMacs(r, calls)
    <2>0. PICK alg \in STRING, alg2 \in STRING, of \in Seq(STRING), n \in Nat, w \in Nat :
            \E call : /\ Checks(call, r.key, alg, of, r.mac, n)
                      /\ calls = <<call, Generate(r.key2, alg2, of, w)>>
      BY <1>4 DEF ReMacs
    <2>1. PICK call : /\ Checks(call, r.key, alg, of, r.mac, n)
                      /\ calls = <<call, Generate(r.key2, alg2, of, w)>>
      BY <2>0
    <2>2. r.key2 \in Mapped
      BY <1>4 DEF ReMacs
    <2> DEFINE next == Generate(r.key2, alg2, of, w)
    <2>3. \A e, m, o : Keyed(e) /\ Passes(next, e, m, o) => o \in MessageData \cup {Nothing}
      BY <2>2, <1>1
    <2> HIDE DEF next
    <2>4. calls = <<call, next>>
      BY <2>1 DEF next
    <2> QED BY <2>3, <2>4 DEF Closes, calls
  <1>5. CASE calls = <<>>
    BY <1>5 DEF Closes, calls
  <1> QED BY <1>2, <1>3, <1>4, <1>5, MacShapes DEF calls

-------------------------------------------------------------------------------
(* Each data command has its own handler.                                  *)
LEMMA DataDispatch ==
  ASSUME NEW r
  PROVE  /\ r.cmd = "HE" => DataProgram(r) = HE(r)
         /\ r.cmd = "HG" => DataProgram(r) = HG(r)
         /\ r.cmd = "M0" => DataProgram(r) = M0(r)
         /\ r.cmd = "M2" => DataProgram(r) = M2(r)
         /\ r.cmd = "M4" => DataProgram(r) = M4(r)
         /\ r.cmd = "K0" => DataProgram(r) = K0(r)
         /\ r.cmd = "B2" => DataProgram(r) = B2(r)
         /\ r.cmd \in GatedData => DataProgram(r) = Plan(<<Unsupported(TRUE)>>, <<>>)
PROOF
  <1>1. r.cmd \in GatedData =>
          r.cmd \notin {"HE", "HG", "M0", "M2", "M4", "K0", "B2"}
    BY DEF GatedData, RandomPin, Hmac, DieboldPin, DynamicCvv, NotAvailable
  <1> QED BY <1>1 DEF DataProgram

(* The calls of the data commands.                                         *)
LEMMA DataPlans ==
  ASSUME NEW r
  PROVE  LET plain == r.wire /\ r.key \in Mapped
             ecb == r.mode = "00" /\ r.format = "1" /\ r.wire /\ r.key \in Mapped
             both == /\ r.mode = "00" /\ r.mode2 = "00" /\ r.format = "1" /\ r.wire
                     /\ r.key \in Mapped /\ r.key2 \in Mapped
         IN
         /\ HE(r).calls = IF plain THEN <<Encrypt(r.key, parse_key_and_data(r))>> ELSE <<>>
         /\ HG(r).calls =
              IF plain THEN <<Decipher(r.key, "ECB", <<>>, parse_key_and_data(r))>> ELSE <<>>
         /\ M0(r).calls = IF ecb THEN <<Encrypt(r.key, r.data)>> ELSE <<>>
         /\ M2(r).calls = IF ecb THEN <<Decipher(r.key, "ECB", <<>>, r.data)>> ELSE <<>>
         /\ M4(r).calls = IF both THEN TranslateData(r) ELSE <<>>
         /\ K0(r).calls =
              IF plain
              THEN <<Decipher(r.key, "EMV_CBC", session_derivation_data(r), r.data)>>
              ELSE <<>>
PROOF
  <1>0. "15" \in Errors
    BY Codes
  <1>1. "15" \in Errors /\ "10" \in Errors
    BY Codes
  <1> DEFINE k == <<Unmapped(r.key)>>
             w == <<Malformed(~r.wire), Unmapped(r.key)>>
             a == <<Malformed(r.mode # "00"), Malformed(r.mode2 # "00"),
                    Malformed(r.format # "1")>>
             b == <<Malformed(~r.wire), Unmapped(r.key), Unmapped(r.key2)>>
             all == <<Malformed(r.mode # "00"), Malformed(r.mode2 # "00"),
                      Malformed(r.format # "1"), Malformed(~r.wire),
                      Unmapped(r.key), Unmapped(r.key2)>>
             plain == r.wire /\ r.key \in Mapped
             ecb == r.mode = "00" /\ r.format = "1" /\ r.wire /\ r.key \in Mapped
             both == /\ r.mode = "00" /\ r.mode2 = "00" /\ r.format = "1" /\ r.wire
                     /\ r.key \in Mapped /\ r.key2 \in Mapped
  <1>2. Refusals(k) /\ (Clears(k) <=> r.key \in Mapped)
    BY KeyRefusals
  <1>3. Refusals(w) /\ (Clears(w) <=> r.wire /\ r.key \in Mapped)
    BY <1>1, Refuse2, Zenon DEF Malformed, Unmapped
  <1>4. /\ Refusals(parse_m0_fields(r))
        /\ Clears(parse_m0_fields(r)) <=> r.mode = "00" /\ r.format = "1" /\ r.wire
    BY Malformed3, Zenon DEF parse_m0_fields
  <1>5. Refusals(a) /\ (Clears(a) <=> r.mode = "00" /\ r.mode2 = "00" /\ r.format = "1")
    BY Malformed3, Zenon
  <1>6. Refusals(b) /\ (Clears(b) <=> r.wire /\ r.key \in Mapped /\ r.key2 \in Mapped)
    <2> DEFINE x == <<Malformed(~r.wire)>>
    <2>1. b = x \o BothKeys(r)
      BY DEF BothKeys
    <2>2. Refusals(x) /\ (Clears(x) <=> r.wire)
      BY <1>0, Refuse1, Zenon DEF Malformed
    <2> HIDE DEF b, x
    <2> QED BY <2>1, <2>2, KeyRefusals, RefusalsJoin
  <1>7. Refusals(parse_k0(r)) /\ (Clears(parse_k0(r)) <=> r.wire)
    BY <1>1, Refuse1, Zenon DEF Malformed, parse_k0
  <1>8. all = a \o b
    OBVIOUS
  <1> HIDE DEF k, w, a, b, all
  <1>9. /\ Refusals(parse_m0_fields(r) \o k)
        /\ Clears(parse_m0_fields(r) \o k) <=> ecb
    BY <1>2, <1>4, RefusalsJoin
  <1>10. Refusals(all) /\ (Clears(all) <=> both)
    BY <1>5, <1>6, <1>8, RefusalsJoin
  <1>11. Refusals(parse_k0(r) \o k) /\ (Clears(parse_k0(r) \o k) <=> plain)
    BY <1>2, <1>7, RefusalsJoin
  <1> HIDE DEF ecb, both
  <1>12. HE(r).calls = IF plain THEN <<Encrypt(r.key, parse_key_and_data(r))>> ELSE <<>>
    BY <1>3, PlanOf DEF HE, w
  <1>13. HG(r).calls =
           IF plain THEN <<Decipher(r.key, "ECB", <<>>, parse_key_and_data(r))>> ELSE <<>>
    BY <1>3, PlanOf DEF HG, w
  <1>14. M0(r).calls = IF ecb THEN <<Encrypt(r.key, r.data)>> ELSE <<>>
    BY <1>9, PlanOf DEF M0, k
  <1>15. M2(r).calls = IF ecb THEN <<Decipher(r.key, "ECB", <<>>, r.data)>> ELSE <<>>
    BY <1>9, PlanOf DEF M2, k
  <1>16. M4(r).calls = IF both THEN TranslateData(r) ELSE <<>>
    BY <1>10, PlanOf DEF M4, all
  <1>17. K0(r).calls =
           IF plain
           THEN <<Decipher(r.key, "EMV_CBC", session_derivation_data(r), r.data)>>
           ELSE <<>>
    BY <1>11, PlanOf DEF K0, k
  <1> QED BY <1>12, <1>13, <1>14, <1>15, <1>16, <1>17 DEF ecb, both

-------------------------------------------------------------------------------
(* Text that no wrong key made.                                            *)
Clean(s) == s \in Seq(STRING) /\ \A i \in DOMAIN s : s[i] # "garbled"

(* Its parts are clean as well, and none is what a wrong key makes.        *)
LEMMA CleanParts ==
  ASSUME NEW s, Clean(s)
  PROVE  /\ s # Garbled /\ Len(s) \in Nat
         /\ SubSeq(s, 1, Len(s)) = s /\ SubSeq(s, 1, 0) = <<>>
         /\ s # <<>> => SubSeq(s, 1, 1) = <<s[1]>> /\ Clean(<<s[1]>>)
         /\ \A n \in Nat : Clean(SubSeq(s, n + 1, Len(s)))
PROOF
  <1>1. s \in Seq(STRING) /\ \A i \in 1 .. Len(s) : s[i] # "garbled"
    BY DEF Clean
  <1>2. s # Garbled
    <2>1. Len(Garbled) = 1 /\ Garbled[1] = "garbled"
      BY Tuples DEF Garbled
    <2> QED BY <1>1, <2>1
  <1>3. SubSeq(s, 1, Len(s)) = s /\ SubSeq(s, 1, 0) = <<>> /\ Len(s) \in Nat
    BY <1>1
  <1>4. ASSUME s # <<>> PROVE SubSeq(s, 1, 1) = <<s[1]>> /\ Clean(<<s[1]>>)
    <2>1. 1 \in 1 .. Len(s) /\ s[1] \in STRING
      BY <1>1, <1>4
    <2> DEFINE u == SubSeq(s, 1, 1)
               v == <<s[1]>>
    <2>2. u \in Seq(STRING) /\ Len(u) = 1 /\ u[1] = s[1]
      BY <1>1, <2>1
    <2>3. v \in Seq(STRING) /\ Len(v) = 1 /\ v[1] = s[1]
      BY <2>1
    <2> HIDE DEF u, v
    <2>4. u = v
      BY <2>2, <2>3
    <2>5. DOMAIN v = 1 .. 1
      BY <2>3
    <2>6. Clean(v)
      BY <1>1, <2>1, <2>3, <2>5 DEF Clean
    <2> QED BY <2>4, <2>6 DEF u, v
  <1>5. ASSUME NEW n \in Nat PROVE Clean(SubSeq(s, n + 1, Len(s)))
    <2> DEFINE u == SubSeq(s, n + 1, Len(s))
    <2>1. u \in Seq(STRING)
      BY <1>1
    <2>2. ASSUME NEW i \in 1 .. Len(u) PROVE u[i] = s[n + i] /\ n + i \in 1 .. Len(s)
      BY <1>1, <2>2
    <2> HIDE DEF u
    <2>3. \A i \in 1 .. Len(u) : u[i] # "garbled"
      BY <2>2, <1>1
    <2> QED BY <2>1, <2>3 DEF Clean, u
  <1> QED BY <1>2, <1>3, <1>4, <1>5

(* What the service makes of a clear text.                                 *)
LEMMA EncryptAnswers ==
  ASSUME NEW b, Keyed(b), NEW key \in Mapped, NEW d, Clean(d.of), d.len \in Nat,
         NEW prev, NEW o, Passes(Encrypt(key, d), b, prev, o)
  PROVE  o \in MessageData
PROOF
  <1> DEFINE call == Encrypt(key, d)
             e == Datum("cipher", b[key], "ECB", d.of, d.len)
  <1>1. b[key] \in Keys /\ "cipher" \in STRING /\ "ECB" \in STRING
    BY LiteralsAssumption DEF Keyed
  <1>2. /\ call.op = "encrypt_data" /\ call.alg = "ECB" /\ call.of = d.of /\ call.n = d.len
        /\ call.refs = <<key>>
    BY DEF Encrypt, Call
  <1>3. KeysUnder(b, call)[1] = b[key]
    BY <1>2, Tuples DEF KeysUnder
  <1> HIDE DEF call
  <1>4. Results(call, KeysUnder(b, call), prev) = {Ok(e)}
    BY <1>2, <1>3 DEF Results
  <1>5. o = Left(call, e)
    BY <1>4 DEF Passes, Ok, call
  <1>6. o = e
    BY <1>2, <1>5 DEF Left, Kept
  <1>7. e \in Data /\ e.of = d.of
    BY <1>1 DEF Data, Datum, Clean
  <1>8. Whole(e)
    BY <1>7 DEF Whole, Clean
  <1> QED BY <1>6, <1>7, <1>8 DEF MessageData

(* What it makes of a cipher text: the clear text behind the derivation    *)
(* data if all is right.                                                   *)
Right(d, key, mode, derivation) ==
  /\ d.key = key /\ d.alg = mode
  /\ SubSeq(d.of, 1, Len(derivation)) = derivation

Deciphered(d, key, mode, derivation) ==
  Datum("plain", NoKey, "",
        IF Right(d, key, mode, derivation)
        THEN SubSeq(d.of, Len(derivation) + 1, Len(d.of)) ELSE Garbled, d.len)

(* The decrypting commands get the one or the other.                       *)
LEMMA DecryptAnswers ==
  ASSUME NEW b, Keyed(b), NEW key \in Mapped, NEW mode, NEW derivation, NEW d,
         NEW prev, NEW o, Passes(Decipher(key, mode, derivation, d), b, prev, o)
  PROVE  o = Deciphered(d, b[key], mode, derivation)
PROOF
  <1> DEFINE call == Decipher(key, mode, derivation, d)
             e == Deciphered(d, b[key], mode, derivation)
  <1>1. /\ call.op = "decrypt_data" /\ call.alg = mode /\ call.of = derivation
        /\ call.datum = d /\ call.refs = <<key>>
    BY DEF Decipher, Call
  <1>2. KeysUnder(b, call)[1] = b[key]
    BY <1>1, Tuples DEF KeysUnder
  <1> HIDE DEF call
  <1>3. Results(call, KeysUnder(b, call), prev) = Decrypt(call, KeysUnder(b, call))
    BY <1>1 DEF Results
  <1>4. Decrypt(call, KeysUnder(b, call)) = {Ok(e)}
    BY <1>1, <1>2 DEF Decrypt, Deciphered, Right
  <1> HIDE DEF e
  <1>5. o = Left(call, e)
    BY <1>3, <1>4 DEF Passes, Ok, call
  <1>6. o = e
    BY <1>1, <1>5 DEF Left, Kept
  <1> QED BY <1>6 DEF e

(* Both are data of messages.                                              *)
LEMMA DecipheredIsData ==
  ASSUME NEW d, Clean(d.of), d.len \in Nat, NEW key, NEW mode,
         NEW derivation \in Seq(STRING)
  PROVE  LET e == Deciphered(d, key, mode, derivation) IN
         /\ e \in MessageData /\ e.kind = "plain" /\ e.len = d.len
         /\ e.of = Garbled \/ (Clean(e.of) /\ e.of \in Seq(STRING))
         /\ e.of = IF Right(d, key, mode, derivation)
                   THEN SubSeq(d.of, Len(derivation) + 1, Len(d.of)) ELSE Garbled
PROOF
  <1> DEFINE e == Deciphered(d, key, mode, derivation)
             right == Right(d, key, mode, derivation)
             rest == SubSeq(d.of, Len(derivation) + 1, Len(d.of))
  <1>1. "garbled" \in STRING /\ "plain" \in STRING /\ "" \in STRING
    BY LiteralsAssumption
  <1>2. Clean(rest)
    <2>1. Len(derivation) \in Nat
      OBVIOUS
    <2> QED BY <2>1, CleanParts
  <1>3. Garbled \in Seq(STRING)
    <2>1. \A x \in STRING : <<x>> \in Seq(STRING)
      OBVIOUS
    <2> QED BY <1>1, <2>1 DEF Garbled
  <1> HIDE DEF right, rest
  <1>4. e = Datum("plain", NoKey, "", IF right THEN rest ELSE Garbled, d.len)
    BY DEF Deciphered, right, rest
  <1> HIDE DEF e
  <1>5. /\ e.kind = "plain" /\ e.len = d.len /\ e.of = IF right THEN rest ELSE Garbled
        /\ e \in Data
    BY <1>1, <1>2, <1>3, <1>4 DEF Datum, Data, Clean
  <1>6. e.of = Garbled \/ Clean(e.of)
    BY <1>2, <1>5
  <1>7. e \in MessageData
    BY <1>5, <1>6 DEF MessageData, Whole, Clean
  <1>8. Clean(e.of) => e.of \in Seq(STRING)
    BY DEF Clean
  <1>9. /\ e \in MessageData /\ e.kind = "plain" /\ e.len = d.len
        /\ e.of = Garbled \/ (Clean(e.of) /\ e.of \in Seq(STRING))
        /\ e.of = IF right THEN rest ELSE Garbled
    BY <1>5, <1>6, <1>7, <1>8
  <1> QED BY <1>9, Zenon DEF e, right, rest

(* M4 encrypts the clear text of its first call.                           *)
LEMMA ReencryptAnswers ==
  ASSUME NEW b, Keyed(b), NEW key \in Mapped, NEW prev, NEW o,
         Passes(EncryptResult(key), b, prev, o)
  PROVE  o = Datum("cipher", b[key], "ECB", prev.of, prev.len)
PROOF
  <1> DEFINE call == EncryptResult(key)
             e == Datum("cipher", b[key], "ECB", prev.of, prev.len)
  <1>1. call.op = "reencrypt" /\ call.alg = "ECB" /\ call.refs = <<key>>
    BY DEF EncryptResult, Call
  <1>2. KeysUnder(b, call)[1] = b[key]
    BY <1>1, Tuples DEF KeysUnder
  <1> HIDE DEF call
  <1>3. Results(call, KeysUnder(b, call), prev) = {Ok(e)}
    BY <1>1, <1>2 DEF Results
  <1>4. o = Left(call, e)
    BY <1>3 DEF Passes, Ok, call
  <1> QED BY <1>1, <1>4 DEF Left, Kept

(* What it makes of data of messages is such data.                         *)
LEMMA ReencryptedIsData ==
  ASSUME NEW key \in Keys, NEW prev \in MessageData, prev.kind = "plain"
  PROVE  Datum("cipher", key, "ECB", prev.of, prev.len) \in MessageData
PROOF
  <1>1. "cipher" \in STRING /\ "ECB" \in STRING
    BY LiteralsAssumption
  <1>2. /\ prev.of \in Seq(STRING) /\ prev.len \in Nat
        /\ prev.of = Garbled \/ \A i \in DOMAIN prev.of : prev.of[i] # "garbled"
    BY DEF MessageData, Whole, Data
  <1> DEFINE e == Datum("cipher", key, "ECB", prev.of, prev.len)
  <1>3. e \in Data /\ e.of = prev.of
    BY <1>1, <1>2 DEF Data, Datum
  <1> HIDE DEF e
  <1>4. e \in MessageData
    BY <1>2, <1>3 DEF MessageData, Whole
  <1> QED BY <1>4 DEF e

-------------------------------------------------------------------------------
(* The data in a frame that parses is clean, and so is its first block.    *)
LEMMA FrameData ==
  ASSUME NEW hold \in SUBSET MessageData, NEW r, DataFrame(r, hold), r.wire,
         r.cmd \in {"HE", "M0", "HG", "M2", "M4", "K0"}
  PROVE  /\ r.data \in Data /\ Clean(r.data.of) /\ r.data.of # <<>> /\ r.data.len \in Nat
         /\ r.cmd \in {"HG", "M2", "M4", "K0"} => r.data.kind = "cipher"
         /\ LET d == parse_key_and_data(r) IN
            /\ Clean(d.of) /\ d.of = SubSeq(r.data.of, 1, 1) /\ d.len \in Nat
            /\ d.key = r.data.key /\ d.alg = r.data.alg
PROOF
  <1>1. /\ r.data.kind \in {"plain", "cipher"} /\ Useful(r.data)
        /\ r.cmd \in {"HG", "M2", "M4", "K0"} => r.data.kind = "cipher"
    BY DEF DataFrame
  <1>2. Nothing.kind = "nothing"
    BY DEF Nothing, Datum
  <1>3. r.data \in MessageData
    BY <1>1, <1>2 DEF DataFrame
  <1>4. r.data \in Data /\ Clean(r.data.of) /\ r.data.of # <<>> /\ r.data.len \in Nat
    BY <1>1, <1>3 DEF MessageData, Whole, Clean, Data, Useful
  <1> DEFINE d == parse_key_and_data(r)
  <1>5. /\ d.of = <<r.data.of[1]>> /\ d.len = 16 /\ d.key = r.data.key
        /\ d.alg = r.data.alg
    BY <1>4 DEF parse_key_and_data, Data
  <1> HIDE DEF d
  <1>6. Clean(d.of) /\ d.of = SubSeq(r.data.of, 1, 1)
    BY <1>4, <1>5, CleanParts
  <1>7. d.len \in Nat
    BY <1>5
  <1> QED BY <1>1, <1>4, <1>5, <1>6, <1>7 DEF d

(* What the data commands call; the datum is that of the frame.            *)
DeciphersOne(r, d, mode, derivation) ==
  /\ r.wire /\ r.key \in Mapped
  /\ DataProgram(r).calls = <<Decipher(r.key, mode, derivation, d)>>

(* The decrypting commands, when they call.                                *)
LEMMA DecryptingCalls ==
  ASSUME NEW r, DataProgram(r).calls # <<>>
  PROVE  /\ r.cmd = "HG" => DeciphersOne(r, parse_key_and_data(r), "ECB", <<>>)
         /\ r.cmd = "M2" => DeciphersOne(r, r.data, "ECB", <<>>)
         /\ r.cmd = "K0" => DeciphersOne(r, r.data, "EMV_CBC", session_derivation_data(r))
         /\ r.cmd = "M4" =>
              /\ r.wire /\ r.key \in Mapped /\ r.key2 \in Mapped
              /\ DataProgram(r).calls = <<Decipher(r.key, "ECB", <<>>, r.data),
                                          EncryptResult(r.key2)>>
PROOF
  <1>1. ASSUME r.cmd = "HG"
        PROVE  DeciphersOne(r, parse_key_and_data(r), "ECB", <<>>)
    <2>1. DataProgram(r).calls = HG(r).calls
      BY <1>1, DataDispatch, Zenon
    <2>2. r.wire /\ r.key \in Mapped
      BY <2>1, DataPlans
    <2> QED BY <2>1, <2>2, DataPlans, Zenon DEF DeciphersOne
  <1>2. ASSUME r.cmd = "M2" PROVE DeciphersOne(r, r.data, "ECB", <<>>)
    <2>1. DataProgram(r).calls = M2(r).calls
      BY <1>2, DataDispatch, Zenon
    <2>2. r.mode = "00" /\ r.format = "1" /\ r.wire /\ r.key \in Mapped
      BY <2>1, DataPlans
    <2> QED BY <2>1, <2>2, DataPlans, Zenon DEF DeciphersOne
  <1>3. ASSUME r.cmd = "K0"
        PROVE  DeciphersOne(r, r.data, "EMV_CBC", session_derivation_data(r))
    <2>1. DataProgram(r).calls = K0(r).calls
      BY <1>3, DataDispatch, Zenon
    <2>2. r.wire /\ r.key \in Mapped
      BY <2>1, DataPlans
    <2> QED BY <2>1, <2>2, DataPlans, Zenon DEF DeciphersOne
  <1>4. ASSUME r.cmd = "M4"
        PROVE  /\ r.wire /\ r.key \in Mapped /\ r.key2 \in Mapped
               /\ DataProgram(r).calls = <<Decipher(r.key, "ECB", <<>>, r.data),
                                           EncryptResult(r.key2)>>
    <2>1. DataProgram(r).calls = M4(r).calls
      BY <1>4, DataDispatch, Zenon
    <2>2. /\ r.mode = "00" /\ r.mode2 = "00" /\ r.format = "1" /\ r.wire
          /\ r.key \in Mapped /\ r.key2 \in Mapped
      BY <2>1, DataPlans
    <2> QED BY <2>1, <2>2, DataPlans, Zenon DEF TranslateData
  <1> QED BY <1>1, <1>2, <1>3, <1>4

(* What the data commands answer is data of messages.                      *)
LEMMA DataCloses ==
  ASSUME NEW hold \in SUBSET MessageData, NEW r, DataFrame(r, hold)
  PROVE  Closes(DataProgram(r).calls, MessageData)
PROOF
  <1> SUFFICES ASSUME DataProgram(r).calls # <<>>
               PROVE  Closes(DataProgram(r).calls, MessageData)
    BY DEF Closes
  <1>1. ASSUME NEW d, NEW mode, NEW derivation \in Seq(STRING), Clean(d.of), d.len \in Nat,
               DeciphersOne(r, d, mode, derivation)
        PROVE  Closes(DataProgram(r).calls, MessageData)
    <2> DEFINE call == Decipher(r.key, mode, derivation, d)
    <2>1. ASSUME NEW b, NEW o, Keyed(b), Passes(call, b, Nothing, o) PROVE o \in MessageData
      <3>1. o = Deciphered(d, b[r.key], mode, derivation)
        BY <1>1, <2>1, DecryptAnswers DEF DeciphersOne
      <3> QED BY <1>1, <3>1, DecipheredIsData
    <2>2. DataProgram(r).calls = <<call>>
      BY <1>1 DEF DeciphersOne
    <2> HIDE DEF call
    <2> QED BY <2>1, <2>2 DEF Closes
  <1>2. ASSUME NEW d, Clean(d.of), d.len \in Nat, r.key \in Mapped,
               DataProgram(r).calls = <<Encrypt(r.key, d)>>
        PROVE  Closes(DataProgram(r).calls, MessageData)
    <2> DEFINE call == Encrypt(r.key, d)
    <2>1. \A b, o : Keyed(b) /\ Passes(call, b, Nothing, o) => o \in MessageData
      BY <1>2, EncryptAnswers
    <2>2. DataProgram(r).calls = <<call>>
      BY <1>2
    <2> HIDE DEF call
    <2> QED BY <2>1, <2>2 DEF Closes
  <1>3. <<>> \in Seq(STRING)
    OBVIOUS
  <1>4. CASE r.cmd = "HE"
    <2>1. DataProgram(r).calls = HE(r).calls
      BY <1>4, DataDispatch, Zenon
    <2>2. r.wire /\ r.key \in Mapped
      BY <2>1, DataPlans
    <2>3. DataProgram(r).calls = <<Encrypt(r.key, parse_key_and_data(r))>>
      BY <2>1, <2>2, DataPlans, Zenon
    <2> QED BY <2>2, <2>3, <1>2, <1>4, FrameData
  <1>5. CASE r.cmd = "M0"
    <2>1. DataProgram(r).calls = M0(r).calls
      BY <1>5, DataDispatch, Zenon
    <2>2. r.mode = "00" /\ r.format = "1" /\ r.wire /\ r.key \in Mapped
      BY <2>1, DataPlans
    <2>3. DataProgram(r).calls = <<Encrypt(r.key, r.data)>>
      BY <2>1, <2>2, DataPlans, Zenon
    <2> QED BY <2>2, <2>3, <1>2, <1>5, FrameData
  <1>6. CASE r.cmd = "HG"
    <2>1. DeciphersOne(r, parse_key_and_data(r), "ECB", <<>>)
      BY <1>6, DecryptingCalls
    <2> QED BY <2>1, <1>1, <1>3, <1>6, FrameData DEF DeciphersOne
  <1>7. CASE r.cmd = "M2"
    <2>1. DeciphersOne(r, r.data, "ECB", <<>>)
      BY <1>7, DecryptingCalls
    <2> QED BY <2>1, <1>1, <1>3, <1>7, FrameData DEF DeciphersOne
  <1>8. CASE r.cmd = "K0"
    <2>1. DeciphersOne(r, r.data, "EMV_CBC", session_derivation_data(r))
      BY <1>8, DecryptingCalls
    <2>2. r.pan \in STRING /\ r.atc \in STRING
      BY DEF DataFrame, DataFields
    <2>3. session_derivation_data(r) \in Seq(STRING)
      BY <2>2 DEF session_derivation_data
    <2> QED BY <2>1, <2>3, <1>1, <1>8, FrameData DEF DeciphersOne
  <1>9. CASE r.cmd = "M4"
    <2> DEFINE call == Decipher(r.key, "ECB", <<>>, r.data)
               next == EncryptResult(r.key2)
    <2>1. /\ r.wire /\ r.key \in Mapped /\ r.key2 \in Mapped
          /\ DataProgram(r).calls = <<call, next>>
      BY <1>9, DecryptingCalls
    <2>2. Clean(r.data.of) /\ r.data.len \in Nat
      BY <1>9, <2>1, FrameData
    <2>3. ASSUME NEW b, NEW e, NEW m, NEW o, Keyed(b), Keyed(e),
                 Passes(call, b, Nothing, m), Passes(next, e, m, o)
          PROVE  o \in MessageData
      <3>1. m = Deciphered(r.data, b[r.key], "ECB", <<>>)
        BY <2>1, <2>3, DecryptAnswers
      <3>2. m \in MessageData /\ m.kind = "plain"
        BY <3>1, <2>2, <1>3, DecipheredIsData
      <3>3. o = Datum("cipher", e[r.key2], "ECB", m.of, m.len) /\ e[r.key2] \in Keys
        BY <2>1, <2>3, ReencryptAnswers DEF Keyed
      <3> QED BY <3>2, <3>3, ReencryptedIsData
    <2> HIDE DEF call, next
    <2> QED BY <2>1, <2>3 DEF Closes
  <1>10. CASE r.cmd = "B2"
    <2>1. DataProgram(r) = Plan(<<>>, <<>>)
      BY <1>10, DataDispatch DEF B2
    <2> QED BY <2>1, CallsOrRefusal
  <1>11. CASE r.cmd \in GatedData
    <2>1. DataProgram(r) = Plan(<<Unsupported(TRUE)>>, <<>>)
      BY <1>11, DataDispatch
    <2> QED BY <2>1, CallsOrRefusal
  <1>12. r.cmd \in GatedData \cup {"HE", "HG", "M0", "M2", "M4", "K0", "B2"}
    BY DEF DataFrame, DataFields, DataCommands
  <1> QED BY <1>4, <1>5, <1>6, <1>7, <1>8, <1>9, <1>10, <1>11, <1>12

-------------------------------------------------------------------------------
(* The traffic of messages: hosts send well-formed frames of the MAC and   *)
(* data commands, and the data in the frames of the data commands is data  *)
(* that they were given.                                                   *)
MessageTraffic ==
  /\ Outside \subseteq MessageData
  /\ \A hold \in SUBSET MessageData : \A r \in Requests(hold) :
       /\ r # NoReq
       /\ IF r.cmd \in DataCommands
          THEN DataFrame(r, hold) /\ Program(r) = DataProgram(r)
          ELSE MacFrame(r) /\ Program(r) = MacProgram(r)

(* Hosts and handlers stay within the data of messages.                    *)
LEMMA MessagesServed ==
  ASSUME MessageTraffic PROVE Serves(MessageData)
PROOF
  <1>1. ASSUME NEW hold \in SUBSET MessageData, NEW r \in Requests(hold)
        PROVE  r # NoReq /\ Closes(Program(r).calls, MessageData)
    <2>1. CASE r.cmd \in DataCommands
      <3>1. r # NoReq /\ DataFrame(r, hold) /\ Program(r) = DataProgram(r)
        BY <2>1 DEF MessageTraffic
      <3> QED BY <3>1, DataCloses
    <2>2. CASE r.cmd \notin DataCommands
      <3>1. r # NoReq /\ MacFrame(r) /\ Program(r) = MacProgram(r)
        BY <2>2 DEF MessageTraffic
      <3> QED BY <3>1, MacCloses
    <2> QED BY <2>1, <2>2
  <1> QED BY <1>1, ClosedFamily DEF MessageTraffic

(* Every answer is explained by the calls that were made for it.           *)
LEMMA MessagesExplained ==
  ASSUME MessageTraffic PROVE Spec => []HInv(MessageData)
PROOF
  <1>1. Init => HInv(MessageData)
    BY InitExplained
  <1>2. HInv(MessageData) /\ [Next]_vars => HInv(MessageData)'
    BY MessagesServed, NextExplained
  <1> QED BY <1>1, <1>2, PTL DEF Spec

(* The command of an answer, and its handler.                              *)
LEMMA AnsweredMessage ==
  ASSUME MessageTraffic, HInv(MessageData), NEW c \in Conns, code[c] # "none"
  PROVE  IF req[c].cmd \in DataCommands
         THEN /\ \E hold \in SUBSET MessageData : DataFrame(req[c], hold)
              /\ Program(req[c]) = DataProgram(req[c])
         ELSE MacFrame(req[c]) /\ Program(req[c]) = MacProgram(req[c])
PROOF
  <1>1. PICK hold \in SUBSET MessageData : req[c] \in Requests(hold)
    BY ServedCommand
  <1> QED BY <1>1 DEF MessageTraffic

(* The two kinds of commands are told apart by their codes.                *)
LEMMA MacOrData ==
  /\ MacCommands \cap DataCommands = {}
  /\ DOMAIN GeneratingTwin \subseteq MacCommands
  /\ {"ME", "MO", "MY", "JU", "KU"} \subseteq MacCommands
  /\ {"HG", "M2", "K0", "M4"} \subseteq DataCommands
PROOF BY DEF MacCommands, LegacyCommands, DataCommands, GatedData, RandomPin, Hmac,
             DieboldPin, DynamicCvv, NotAvailable, GeneratingTwin

(* A MAC command that is not refused calls the service, one that is does   *)
(* not.                                                                    *)
LEMMA MacCallsOrRefusal ==
  ASSUME NEW r
  PROVE  /\ r.cmd \in DOMAIN GeneratingTwin /\ MacProgram(r).refusal # "none" =>
              MacProgram(r).calls = <<>>
         /\ r.cmd \in {"ME", "MO", "MY", "JU", "KU"} /\ MacProgram(r).refusal = "none" =>
              MacProgram(r).calls # <<>>
PROOF
  <1>1. ASSUME NEW rs, NEW calls, calls # <<>>, MacProgram(r) = Plan(rs, calls)
        PROVE  IF MacProgram(r).refusal = "none" THEN MacProgram(r).calls # <<>>
               ELSE MacProgram(r).calls = <<>>
    BY <1>1, CallsOrRefusal
  <1>2. \A x, y : <<x>> # <<>> /\ <<x, y>> # <<>>
    OBVIOUS
  <1> DEFINE Goal == IF MacProgram(r).refusal = "none" THEN MacProgram(r).calls # <<>>
                     ELSE MacProgram(r).calls = <<>>
  <1>3. CASE r.cmd = "C4"
    <2>1. MacProgram(r) = C4(r)
      BY <1>3, MacDispatch, Zenon
    <2> QED BY <2>1, <1>1, <1>2 DEF C4
  <1>4. CASE r.cmd = "M8"
    <2>1. MacProgram(r) = M8(r)
      BY <1>4, MacDispatch, Zenon
    <2> QED BY <2>1, <1>1, <1>2 DEF M8
  <1>5. CASE r.cmd \in {"MC", "MM", "MW"}
    <2>1. MacProgram(r) \in {MC(r), MM(r), MW(r)}
      BY <1>5, MacDispatch
    <2>2. \A d : verify_alg1_mac(r, d) # <<>>
      BY <1>2 DEF verify_alg1_mac
    <2> QED BY <2>1, <2>2, <1>1 DEF MC, MM, MW
  <1>6. CASE r.cmd \in {"ME", "MO"}
    <2>1. MacProgram(r) \in {ME(r), MO(r)}
      BY <1>6, MacDispatch
    <2>2. \A d : verify_then_generate_alg1(r, d) # <<>>
      BY <1>2 DEF verify_then_generate_alg1
    <2>3. Goal
      BY <2>1, <2>2, <1>1 DEF ME, MO
    <2> QED BY <2>3
  <1>7. CASE r.cmd = "GW"
    <2>1. MacProgram(r) = GW(r)
      BY <1>7, MacDispatch, Zenon
    <2> QED BY <2>1, CallsOrRefusal DEF GW
  <1>8. CASE r.cmd = "MY"
    <2>1. MacProgram(r) = MY(r)
      BY <1>8, MacDispatch, Zenon
    <2> QED BY <2>1, <1>1, <1>2 DEF MY
  <1>9. CASE r.cmd \in {"JU", "KU"}
    <2>1. MacProgram(r) \in {JU(r), KU(r)}
      BY <1>9, MacDispatch
    <2>2. \A m, v, d : handle_generate(r, m, v, d) # <<>>
      BY <1>2 DEF handle_generate
    <2> QED BY <2>1, <2>2, <1>1 DEF JU, KU
  <1>10. DOMAIN GeneratingTwin = {"C4", "M8", "MC", "MM", "MW", "ME", "MO", "GW"}
    BY DEF GeneratingTwin
  <1> QED BY <1>3, <1>4, <1>5, <1>6, <1>7, <1>8, <1>9, <1>10

-------------------------------------------------------------------------------
(* What the calls of a verifying command found out decides its answer.     *)
LEMMA TwinDecides ==
  ASSUME MessageTraffic, HInv(MessageData), NEW c \in Conns, code[c] # "none",
         VerifyingMac(req[c]), ~faulted[c], trace[c] # <<>>
  PROVE  LET made == Made(Twin(req[c]), trace[c][1][req[c].key]) IN
         Passed(c) <=> Truncate(req[c].mac, made.len) = made
PROOF
  <1> DEFINE r == req[c]
             k == trace[c][1][req[c].key]
  <1>1. MacFrame(r) /\ Program(r) = MacProgram(r) /\ r.mac \in Data
    <2>1. r.cmd \in DOMAIN GeneratingTwin
      BY DEF VerifyingMac
    <2>2. r.cmd \notin DataCommands
      BY <2>1, MacOrData
    <2>3. MacFrame(r) /\ Program(r) = MacProgram(r)
      BY <2>2, AnsweredMessage
    <2> QED BY <2>3 DEF MacFrame, MacFields
  <1>2. MacProgram(r).calls # <<>>
    BY <1>1, NoCall
  <1>3. PICK alg \in STRING, of \in Seq(STRING), n \in Nat, w \in Nat :
          Verifies(r, alg, of, n, w)
    BY <1>1, <1>2, EveryVerifies
  <1>4. PICK call :
          /\ Checking(call, r.key, alg, of, r.mac, n)
          /\ MacProgram(r).calls = IF r.cmd \in {"ME", "MO"}
                                   THEN <<call, Generate(r.key2, "ALG1", of, 8)>>
                                   ELSE <<call>>
    BY <1>3 DEF Verifies
  <1>5. n <= r.mac.len /\ w <= n /\ r.key \in Mapped
    BY <1>3 DEF Verifies
  <1>6. ASSUME k \in Keys
        PROVE  LET made == Made(Twin(r), k) IN
               Truncate(r.mac, made.len) = made <=> IsMac(r.mac, k, alg, of)
    <2>1. Made(Twin(r), k) = Datum("mac", k, Derivation(alg), of, w)
      BY <1>3, <1>6 DEF Verifies
    <2>2. Datum("mac", k, Derivation(alg), of, w).len = w
      BY DEF Datum
    <2> DEFINE cut == Truncate(r.mac, w)
    <2>3. r.mac.len \in Nat /\ ~(r.mac.len < w)
      BY <1>1, <1>5 DEF Data
    <2>4. /\ cut \in Data /\ cut.kind = r.mac.kind /\ cut.key = r.mac.key
          /\ cut.alg = r.mac.alg /\ cut.of = r.mac.of /\ cut.len = w
      BY <1>1, <2>3, TruncateIs
    <2> HIDE DEF cut
    <2>5. cut = Datum("mac", k, Derivation(alg), of, w) <=> IsMac(r.mac, k, alg, of)
      BY <2>4, DataFieldsDecide DEF IsMac
    <2> QED BY <2>1, <2>2, <2>5 DEF cut
  <1>7. ASSUME NEW b, Keyed(b)
        PROVE  /\ b[r.key] \in Keys
               /\ \A o : Passes(call, b, Nothing, o) => IsMac(r.mac, b[r.key], alg, of)
               /\ Mismatches(call, b, Nothing) \/ Rejects(call, b, Nothing) =>
                    ~IsMac(r.mac, b[r.key], alg, of)
    <2>1. b[r.key] \in Keys
      BY <1>5, <1>7 DEF Keyed
    <2> QED BY <2>1, <1>1, <1>4, <1>5, <1>7, CheckAnswers
  <1>8. k \in Keys /\ (Passed(c) <=> IsMac(r.mac, k, alg, of))
    <2>1. CASE r.cmd \in {"ME", "MO"}
      <3> DEFINE next == Generate(r.key2, "ALG1", of, 8)
      <3>1. Program(r).calls = <<call, next>>
        BY <1>1, <1>4, <2>1
      <3> HIDE DEF next
      <3>2. /\ Keyed(trace[c][1])
            /\ \/ /\ Len(trace[c]) = 2
                  /\ \E m : Passes(call, trace[c][1], Nothing, m)
               \/ /\ Len(trace[c]) = 1
                  /\ \/ Mismatches(call, trace[c][1], Nothing)
                     \/ Rejects(call, trace[c][1], Nothing)
        BY <3>1, TwoCalls
      <3>3. Passed(c) <=> Len(trace[c]) = 2
        BY <2>1 DEF Passed
      <3> QED BY <3>2, <3>3, <1>7
    <2>2. CASE r.cmd \notin {"ME", "MO"}
      <3>1. Program(r).calls = <<call>>
        BY <1>1, <1>4, <2>2
      <3>2. /\ Keyed(trace[c][1])
            /\ \/ code[c] = "00" /\ Passes(call, trace[c][1], Nothing, out[c])
               \/ code[c] = "01" /\ Mismatches(call, trace[c][1], Nothing)
               \/ code[c] = "41" /\ Rejects(call, trace[c][1], Nothing)
        BY <3>1, OneCall
      <3>3. Passed(c) <=> code[c] = "00"
        BY <2>2 DEF Passed
      <3> QED BY <3>2, <3>3, <1>7
    <2> QED BY <2>1, <2>2
  <1> QED BY <1>6, <1>8

(* A genuine MAC is not called malformed, but for its width by M8.         *)
LEMMA TwinNotMalformed ==
  ASSUME NEW r, MacFrame(r), VerifyingMac(r), MacProgram(r).refusal = "15",
         MacProgram(Twin(r)).calls # <<>>, NEW k \in Keys, r.mac = Made(Twin(r), k)
  PROVE  r.cmd = "M8" /\ r.mac.len < m6_mac_size[r.size]
PROOF
  <1>1. r \in MacFields /\ r.msg \in Seq(STRING) /\ r.ksn \in STRING
    BY DEF MacFrame, MacFields
  <1>2. MacProgram(r).calls = <<>>
    BY MacCallsOrRefusal DEF VerifyingMac
  <1> DEFINE tw == Twin(r)
  <1>3. /\ tw.wire = r.wire /\ tw.key = r.key /\ tw.size = r.size /\ tw.alg = r.alg
        /\ tw.ksn = r.ksn /\ tw.msg = r.msg
        /\ tw.mode = IF r.cmd = "GW" THEN "0" ELSE r.mode
        /\ r.cmd = "C4" => tw.cmd = "C2"
        /\ r.cmd = "M8" => tw.cmd = "M6"
        /\ r.cmd \in {"MC", "ME"} => tw.cmd = "MA"
        /\ r.cmd \in {"MM", "MO"} => tw.cmd = "MK"
        /\ r.cmd = "MW" => tw.cmd = "MU"
        /\ r.cmd = "GW" => tw.cmd = "GW"
    BY <1>1, TwinFields
  <1>4. MacProgram(tw).calls # <<>> /\ r.mac = Made(tw, k)
    OBVIOUS
  <1> HIDE DEF tw
  <1>5. CASE r.cmd = "C4"
    <2>1. MacProgram(tw).calls = C2(tw).calls /\ MacProgram(r).calls = C4(r).calls
      BY <1>3, <1>5, MacDispatch
    <2>2. PlainGuard(tw)
      BY <2>1, <1>4, PlainPlans
    <2>3. PlainGuard(r)
      BY <2>2, <1>3, <1>5 DEF PlainGuard
    <2> DEFINE alg == algorithm_from_mode_c2[r.alg]
    <2>4. MacProgram(tw).calls = <<Generate(r.key, alg, r.msg, 8)>>
      BY <2>1, <2>2, <1>3, PlainPlans
    <2>5. alg \in STRING /\ FullDigits(alg) = 8
      BY <2>3, MacTables DEF PlainGuard
    <2> HIDE DEF alg
    <2>6. Made(tw, k) = Datum("mac", k, Derivation(alg), r.msg, 8)
      <3>1. 8 \in Nat /\ (IF 8 < FullDigits(alg) THEN 8 ELSE FullDigits(alg)) = 8
        BY <2>5
      <3> DEFINE key == r.key
                 msg == r.msg
                 n == 8
      <3>2. MacProgram(tw).calls = <<Generate(key, alg, msg, n)>> /\ msg \in Seq(STRING)
        BY <2>4, <1>1
      <3>3. n \in Nat /\ (IF n < FullDigits(alg) THEN n ELSE FullDigits(alg)) = 8
        BY <3>1
      <3> HIDE DEF key, msg, n
      <3>4. Made(tw, k) =
              Datum("mac", k, Derivation(alg), msg,
                    IF n < FullDigits(alg) THEN n ELSE FullDigits(alg))
        BY <3>2, <3>3, <2>5, MadeBy
      <3> QED BY <3>3, <3>4, Zenon DEF msg
    <2>7. r.mac.len = 8
      BY <2>6, <1>4 DEF Datum
    <2>8. C4(r).calls # <<>>
      <3>1. ~(r.mac.len < 8)
        BY <2>7
      <3>2. C4(r).calls =
              <<Verify(r.key, algorithm_from_mode_c2[r.alg], r.msg, MacField(r, 8))>>
        BY <3>1, <2>3, PlainPlans, Zenon
      <3> QED BY <3>2
    <2> QED BY <2>1, <2>8, <1>2
  <1>6. CASE r.cmd = "M8"
    <2>1. MacProgram(tw).calls = M6(tw).calls /\ MacProgram(r).calls = M8(r).calls
      BY <1>3, <1>6, MacDispatch
    <2>2. SizedGuard(tw)
      BY <2>1, <1>4, PlainPlans
    <2>3. SizedGuard(r)
      BY <2>2, <1>3, <1>6 DEF SizedGuard
    <2>4. r.mac.len < m6_mac_size[r.size]
      <3> SUFFICES ASSUME ~(r.mac.len < m6_mac_size[r.size]) PROVE FALSE
        OBVIOUS
      <3>1. M8(r).calls =
              <<M8Check(r, algorithm_from_m6_algo_byte[r.alg], m6_mac_size[r.size])>>
        BY <2>3, PlainPlans, Zenon
      <3>2. \A x : <<x>> # <<>>
        OBVIOUS
      <3> QED BY <3>1, <3>2, <2>1, <1>2, Zenon
    <2> QED BY <2>4, <1>6
  <1>7. CASE r.cmd \in {"MC", "ME", "MM", "MO", "MW"}
    <2>1. r.wire /\ r.key \in Mapped /\ (r.cmd = "MW" => r.mode = "0")
      <3>1. CASE r.cmd \in {"MC", "ME"}
        <4>1. MacProgram(tw).calls = MA(tw).calls
          BY <1>3, <3>1, MacDispatch
        <4>2. tw.wire /\ tw.key \in Mapped
          BY <4>1, <1>4, LegacyPlans
        <4> QED BY <4>2, <3>1, <1>3
      <3>2. CASE r.cmd \in {"MM", "MO"}
        <4>1. MacProgram(tw).calls = MK(tw).calls
          BY <1>3, <3>2, MacDispatch
        <4>2. tw.wire /\ tw.key \in Mapped
          BY <4>1, <1>4, LegacyPlans
        <4> QED BY <4>2, <3>2, <1>3
      <3>3. CASE r.cmd = "MW"
        <4>1. MacProgram(tw).calls = MU(tw).calls
          BY <1>3, <3>3, MacDispatch
        <4>2. tw.wire /\ tw.mode = "0" /\ tw.key \in Mapped
          BY <4>1, <1>4, LegacyPlans
        <4> QED BY <4>2, <3>3, <1>3
      <3> QED BY <3>1, <3>2, <3>3, <1>7
    <2>2. CASE r.cmd \in {"MC", "MM", "MW"}
      <3>1. \A x, y : verify_alg1_mac(x, y) # <<>>
        BY DEF verify_alg1_mac
      <3>2. MC(r).calls # <<>> /\ MM(r).calls # <<>>
        BY <2>1, <3>1, LegacyPlans
      <3>3. r.cmd = "MW" => MW(r).calls # <<>>
        BY <2>1, <3>1, LegacyPlans
      <3>4. MacProgram(r).calls # <<>>
        BY <2>2, <3>2, <3>3, MacDispatch
      <3> QED BY <3>4, <1>2
    <2>3. CASE r.cmd \in {"ME", "MO"}
      <3>1. \A x, y : verify_then_generate_alg1(x, y) # <<>>
        BY DEF verify_then_generate_alg1
      <3>2. MacProgram(r) \in {ME(r), MO(r)}
        BY <2>3, MacDispatch
      <3>3. CASE r.key2 \in Mapped
        <4>1. ME(r).calls # <<>> /\ MO(r).calls # <<>>
          BY <2>1, <3>1, <3>3, LegacyPlans
        <4> QED BY <4>1, <3>2, <1>2
      <3>4. CASE r.key2 \notin Mapped
        <4>1. ME(r).refusal = "10" /\ MO(r).refusal = "10"
          BY <2>1, <3>4, LegacyPlans
        <4> QED BY <4>1, <3>2
      <3> QED BY <3>3, <3>4
    <2> QED BY <2>2, <2>3, <1>7
  <1>8. CASE r.cmd = "GW"
    <2>1. MacProgram(tw).calls = GW(tw).calls /\ MacProgram(r).calls = GW(r).calls
      BY <1>3, <1>8, MacDispatch
    <2>2. GwGuard(tw) /\ tw.mode # "1" /\ r.mode = "1"
      BY <2>1, <1>3, <1>4, <1>8, GwPlan DEF VerifyingMac
    <2> DEFINE alg == dukpt_algorithm[r.alg]
               n == mac_size_from_byte[r.size]
               of == <<r.ksn>> \o r.msg
    <2>3. MacProgram(tw).calls = <<Generate(r.key, alg, of, n)>>
      BY <2>1, <2>2, <1>3, GwPlan
    <2>4. alg \in STRING /\ n \in {4, 8} /\ of \in Seq(STRING)
      BY <2>2, <1>1, <1>3, MacTables DEF GwGuard
    <2>5. GwGuard(r) <=> ~(r.mac.len < n)
      BY <2>2, <1>3 DEF GwGuard
    <2>6. r.mac.len < n
      <3> SUFFICES ASSUME GwGuard(r) PROVE FALSE
        BY <2>5
      <3>1. GW(r).calls = <<CheckWidth(r.key, alg, of, MacField(r, n), n)>>
        BY <2>2, GwPlan, Zenon
      <3> HIDE DEF alg, n, of
      <3>2. \A x : <<x>> # <<>>
        OBVIOUS
      <3> QED BY <3>1, <3>2, <2>1, <1>2, Zenon
    <2> HIDE DEF alg, n, of
    <2>7. n \in Nat /\ (IF n < FullDigits(alg) THEN n ELSE FullDigits(alg)) = n
      BY <2>4 DEF FullDigits
    <2>8. Made(tw, k) = Datum("mac", k, Derivation(alg), of, n)
      BY <2>3, <2>4, <2>7, MadeBy
    <2>9. r.mac.len = n
      BY <2>8, <1>4 DEF Datum
    <2> QED BY <2>6, <2>7, <2>9
  <1>9. r.cmd \in {"C4", "M8", "MC", "MM", "MW", "ME", "MO", "GW"}
    BY DEF VerifyingMac, GeneratingTwin
  <1> QED BY <1>5, <1>6, <1>7, <1>8, <1>9

(* VerifiesItsTwin, for every traffic of messages: C4, M8, MC, MM, MW, GW  *)
(* and the first half of ME and MO pass exactly the MACs that C2, M6, MA,  *)
(* MK, MU and GW return under the key that the alias names at the time of  *)
(* the call.                                                               *)
THEOREM OnlyTheTwinsMacPasses ==
  ASSUME MessageTraffic PROVE Spec => []VerifiesItsTwin
PROOF
  <1>1. HInv(MessageData) => VerifiesItsTwin
    <2> SUFFICES ASSUME HInv(MessageData), NEW c \in Conns,
                        Decided(c, DOMAIN GeneratingTwin),
                        req[c].cmd = "GW" => req[c].mode = "1"
                 PROVE  /\ trace[c] # <<>> =>
                             LET made == Made(Twin(req[c]), trace[c][1][req[c].key]) IN
                             Passed(c) <=> Truncate(req[c].mac, made.len) = made
                        /\ code[c] = "15" /\ MacProgram(Twin(req[c])).calls # <<>> =>
                             \A k \in Keys :
                               req[c].mac = Made(Twin(req[c]), k) =>
                                 req[c].cmd = "M8" /\ req[c].mac.len < m6_mac_size[req[c].size]
      BY DEF VerifiesItsTwin
    <2>1. code[c] # "none" /\ VerifyingMac(req[c]) /\ ~faulted[c]
      BY DEF Decided, VerifyingMac
    <2>2. trace[c] # <<>> =>
            LET made == Made(Twin(req[c]), trace[c][1][req[c].key]) IN
            Passed(c) <=> Truncate(req[c].mac, made.len) = made
      BY <2>1, TwinDecides
    <2>3. ASSUME code[c] = "15", MacProgram(Twin(req[c])).calls # <<>>, NEW k \in Keys,
                 req[c].mac = Made(Twin(req[c]), k)
          PROVE  req[c].cmd = "M8" /\ req[c].mac.len < m6_mac_size[req[c].size]
      <3>1. req[c].cmd \notin DataCommands
        BY <2>1, MacOrData DEF VerifyingMac
      <3>2. MacFrame(req[c]) /\ Program(req[c]) = MacProgram(req[c])
        BY <2>1, <3>1, AnsweredMessage
      <3>3. MacProgram(req[c]).refusal = "15"
        BY <2>1, <2>3, <3>2, NoCall
      <3> QED BY <2>1, <2>3, <3>2, <3>3, TwinNotMalformed
    <2> QED BY <2>2, <2>3
  <1> QED BY <1>1, MessagesExplained, PTL

-------------------------------------------------------------------------------
(* TranslationReMacs, for every traffic of messages: ME, MO and MY release *)
(* a MAC only of the message whose MAC they found genuine, each under the  *)
(* key that its alias named when the call was made.                        *)
THEOREM OnlyGenuineMacsAreTranslated ==
  ASSUME MessageTraffic PROVE Spec => []TranslationReMacs
PROOF
  <1>1. HInv(MessageData) => TranslationReMacs
    <2> SUFFICES ASSUME HInv(MessageData), NEW c \in Conns,
                        Answered(c, {"ME", "MO", "MY"}, "00")
                 PROVE  /\ out[c].kind = "mac" /\ req[c].mac.kind = "mac"
                        /\ out[c].of = req[c].mac.of
                        /\ req[c].mac.key = trace[c][1][req[c].key]
                        /\ out[c].key = trace[c][2][req[c].key2]
      BY DEF TranslationReMacs
    <2> DEFINE r == req[c]
               calls == MacProgram(r).calls
    <2>1. code[c] = "00" /\ code[c] # "none" /\ r.cmd \in {"ME", "MO", "MY"}
      BY DEF Answered
    <2>2. MacFrame(r) /\ Program(r) = MacProgram(r) /\ r.mac \in Data
      <3>1. r.cmd \notin DataCommands
        BY <2>1, MacOrData
      <3>2. MacFrame(r) /\ Program(r) = MacProgram(r)
        BY <2>1, <3>1, AnsweredMessage
      <3> QED BY <3>2 DEF MacFrame, MacFields
    <2>3. calls # <<>>
      <3>1. MacProgram(r).refusal = "none"
        BY <2>1, <2>2, OkNotRefused
      <3> QED BY <2>1, <3>1, MacCallsOrRefusal
    <2>4. ReMacs(r, calls)
      <3>1. CASE r.cmd = "MY"
        BY <3>1, <2>2, <2>3, MyShape
      <3>2. CASE r.cmd \in {"ME", "MO"}
        <4>1. VerifyingMac(r)
          BY <3>2 DEF VerifyingMac, GeneratingTwin
        <4> QED BY <4>1, <3>2, <2>2, <2>3, VerifyingShape
      <3> QED BY <3>1, <3>2, <2>1
    <2> HIDE DEF calls
    <2>5. PICK alg \in STRING, alg2 \in STRING, of \in Seq(STRING), n \in Nat, w \in Nat :
            \E call : /\ Checks(call, r.key, alg, of, r.mac, n)
                      /\ calls = <<call, Generate(r.key2, alg2, of, w)>>
      BY <2>4 DEF ReMacs
    <2>6. PICK call : /\ Checks(call, r.key, alg, of, r.mac, n)
                      /\ calls = <<call, Generate(r.key2, alg2, of, w)>>
      BY <2>5
    <2>7. r.key \in Mapped /\ r.key2 \in Mapped
      BY <2>4 DEF ReMacs
    <2> DEFINE next == Generate(r.key2, alg2, of, w)
    <2>8. Program(r).calls = <<call, next>>
      BY <2>2, <2>6 DEF calls
    <2> HIDE DEF next
    <2>9. /\ Keyed(trace[c][1]) /\ Keyed(trace[c][2])
          /\ \E m : /\ Passes(call, trace[c][1], Nothing, m)
                    /\ Passes(next, trace[c][2], m, out[c])
      BY <2>1, <2>8, TwoCalls
    <2>10. PICK m : /\ Passes(call, trace[c][1], Nothing, m)
                    /\ Passes(next, trace[c][2], m, out[c])
      BY <2>9
    <2>11. IsMac(r.mac, trace[c][1][r.key], alg, of)
      BY <2>2, <2>6, <2>7, <2>9, <2>10, PassIsGenuine
    <2>12. out[c].kind = "mac" /\ out[c].of = of /\ out[c].key = trace[c][2][r.key2]
      <3> DEFINE b == trace[c][2]
      <3>1. Keyed(b) /\ Passes(Generate(r.key2, alg2, of, w), b, m, out[c])
        BY <2>9, <2>10 DEF next
      <3> HIDE DEF b
      <3>2. out[c].kind = "mac" /\ out[c].of = of /\ out[c].key = b[r.key2]
        BY <3>1, <2>7, GenerateAnswers
      <3> QED BY <3>2 DEF b
    <2> QED BY <2>11, <2>12 DEF IsMac
  <1> QED BY <1>1, MessagesExplained, PTL

(* ScriptMacIsCards, for every traffic of messages: JU and the schemes of  *)
(* KU return the MAC of the data that the card itself takes, and JU that   *)
(* of scheme 6.                                                            *)
THEOREM ScriptsGetTheCardsMac ==
  ASSUME MessageTraffic PROVE Spec => []ScriptMacIsCards
PROOF
  <1>1. HInv(MessageData) => ScriptMacIsCards
    <2> SUFFICES ASSUME HInv(MessageData), NEW c \in Conns,
                        Answered(c, {"JU", "KU"}, "00")
                 PROVE  /\ out[c].of = CardsData(req[c])
                        /\ req[c].cmd = "JU" =>
                             out[c] = Made(InScheme6(req[c]), trace[c][1][req[c].key])
      BY DEF ScriptMacIsCards, CardsData, InScheme6
    <2> DEFINE r == req[c]
    <2>1. code[c] = "00" /\ code[c] # "none" /\ r.cmd \in {"JU", "KU"}
      BY DEF Answered
    <2>2. MacFrame(r) /\ Program(r) = MacProgram(r)
      <3>1. r.cmd \notin DataCommands
        BY <2>1, MacOrData
      <3> QED BY <2>1, <3>1, AnsweredMessage
    <2>3. MacProgram(r).calls # <<>>
      <3>1. MacProgram(r).refusal = "none"
        BY <2>1, <2>2, OkNotRefused
      <3> QED BY <2>1, <3>1, MacCallsOrRefusal
    <2>4. "Emv2000" \in STRING /\ "UnionPay" \in STRING /\ 8 \in Nat
      BY MacTables
    <2>5. PICK alg \in STRING :
            /\ MacProgram(r).calls = <<Generate(r.key, alg, CardsData(r), 8)>>
            /\ r.cmd = "JU" => alg = "Emv2000"
      BY <2>1, <2>2, <2>3, <2>4, JuCalls, KuCalls
    <2>6. r.key \in Mapped /\ CardsData(r) \in Seq(STRING)
      BY <2>1, <2>2, <2>3, JuCalls, KuCalls
    <2> DEFINE call == Generate(r.key, alg, CardsData(r), 8)
    <2>7. Program(r).calls = <<call>>
      BY <2>2, <2>5
    <2> HIDE DEF call
    <2>8. Keyed(trace[c][1]) /\ Passes(call, trace[c][1], Nothing, out[c])
      BY <2>1, <2>7, OneCall
    <2> DEFINE k == trace[c][1][r.key]
    <2>9. /\ out[c] = Datum("mac", k, Derivation(alg), CardsData(r),
                            IF 8 < FullDigits(alg) THEN 8 ELSE FullDigits(alg))
          /\ out[c].of = CardsData(r) /\ k \in Keys
      BY <2>4, <2>6, <2>8, GenerateAnswers DEF call
    <2>10. ASSUME r.cmd = "JU" PROVE out[c] = Made(InScheme6(r), k)
      <3>1. MacProgram(InScheme6(r)).calls
              = <<Generate(r.key, "UnionPay", CardsData(r), 8)>>
        BY <2>2, <2>3, <2>10, JuCalls
      <3>2. Made(InScheme6(r), k) = Datum("mac", k, Derivation("UnionPay"), CardsData(r),
                          IF 8 < FullDigits("UnionPay") THEN 8 ELSE FullDigits("UnionPay"))
        BY <3>1, <2>4, <2>6, <2>9, MadeBy
      <3>3. /\ Derivation("UnionPay") = Derivation("Emv2000")
            /\ FullDigits("UnionPay") = FullDigits("Emv2000")
        BY DEF Derivation, FullDigits
      <3> QED BY <3>2, <3>3, <2>5, <2>9, <2>10
    <2> QED BY <2>9, <2>10
  <1> QED BY <1>1, MessagesExplained, PTL

-------------------------------------------------------------------------------
(* A decrypting command that is not refused calls the service.             *)
LEMMA DataCalls ==
  ASSUME NEW r, r.cmd \in {"HG", "M2", "K0", "M4"}, DataProgram(r).refusal = "none"
  PROVE  DataProgram(r).calls # <<>>
PROOF
  <1>1. ASSUME NEW rs, NEW calls, calls # <<>>, DataProgram(r) = Plan(rs, calls)
        PROVE  DataProgram(r).calls # <<>>
    BY <1>1, CallsOrRefusal
  <1>2. \A x, y : <<x>> # <<>> /\ <<x, y>> # <<>>
    OBVIOUS
  <1>3. CASE r.cmd = "HG"
    <2>1. DataProgram(r) = HG(r)
      BY <1>3, DataDispatch, Zenon
    <2> QED BY <2>1, <1>1, <1>2 DEF HG
  <1>4. CASE r.cmd = "M2"
    <2>1. DataProgram(r) = M2(r)
      BY <1>4, DataDispatch, Zenon
    <2> QED BY <2>1, <1>1, <1>2 DEF M2
  <1>5. CASE r.cmd = "K0"
    <2>1. DataProgram(r) = K0(r)
      BY <1>5, DataDispatch, Zenon
    <2> QED BY <2>1, <1>1, <1>2 DEF K0
  <1>6. CASE r.cmd = "M4"
    <2>1. DataProgram(r) = M4(r)
      BY <1>6, DataDispatch, Zenon
    <2> QED BY <2>1, <1>1, <1>2 DEF M4, TranslateData
  <1> QED BY <1>3, <1>4, <1>5, <1>6

(* What is deciphered with the right key, mode and derivation data is      *)
(* never what is deciphered with wrong ones.                               *)
LEMMA RightIsNotGarbled ==
  ASSUME NEW d, Clean(d.of), d.len \in Nat, NEW key, NEW mode,
         NEW derivation \in Seq(STRING)
  PROVE  Deciphered(d, key, mode, derivation).of
           = SubSeq(d.of, Len(derivation) + 1, Len(d.of))
           <=> Right(d, key, mode, derivation)
PROOF
  <1> DEFINE rest == SubSeq(d.of, Len(derivation) + 1, Len(d.of))
             o == Deciphered(d, key, mode, derivation)
  <1>1. Len(derivation) \in Nat
    OBVIOUS
  <1>2. Clean(rest)
    BY <1>1, CleanParts
  <1>3. rest # Garbled
    BY <1>2, CleanParts
  <1>4. o.of = IF Right(d, key, mode, derivation) THEN rest ELSE Garbled
    BY DecipheredIsData
  <1> HIDE DEF rest, o
  <1>5. o.of = rest <=> Right(d, key, mode, derivation)
    BY <1>3, <1>4
  <1> QED BY <1>5 DEF rest, o

(* The same said of the commands, in their own terms.                      *)
LEMMA MeantIfMadeFor ==
  ASSUME NEW hold \in SUBSET MessageData, NEW r, DataFrame(r, hold), r.wire, NEW k
  PROVE  /\ r.cmd = "HG" =>
              (Deciphered(parse_key_and_data(r), k, "ECB", <<>>).of = Meant(r) <=> MadeFor(r, k))
         /\ r.cmd \in {"M2", "M4"} =>
              (Deciphered(r.data, k, "ECB", <<>>).of = Meant(r) <=> MadeFor(r, k))
         /\ r.cmd = "K0" =>
              (Deciphered(r.data, k, "EMV_CBC", session_derivation_data(r)).of = Meant(r)
                 <=> MadeFor(r, k))
PROOF
  <1>1. <<>> \in Seq(STRING) /\ Len(<<>>) + 1 = 1 /\ Len(<<>>) = 0
    OBVIOUS
  <1>2. ASSUME NEW d, Clean(d.of), d.len \in Nat
        PROVE  /\ SubSeq(d.of, Len(<<>>) + 1, Len(d.of)) = d.of
               /\ Right(d, k, "ECB", <<>>) <=> d.key = k /\ d.alg = "ECB"
               /\ Deciphered(d, k, "ECB", <<>>).of = d.of <=> d.key = k /\ d.alg = "ECB"
    <2>1. SubSeq(d.of, 1, Len(d.of)) = d.of /\ SubSeq(d.of, 1, 0) = <<>>
      BY <1>2, CleanParts
    <2>2. Right(d, k, "ECB", <<>>) <=> d.key = k /\ d.alg = "ECB"
      BY <2>1, <1>1 DEF Right
    <2>3. Deciphered(d, k, "ECB", <<>>).of = SubSeq(d.of, Len(<<>>) + 1, Len(d.of))
            <=> Right(d, k, "ECB", <<>>)
      BY <1>1, <1>2, RightIsNotGarbled
    <2> QED BY <2>1, <2>2, <2>3, <1>1
  <1>3. ASSUME r.cmd = "HG"
        PROVE  Deciphered(parse_key_and_data(r), k, "ECB", <<>>).of = Meant(r) <=> MadeFor(r, k)
    <2> DEFINE d == parse_key_and_data(r)
    <2>1. /\ Clean(d.of) /\ d.of = SubSeq(r.data.of, 1, 1) /\ d.len \in Nat
          /\ d.key = r.data.key /\ d.alg = r.data.alg
      BY <1>3, FrameData
    <2> HIDE DEF d
    <2>2. Meant(r) = d.of /\ (MadeFor(r, k) <=> d.key = k /\ d.alg = "ECB")
      BY <1>3, <2>1 DEF Meant, MadeFor
    <2>3. Deciphered(d, k, "ECB", <<>>).of = Meant(r) <=> MadeFor(r, k)
      BY <2>1, <2>2, <1>2
    <2> QED BY <2>3 DEF d
  <1>4. ASSUME r.cmd \in {"M2", "M4"}
        PROVE  Deciphered(r.data, k, "ECB", <<>>).of = Meant(r) <=> MadeFor(r, k)
    <2>1. Clean(r.data.of) /\ r.data.len \in Nat
      BY <1>4, FrameData
    <2>2. Meant(r) = r.data.of /\ (MadeFor(r, k) <=> r.data.key = k /\ r.data.alg = "ECB")
      BY <1>4 DEF Meant, MadeFor
    <2> QED BY <2>1, <2>2, <1>2
  <1>5. ASSUME r.cmd = "K0"
        PROVE  Deciphered(r.data, k, "EMV_CBC", session_derivation_data(r)).of = Meant(r)
                 <=> MadeFor(r, k)
    <2> DEFINE s == session_derivation_data(r)
               o == Deciphered(r.data, k, "EMV_CBC", s)
    <2>1. Clean(r.data.of) /\ r.data.len \in Nat
      BY <1>5, FrameData
    <2>2. r.pan \in STRING /\ r.atc \in STRING
      BY DEF DataFrame, DataFields
    <2>3. s \in Seq(STRING) /\ Len(s) = 2 /\ s = <<r.pan, r.atc>> /\ Len(s) + 1 = 3
      BY <2>2 DEF session_derivation_data
    <2> HIDE DEF s
    <2>4. o.of = SubSeq(r.data.of, Len(s) + 1, Len(r.data.of))
            <=> Right(r.data, k, "EMV_CBC", s)
      <3>1. s \in Seq(STRING)
        BY <2>3
      <3> QED BY <2>1, <3>1, RightIsNotGarbled, Zenon
    <2>5. SubSeq(r.data.of, Len(s) + 1, Len(r.data.of)) = Meant(r)
      BY <1>5, <2>3 DEF Meant
    <2>6. Right(r.data, k, "EMV_CBC", s) <=> MadeFor(r, k)
      BY <1>5, <2>3 DEF Right, MadeFor
    <2> QED BY <2>4, <2>5, <2>6 DEF s
  <1> QED BY <1>3, <1>4, <1>5

(* DecryptsWhatWasEncrypted, for every traffic of messages: HG, M2 and K0  *)
(* return the clear text exactly if the cipher text was made under the key *)
(* that their identifier names at the time of the call.                    *)
THEOREM DecryptionIsInverse ==
  ASSUME MessageTraffic PROVE Spec => []DecryptsWhatWasEncrypted
PROOF
  <1>1. HInv(MessageData) => DecryptsWhatWasEncrypted
    <2> SUFFICES ASSUME HInv(MessageData), NEW c \in Conns,
                        Answered(c, {"HG", "M2", "K0"}, "00")
                 PROVE  out[c].of = Meant(req[c]) <=> MadeFor(req[c], trace[c][1][req[c].key])
      BY DEF DecryptsWhatWasEncrypted
    <2> DEFINE r == req[c]
               k == trace[c][1][r.key]
    <2>1. code[c] = "00" /\ code[c] # "none" /\ r.cmd \in {"HG", "M2", "K0"}
      BY DEF Answered
    <2>2. r.cmd \in DataCommands
      BY <2>1, MacOrData
    <2>3. Program(r) = DataProgram(r)
      BY <2>1, <2>2, AnsweredMessage
    <2>4. PICK hold \in SUBSET MessageData : DataFrame(r, hold)
      BY <2>1, <2>2, AnsweredMessage
    <2>5. DataProgram(r).calls # <<>>
      <3>1. DataProgram(r).refusal = "none"
        BY <2>1, <2>3, OkNotRefused
      <3> QED BY <2>1, <3>1, DataCalls
    <2>6. ASSUME NEW d, NEW mode, NEW derivation, DeciphersOne(r, d, mode, derivation)
          PROVE  r.wire /\ out[c] = Deciphered(d, k, mode, derivation)
      <3> DEFINE call == Decipher(r.key, mode, derivation, d)
      <3>1. r.wire /\ r.key \in Mapped /\ Program(r).calls = <<call>>
        BY <2>3, <2>6 DEF DeciphersOne
      <3> HIDE DEF call
      <3>2. Keyed(trace[c][1]) /\ Passes(call, trace[c][1], Nothing, out[c])
        BY <2>1, <3>1, OneCall
      <3> QED BY <3>1, <3>2, DecryptAnswers DEF call
    <2>7. CASE r.cmd = "HG"
      <3>1. DeciphersOne(r, parse_key_and_data(r), "ECB", <<>>)
        BY <2>5, <2>7, DecryptingCalls
      <3>2. r.wire /\ out[c] = Deciphered(parse_key_and_data(r), k, "ECB", <<>>)
        BY <3>1, <2>6
      <3> QED BY <3>2, <2>4, <2>7, MeantIfMadeFor
    <2>8. CASE r.cmd = "M2"
      <3>1. DeciphersOne(r, r.data, "ECB", <<>>)
        BY <2>5, <2>8, DecryptingCalls
      <3>2. r.wire /\ out[c] = Deciphered(r.data, k, "ECB", <<>>)
        BY <3>1, <2>6
      <3> QED BY <3>2, <2>4, <2>8, MeantIfMadeFor
    <2>9. CASE r.cmd = "K0"
      <3>1. DeciphersOne(r, r.data, "EMV_CBC", session_derivation_data(r))
        BY <2>5, <2>9, DecryptingCalls
      <3>2. r.wire /\ out[c] = Deciphered(r.data, k, "EMV_CBC", session_derivation_data(r))
        BY <3>1, <2>6
      <3> QED BY <3>2, <2>4, <2>9, MeantIfMadeFor
    <2> QED BY <2>1, <2>7, <2>8, <2>9
  <1> QED BY <1>1, MessagesExplained, PTL

(* TranslationKeepsData, for every traffic of messages: M4 returns the     *)
(* clear text of its input under the key of its second call, and never the *)
(* clear text itself.                                                      *)
THEOREM TranslatedDataIsKept ==
  ASSUME MessageTraffic PROVE Spec => []TranslationKeepsData
PROOF
  <1>1. HInv(MessageData) => TranslationKeepsData
    <2> SUFFICES ASSUME HInv(MessageData), NEW c \in Conns,
                        code[c] # "none", req[c].cmd = "M4"
                 PROVE  /\ out[c].kind # "plain"
                        /\ code[c] = "00" =>
                             /\ out[c].key = trace[c][2][req[c].key2]
                             /\ MadeFor(req[c], trace[c][1][req[c].key]) =>
                                  out[c] = [req[c].data EXCEPT !.key = out[c].key]
      BY DEF TranslationKeepsData
    <2> DEFINE r == req[c]
    <2>1. CASE code[c] # "00"
      <3>1. out[c] = Nothing
        BY <2>1, NoCall
      <3>2. Nothing.kind # "plain"
        BY DEF Nothing, Datum
      <3> QED BY <3>1, <3>2, <2>1
    <2>2. CASE code[c] = "00"
      <3>1. r.cmd \in DataCommands
        BY MacOrData
      <3>2. Program(r) = DataProgram(r)
        BY <3>1, AnsweredMessage
      <3>3. PICK hold \in SUBSET MessageData : DataFrame(r, hold)
        BY <3>1, AnsweredMessage
      <3>4. DataProgram(r).calls # <<>>
        <4>1. DataProgram(r).refusal = "none"
          BY <2>2, <3>2, OkNotRefused
        <4> QED BY <4>1, DataCalls
      <3> DEFINE call == Decipher(r.key, "ECB", <<>>, r.data)
                 next == EncryptResult(r.key2)
      <3>5. /\ r.wire /\ r.key \in Mapped /\ r.key2 \in Mapped
            /\ Program(r).calls = <<call, next>>
        BY <3>2, <3>4, DecryptingCalls
      <3> HIDE DEF call, next
      <3>6. /\ Keyed(trace[c][1]) /\ Keyed(trace[c][2])
            /\ \E m : /\ Passes(call, trace[c][1], Nothing, m)
                      /\ Passes(next, trace[c][2], m, out[c])
        BY <2>2, <3>5, TwoCalls
      <3>7. PICK m : /\ Passes(call, trace[c][1], Nothing, m)
                     /\ Passes(next, trace[c][2], m, out[c])
        BY <3>6
      <3> DEFINE k == trace[c][1][r.key]
                 l == trace[c][2][r.key2]
      <3>8. m = Deciphered(r.data, k, "ECB", <<>>)
        BY <3>5, <3>6, <3>7, DecryptAnswers DEF call
      <3>9. out[c] = Datum("cipher", l, "ECB", m.of, m.len)
        BY <3>5, <3>6, <3>7, ReencryptAnswers DEF next
      <3> HIDE DEF k, l
      <3>10. r.data \in Data /\ r.data.kind = "cipher" /\ Clean(r.data.of) /\ r.data.len \in Nat
        BY <3>3, <3>5, FrameData
      <3>11. out[c].kind # "plain" /\ out[c].key = l
        BY <3>9 DEF Datum
      <3>12. ASSUME MadeFor(r, k) PROVE out[c] = [r.data EXCEPT !.key = l]
        <4>1. m.of = r.data.of /\ r.data.alg = "ECB"
          BY <3>3, <3>5, <3>8, <3>12, MeantIfMadeFor DEF Meant, MadeFor
        <4>2. m.len = r.data.len
          <5>1. Deciphered(r.data, k, "ECB", <<>>).len = r.data.len
            BY DEF Deciphered, Datum
          <5> QED BY <5>1, <3>8
        <4> QED BY <4>1, <4>2, <3>9, <3>10 DEF Datum, Data
      <3> QED BY <2>2, <3>11, <3>12 DEF k, l
    <2> QED BY <2>1, <2>2
  <1> QED BY <1>1, MessagesExplained, PTL

(* TypeOK, for every traffic of messages.                                  *)
THEOREM MessageTypes ==
  ASSUME MessageTraffic PROVE Spec => []TypeOK
PROOF BY MessagesServed, TypesAreKept

===============================================================================
