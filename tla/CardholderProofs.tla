--------------------------- MODULE CardholderProofs ---------------------------
(***************************************************************************)
(* The properties of the PIN and card commands, for every number of tasks, *)
(* every key map, every moment at which aliases are retargeted and every   *)
(* traffic of well-formed frames.                                          *)
(***************************************************************************)
EXTENDS PinHandlers, CardHandlers, HandlersProofs

-------------------------------------------------------------------------------
(* The plans of the card commands: when their calls are made, and which.   *)
CvvGuard(r) == r.wire /\ r.digits \in 1 .. 19 /\ r.key \in Mapped

KqGuard(r) ==
  /\ r.mode \in {"0", "1", "2"} /\ r.scheme \in DOMAIN kq_session /\ r.wire
  /\ r.key \in Mapped

KwGuard(r) ==
  /\ r.mode \in {"0", "1", "2"} /\ r.scheme \notin kw_unsupported
  /\ r.scheme \in DOMAIN kw_session /\ r.deriv \in DOMAIN kw_option /\ r.wire
  /\ r.key \in Mapped

JsGuard(r) == r.mode \in {"0", "1"} /\ r.wire /\ r.key \in Mapped

CapGuard(r) == r.wire /\ r.key \in Mapped

(* CW and CY make one call for a card number of 1 to 19 digits.            *)
LEMMA CvvPlans ==
  ASSUME NEW r
  PROVE  /\ CW(r).calls =
              IF CvvGuard(r)
              THEN <<Call("generate_card_validation_data", <<r.key>>, "CVV1",
                          read_expiry_service(r), Nothing, <<>>, 0)>>
              ELSE <<>>
         /\ CY(r).calls =
              IF CvvGuard(r)
              THEN <<Call("verify_card_validation_data", <<r.key>>, "CVV1",
                          read_expiry_service(r), r.cvv, <<>>, 0)>>
              ELSE <<>>
PROOF
  <1>1. "15" \in Errors
    BY Codes
  <1> DEFINE a == <<Malformed(~r.wire)>>
             k == <<Unmapped(r.key)>>
             p == a \o read_pan(r)
             rs == p \o k
  <1>2. Refusals(a) /\ (Clears(a) <=> r.wire)
    BY <1>1, Refuse1, Zenon DEF Malformed
  <1>3. Refusals(read_pan(r)) /\ (Clears(read_pan(r)) <=> r.digits \in 1 .. 19)
    BY <1>1, Refuse1, Zenon DEF Malformed, read_pan
  <1>4. Refusals(k) /\ (Clears(k) <=> r.key \in Mapped)
    BY KeyRefusals
  <1> HIDE DEF a, k
  <1>5. Refusals(p) /\ (Clears(p) <=> r.wire /\ r.digits \in 1 .. 19)
    BY <1>2, <1>3, RefusalsJoin
  <1> HIDE DEF p
  <1>6. Refusals(rs) /\ (Clears(rs) <=> CvvGuard(r))
    BY <1>4, <1>5, RefusalsJoin DEF CvvGuard
  <1> HIDE DEF rs
  <1>7. \A calls : Plan(rs, calls).calls = IF CvvGuard(r) THEN calls ELSE <<>>
    BY <1>6, PlanOf
  <1> QED BY <1>7 DEF CW, CY, parse_cw, parse_cy, rs, p, a, k

(* The cryptogram commands make one call, for the card's session.          *)
LEMMA ArqcPlans ==
  ASSUME NEW r
  PROVE  /\ KQ(r).calls =
              IF KqGuard(r) THEN verify_arqc(r, "OptionA", kq_session[r.scheme]) ELSE <<>>
         /\ KW(r).calls =
              IF KwGuard(r)
              THEN verify_arqc(r, kw_option[r.deriv], kw_session[r.scheme]) ELSE <<>>
         /\ JS(r).calls =
              IF JsGuard(r) THEN verify_arqc(r, "OptionA", "UnionPay") ELSE <<>>
         /\ K2(r).calls =
              IF CapGuard(r)
              THEN verify_arqc([r EXCEPT !.mode = "0"], "OptionA", "Mastercard") ELSE <<>>
         /\ KS(r).calls =
              IF CapGuard(r)
              THEN verify_arqc([r EXCEPT !.mode = "0"], "OptionA", "Emv2000") ELSE <<>>
PROOF
  <1>1. "15" \in Errors
    BY Codes
  <1>2. "68" \in Errors
    BY Codes
  <1> DEFINE k == <<Unmapped(r.key)>>
             w == <<Malformed(~r.wire)>>
             q == <<Malformed(r.scheme \notin DOMAIN kq_session), Malformed(~r.wire)>>
             u == <<Unsupported(r.scheme \in kw_unsupported)>>
             v == <<Malformed(r.scheme \notin DOMAIN kw_session),
                    Malformed(r.deriv \notin DOMAIN kw_option), Malformed(~r.wire)>>
             uv == <<Unsupported(r.scheme \in kw_unsupported),
                     Malformed(r.scheme \notin DOMAIN kw_session),
                     Malformed(r.deriv \notin DOMAIN kw_option), Malformed(~r.wire)>>
  <1>3. \A s : Refusals(ModeRefusal(r, s)) /\ (Clears(ModeRefusal(r, s)) <=> r.mode \in s)
    <2>1. ASSUME NEW s
          PROVE  Refusals(ModeRefusal(r, s)) /\ (Clears(ModeRefusal(r, s)) <=> r.mode \in s)
      BY <1>1, Refuse1, Zenon DEF ModeRefusal, Malformed
    <2> QED BY <2>1
  <1>4. Refusals(k) /\ (Clears(k) <=> r.key \in Mapped)
    BY KeyRefusals
  <1>5. Refusals(w) /\ (Clears(w) <=> r.wire)
    BY <1>1, Refuse1, Zenon DEF Malformed
  <1>6. Refusals(q) /\ (Clears(q) <=> r.scheme \in DOMAIN kq_session /\ r.wire)
    BY Malformed2, Zenon
  <1>7. Refusals(u) /\ (Clears(u) <=> r.scheme \notin kw_unsupported)
    BY <1>2, Refuse1, Zenon DEF Unsupported
  <1>8. /\ Refusals(v)
        /\ Clears(v) <=> /\ r.scheme \in DOMAIN kw_session
                         /\ r.deriv \in DOMAIN kw_option /\ r.wire
    BY Malformed3, Zenon
  <1>9. uv = u \o v
    <2> DEFINE x == Unsupported(r.scheme \in kw_unsupported)
               y == Malformed(r.scheme \notin DOMAIN kw_session)
               z == Malformed(r.deriv \notin DOMAIN kw_option)
               t == Malformed(~r.wire)
    <2>1. uv = <<x, y, z, t>> /\ u = <<x>> /\ v = <<y, z, t>>
      BY Zenon
    <2> HIDE DEF x, y, z, t, u, v, uv
    <2>2. <<x, y, z, t>> = <<x>> \o <<y, z, t>>
      OBVIOUS
    <2> QED BY <2>1, <2>2
  <1> HIDE DEF k, w, q, u, v, uv
  <1>10. /\ Refusals(uv)
         /\ Clears(uv) <=> /\ r.scheme \notin kw_unsupported
                           /\ r.scheme \in DOMAIN kw_session
                           /\ r.deriv \in DOMAIN kw_option /\ r.wire
    BY <1>7, <1>8, <1>9, RefusalsJoin
  <1> DEFINE m == ModeRefusal(r, {"0", "1", "2"})
             n == ModeRefusal(r, {"0", "1"})
  <1>11. /\ Refusals(m) /\ (Clears(m) <=> r.mode \in {"0", "1", "2"})
         /\ Refusals(n) /\ (Clears(n) <=> r.mode \in {"0", "1"})
    BY <1>3
  <1> HIDE DEF m, n
  <1>12. /\ Refusals((m \o q) \o k) /\ (Clears((m \o q) \o k) <=> KqGuard(r))
    <2>1. Refusals(m \o q) /\ (Clears(m \o q) <=> Clears(m) /\ Clears(q))
      BY <1>6, <1>11, RefusalsJoin
    <2> QED BY <2>1, <1>4, <1>6, <1>11, RefusalsJoin DEF KqGuard
  <1>13. /\ Refusals((m \o uv) \o k) /\ (Clears((m \o uv) \o k) <=> KwGuard(r))
    <2>1. Refusals(m \o uv) /\ (Clears(m \o uv) <=> Clears(m) /\ Clears(uv))
      BY <1>10, <1>11, RefusalsJoin
    <2> QED BY <2>1, <1>4, <1>10, <1>11, RefusalsJoin DEF KwGuard
  <1>14. /\ Refusals((n \o w) \o k) /\ (Clears((n \o w) \o k) <=> JsGuard(r))
    <2>1. Refusals(n \o w) /\ (Clears(n \o w) <=> Clears(n) /\ Clears(w))
      BY <1>5, <1>11, RefusalsJoin
    <2> QED BY <2>1, <1>4, <1>5, <1>11, RefusalsJoin DEF JsGuard
  <1>15. Refusals(w \o k) /\ (Clears(w \o k) <=> CapGuard(r))
    BY <1>4, <1>5, RefusalsJoin DEF CapGuard
  <1>16. KQ(r).calls =
           IF KqGuard(r) THEN verify_arqc(r, "OptionA", kq_session[r.scheme]) ELSE <<>>
    BY <1>12, PlanOf DEF KQ, parse_kq, m, q, k
  <1>17. KW(r).calls =
           IF KwGuard(r)
           THEN verify_arqc(r, kw_option[r.deriv], kw_session[r.scheme]) ELSE <<>>
    BY <1>13, PlanOf DEF KW, parse_kw, m, uv, k
  <1>18. JS(r).calls = IF JsGuard(r) THEN verify_arqc(r, "OptionA", "UnionPay") ELSE <<>>
    BY <1>14, PlanOf DEF JS, parse_js, n, w, k
  <1>19. ASSUME NEW method
         PROVE  handle_cap(r, method).calls =
                  IF CapGuard(r)
                  THEN verify_arqc([r EXCEPT !.mode = "0"], "OptionA", method) ELSE <<>>
    BY <1>15, PlanOf DEF handle_cap, parse_cap, w, k
  <1> QED BY <1>16, <1>17, <1>18, <1>19 DEF K2, KS

-------------------------------------------------------------------------------
(* Each command has its own handler.                                       *)
LEMMA CardDispatch ==
  ASSUME NEW r
  PROVE  /\ r.cmd = "CW" => CardProgram(r) = CW(r)
         /\ r.cmd = "CY" => CardProgram(r) = CY(r)
         /\ r.cmd = "KQ" => CardProgram(r) = KQ(r)
         /\ r.cmd = "KW" => CardProgram(r) = KW(r)
         /\ r.cmd = "JS" => CardProgram(r) = JS(r)
         /\ r.cmd = "K2" => CardProgram(r) = K2(r)
         /\ r.cmd = "KS" => CardProgram(r) = KS(r)
         /\ r.cmd \in GatedCards => CardProgram(r) = Plan(<<Unsupported(TRUE)>>, <<>>)
PROOF BY DEF CardProgram, GatedCards

(* The first entries of a concatenation.                                   *)
LEMMA Prefix ==
  ASSUME NEW S, NEW a \in Seq(S), NEW b \in Seq(S), 1 <= Len(a)
  PROVE  a \o b \in Seq(S) /\ 1 <= Len(a \o b) /\ (a \o b)[1] = a[1]
PROOF
  <1>1. a \o b \in Seq(S) /\ Len(a \o b) = Len(a) + Len(b)
        /\ Len(a) \in Nat /\ Len(b) \in Nat
    OBVIOUS
  <1>2. \A i \in 1 .. Len(a) : (a \o b)[i] = a[i]
    OBVIOUS
  <1> QED BY <1>1, <1>2

(* Putting text together.                                                  *)
LEMMA Text ==
  ASSUME NEW S
  PROVE  /\ \A x \in S : <<x>> \in Seq(S)
         /\ \A x \in S, y \in S : <<x, y>> \in Seq(S)
         /\ \A x \in S, y \in S, z \in S : <<x, y, z>> \in Seq(S)
         /\ \A s \in Seq(S), x \in S : Append(s, x) \in Seq(S)
         /\ \A s \in Seq(S), t \in Seq(S) : s \o t \in Seq(S)
         /\ \A x \in S, s \in Seq(S), t \in Seq(S) : (<<x>> \o s \o t)[1] = x
PROOF
  <1>1. ASSUME NEW x \in S, NEW s \in Seq(S), NEW t \in Seq(S)
        PROVE  (<<x>> \o s \o t)[1] = x
    <2> DEFINE h == <<x>>
    <2>1. h \in Seq(S) /\ 1 <= Len(h) /\ h[1] = x
      OBVIOUS
    <2> HIDE DEF h
    <2>2. h \o s \in Seq(S) /\ 1 <= Len(h \o s) /\ (h \o s)[1] = x
      BY <2>1, <1>1, Prefix
    <2>3. ((h \o s) \o t)[1] = x
      BY <2>2, <1>1, Prefix
    <2> QED BY <2>3 DEF h
  <1> QED BY <1>1

(* The brands that the cryptogram commands are for.                        *)
Brands == {"Visa", "Mastercard", "Amex", "Emv2000", "EmvCommon", "UnionPay"}

(* The session that the handler asks for is the card's, and the data is    *)
(* padded as the card pads it.                                             *)
LEMMA SessionIsCards ==
  ASSUME NEW r \in CardFrameFields, NEW brand \in Brands, NEW option \in STRING
  PROVE  LET of == CardData(brand, option, r, r.txn) IN
         /\ <<option>> \o build_session_key(brand, r) \o emv_pad(r.txn) = of
         /\ of \in Seq(STRING) /\ of[1] = option
PROOF
  <1>1. r.pan \in STRING /\ r.atc \in STRING /\ r.un \in STRING /\ r.txn \in Seq(STRING)
    BY DEF CardFrameFields
  <1> DEFINE s == build_session_key(brand, r)
             f == CardFields(brand, r)
             t == Append(r.txn, "80")
             of == CardData(brand, option, r, r.txn)
  <1>2. s = f
    <2>1. CASE brand \in {"Amex", "Visa"}
      <3>1. s = <<r.pan>>
        BY <2>1 DEF build_session_key
      <3>2. f = <<r.pan>> \o <<>>
        BY <2>1 DEF CardFields
      <3> QED BY <3>1, <3>2, <1>1
    <2>2. CASE brand = "Mastercard"
      <3>1. s = <<r.pan, r.atc, r.un>>
        BY <2>2 DEF build_session_key
      <3>2. f = <<r.pan, r.atc>> \o <<r.un>>
        BY <2>2 DEF CardFields
      <3> QED BY <3>1, <3>2, <1>1
    <2>3. CASE brand \in {"EmvCommon", "Emv2000", "UnionPay"}
      <3>1. s = <<r.pan, r.atc>>
        BY <2>3 DEF build_session_key
      <3>2. f = <<r.pan, r.atc>> \o <<>>
        BY <2>3 DEF CardFields
      <3> QED BY <3>1, <3>2, <1>1
    <2> QED BY <2>1, <2>2, <2>3 DEF Brands
  <1>3. f \in Seq(STRING)
    <2>1. s \in {<<r.pan>>, <<r.pan, r.atc>>, <<r.pan, r.atc, r.un>>}
      BY DEF build_session_key, Brands
    <2>2. /\ <<r.pan>> \in Seq(STRING) /\ <<r.pan, r.atc>> \in Seq(STRING)
          /\ <<r.pan, r.atc, r.un>> \in Seq(STRING)
      BY <1>1, Text
    <2> HIDE DEF s, f
    <2> QED BY <2>1, <2>2, <1>2, Zenon
  <1>4. t \in Seq(STRING)
    <2>1. "80" \in STRING
      BY LiteralsAssumption
    <2>2. \A u \in Seq(STRING), x \in STRING : Append(u, x) \in Seq(STRING)
      BY Text
    <2> QED BY <2>1, <2>2, <1>1, Zenon
  <1>5. of = <<option>> \o f \o t /\ <<option>> \o s \o emv_pad(r.txn) = of
    BY <1>2 DEF CardData, emv_pad
  <1> HIDE DEF s, f, t, of
  <1>6. of \in Seq(STRING) /\ of[1] = option
    <2>1. <<option>> \o f \in Seq(STRING)
      BY <1>3, Text
    <2>2. of \in Seq(STRING)
      BY <2>1, <1>4, <1>5, Text
    <2> QED BY <2>2, <1>3, <1>4, <1>5, Text
  <1> QED BY <1>5, <1>6 DEF s, of

(* What a call for a cryptogram finds out, and what it leaves.             *)
LEMMA ArqcAnswers ==
  ASSUME NEW b, Keyed(b), NEW key \in Mapped, NEW alg, NEW of, NEW arqc, NEW resp,
         NEW prev
  PROVE  LET call == Call("verify_auth_request_cryptogram", <<key>>, alg, of, arqc, resp, 0)
             genuine == arqc = Datum("arqc", b[key], Derivation(alg), of, 16)
         IN
         /\ \A o : Passes(call, b, prev, o) =>
              /\ genuine /\ of[1] # "OptionB"
              /\ o = IF resp = <<>> THEN Nothing
                     ELSE Datum("arpc", b[key], Derivation(alg), of \o resp, 16)
         /\ Mismatches(call, b, prev) \/ Rejects(call, b, prev) =>
              ~genuine \/ of[1] = "OptionB"
PROOF
  <1> DEFINE call == Call("verify_auth_request_cryptogram", <<key>>, alg, of, arqc, resp, 0)
             g == Datum("arqc", b[key], Derivation(alg), of, 16)
             a == Datum("arpc", b[key], Derivation(alg), of \o resp, 16)
             rs == Results(call, KeysUnder(b, call), prev)
  <1>1. /\ call.op = "verify_auth_request_cryptogram" /\ call.alg = alg /\ call.of = of
        /\ call.datum = arqc /\ call.block = resp /\ call.refs = <<key>>
    BY DEF Call
  <1>2. KeysUnder(b, call)[1] = b[key]
    BY <1>1, Tuples DEF KeysUnder
  <1> HIDE DEF call
  <1>3. rs = VerifyArqc(call, KeysUnder(b, call))
    BY <1>1 DEF Results
  <1>4. rs = IF of[1] = "OptionB" THEN {Rejected}
             ELSE IF arqc # g THEN {Mismatch}
             ELSE IF resp = <<>> THEN {Ok(Nothing)} ELSE {Ok(a)}
    BY <1>1, <1>2, <1>3, Zenon DEF VerifyArqc
  <1>5. \A o : Left(call, o) = o /\ Agrees(call, o)
    BY <1>1 DEF Left, Kept, Agrees
  <1> HIDE DEF g, a, rs
  <1>6. \A o : Passes(call, b, prev, o) <=> Ok(o) \in rs
    <2>1. ASSUME NEW o, Passes(call, b, prev, o) PROVE Ok(o) \in rs
      <3>1. PICK res \in rs : res.v = "ok" /\ o = res.out
        BY <2>1, <1>5 DEF Passes, rs
      <3>2. res \in {Rejected, Mismatch, Ok(Nothing), Ok(a)}
        BY <1>4
      <3>3. res = Ok(o)
        BY <3>1, <3>2 DEF Rejected, Mismatch, Ok
      <3> QED BY <3>3, <3>1
    <2>2. ASSUME NEW o, Ok(o) \in rs PROVE Passes(call, b, prev, o)
      <3>1. Ok(o).v = "ok" /\ Ok(o).out = o
        BY DEF Ok
      <3> QED BY <2>2, <3>1, <1>5 DEF Passes, rs
    <2> QED BY <2>1, <2>2
  <1>7. Mismatches(call, b, prev) \/ Rejects(call, b, prev) =>
          \E res \in rs : res.v # "ok"
    BY <1>5 DEF Mismatches, Rejects, Rejected, rs
  <1>8. \A x : Ok(x).v = "ok" /\ Ok(x) # Rejected /\ Ok(x) # Mismatch
    BY DEF Ok, Rejected, Mismatch
  <1>9. \A x, y : Ok(x) = Ok(y) => x = y
    BY DEF Ok
  <1>10. ASSUME NEW o, Passes(call, b, prev, o)
         PROVE  /\ arqc = g /\ of[1] # "OptionB"
                /\ o = IF resp = <<>> THEN Nothing ELSE a
    <2>1. Ok(o) \in rs
      BY <1>6, <1>10
    <2> QED BY <2>1, <1>4, <1>8, <1>9
  <1>11. ASSUME Mismatches(call, b, prev) \/ Rejects(call, b, prev)
         PROVE  arqc # g \/ of[1] = "OptionB"
    BY <1>4, <1>7, <1>8, <1>11
  <1> QED BY <1>10, <1>11, Zenon DEF call, g, a

-------------------------------------------------------------------------------
(* The one call of a cryptogram command, in the terms of the card.         *)
Response(r) ==
  IF r.cmd \in {"KQ", "KW", "JS"} /\ r.mode # "0" THEN <<r.mode, r.arc>> ELSE <<>>

ArqcCall(r) ==
  Call("verify_auth_request_cryptogram", <<r.key>>, BrandOf(r),
       CardData(BrandOf(r), kw_option[r.deriv], r, r.txn), r.arqc, Response(r), 0)

(* The handlers' tables are the manual's schemes.                          *)
LEMMA SchemeBrands ==
  /\ \A s \in DOMAIN kq_session : kq_session[s] \in Brands
  /\ \A s \in DOMAIN kw_session : kw_session[s] \in Brands
  /\ \A r : r.cmd = "KQ" /\ r.scheme \in DOMAIN kq_session => BrandOf(r) = kq_session[r.scheme]
  /\ \A r : r.cmd = "KW" /\ r.scheme \in DOMAIN kw_session => BrandOf(r) = kw_session[r.scheme]
  /\ DOMAIN kw_option = {"A", "B"}
  /\ kw_option["A"] = "OptionA" /\ kw_option["B"] = "OptionB"
PROOF BY DEF kq_session, kw_session, kw_option, Brands, BrandOf

(* The handler's call is the one that the card's data asks for.            *)
LEMMA ArqcShape ==
  ASSUME NEW r, CardFrame(r), r.cmd \in ArqcCommands, CardProgram(r).calls # <<>>
  PROVE  /\ CardProgram(r).calls = <<ArqcCall(r)>>
         /\ r.key \in Mapped /\ BrandOf(r) \in Brands /\ r.deriv \in {"A", "B"}
PROOF
  <1> DEFINE calls == CardProgram(r).calls
             z == [r EXCEPT !.mode = "0"]
  <1>1. r \in CardFrameFields /\ (r.cmd # "KW" => r.deriv = "A")
    BY DEF CardFrame
  <1>2. "OptionA" \in STRING /\ "OptionB" \in STRING
    BY LiteralsAssumption
  <1>3. /\ z.mode = "0" /\ z.key = r.key /\ z.txn = r.txn
        /\ z.arqc = r.arqc /\ z.pan = r.pan /\ z.atc = r.atc /\ z.un = r.un
    BY <1>1 DEF CardFrameFields
  <1> HIDE DEF z
  <1>4. ASSUME NEW option \in STRING, NEW brand \in Brands
        PROVE  /\ verify_arqc(r, option, brand) =
                    <<Call("verify_auth_request_cryptogram", <<r.key>>, brand,
                           CardData(brand, option, r, r.txn), r.arqc,
                           IF r.mode = "0" THEN <<>> ELSE <<r.mode, r.arc>>, 0)>>
               /\ verify_arqc(z, option, brand) =
                    <<Call("verify_auth_request_cryptogram", <<r.key>>, brand,
                           CardData(brand, option, r, r.txn), r.arqc, <<>>, 0)>>
    <2>1. build_session_key(brand, z) = build_session_key(brand, r)
      BY <1>3 DEF build_session_key
    <2>2. <<option>> \o build_session_key(brand, r) \o emv_pad(r.txn)
            = CardData(brand, option, r, r.txn)
      BY <1>1, <1>4, SessionIsCards
    <2>3. build_arpc_attrs(r) = IF r.mode = "0" THEN <<>> ELSE <<r.mode, r.arc>>
      BY DEF build_arpc_attrs
    <2>4. build_arpc_attrs(z) = <<>>
      BY <1>3 DEF build_arpc_attrs
    <2> QED BY <2>1, <2>2, <2>3, <2>4, <1>3, Zenon DEF verify_arqc
  <1>5. CASE r.cmd = "KQ"
    <2>1. calls = KQ(r).calls
      BY <1>5, CardDispatch, Zenon
    <2>2. KqGuard(r) /\ calls = verify_arqc(r, "OptionA", kq_session[r.scheme])
      BY <2>1, ArqcPlans, Zenon
    <2>3. BrandOf(r) = kq_session[r.scheme] /\ BrandOf(r) \in Brands
      BY <2>2, <1>5, SchemeBrands DEF KqGuard
    <2>4. r.deriv = "A" /\ kw_option[r.deriv] = "OptionA"
      BY <1>1, <1>5, SchemeBrands
    <2>5. Response(r) = IF r.mode = "0" THEN <<>> ELSE <<r.mode, r.arc>>
      BY <1>5 DEF Response
    <2>6. calls = <<ArqcCall(r)>>
      BY <2>2, <2>3, <2>4, <2>5, <1>2, <1>4, Zenon DEF ArqcCall
    <2> QED BY <2>2, <2>3, <2>4, <2>6 DEF KqGuard
  <1>6. CASE r.cmd = "KW"
    <2>1. calls = KW(r).calls
      BY <1>6, CardDispatch, Zenon
    <2>2. KwGuard(r) /\ calls = verify_arqc(r, kw_option[r.deriv], kw_session[r.scheme])
      BY <2>1, ArqcPlans, Zenon
    <2>3. BrandOf(r) = kw_session[r.scheme] /\ BrandOf(r) \in Brands
      BY <2>2, <1>6, SchemeBrands DEF KwGuard
    <2>4. r.deriv \in {"A", "B"}
      BY <2>2, SchemeBrands DEF KwGuard
    <2>5. kw_option[r.deriv] \in STRING
      BY <2>4, <1>2, SchemeBrands, Zenon
    <2>6. Response(r) = IF r.mode = "0" THEN <<>> ELSE <<r.mode, r.arc>>
      BY <1>6 DEF Response
    <2>7. calls = <<ArqcCall(r)>>
      BY <2>2, <2>3, <2>5, <2>6, <1>4, Zenon DEF ArqcCall
    <2> QED BY <2>2, <2>3, <2>4, <2>7 DEF KwGuard
  <1>7. CASE r.cmd = "JS"
    <2>1. calls = JS(r).calls
      BY <1>7, CardDispatch, Zenon
    <2>2. JsGuard(r) /\ calls = verify_arqc(r, "OptionA", "UnionPay")
      BY <2>1, ArqcPlans, Zenon
    <2>3. BrandOf(r) = "UnionPay" /\ BrandOf(r) \in Brands
      BY <1>7 DEF BrandOf, Brands
    <2>4. r.deriv = "A" /\ kw_option[r.deriv] = "OptionA"
      BY <1>1, <1>7, SchemeBrands
    <2>5. Response(r) = IF r.mode = "0" THEN <<>> ELSE <<r.mode, r.arc>>
      BY <1>7 DEF Response
    <2>6. calls = <<ArqcCall(r)>>
      BY <2>2, <2>3, <2>4, <2>5, <1>2, <1>4, Zenon DEF ArqcCall
    <2> QED BY <2>2, <2>3, <2>4, <2>6 DEF JsGuard
  <1>8. CASE r.cmd \in {"K2", "KS"}
    <2>1. calls = IF r.cmd = "K2" THEN K2(r).calls ELSE KS(r).calls
      BY <1>8, CardDispatch
    <2>2. BrandOf(r) = (IF r.cmd = "K2" THEN "Mastercard" ELSE "Emv2000")
      BY <1>8 DEF BrandOf
    <2>3. CapGuard(r) /\ calls = verify_arqc(z, "OptionA", BrandOf(r))
      BY <2>1, <2>2, ArqcPlans, Zenon DEF z
    <2>4. BrandOf(r) \in Brands
      BY <2>2 DEF Brands
    <2>5. r.deriv = "A" /\ kw_option[r.deriv] = "OptionA"
      BY <1>1, <1>8, SchemeBrands
    <2>6. Response(r) = <<>>
      BY <1>8 DEF Response
    <2>7. calls = <<ArqcCall(r)>>
      BY <2>3, <2>4, <2>5, <2>6, <1>2, <1>4, Zenon DEF ArqcCall
    <2> QED BY <2>3, <2>4, <2>5, <2>7 DEF CapGuard
  <1> QED BY <1>5, <1>6, <1>7, <1>8 DEF ArqcCommands

(* What CW leaves, and what CY finds out.                                  *)
LEMMA CvvAnswers ==
  ASSUME NEW b, Keyed(b), NEW key \in Mapped, NEW of, NEW cvv, NEW prev
  PROVE  LET gen == Call("generate_card_validation_data", <<key>>, "CVV1", of,
                         Nothing, <<>>, 0)
             ver == Call("verify_card_validation_data", <<key>>, "CVV1", of,
                         cvv, <<>>, 0)
             made == Datum("cvv", b[key], "CVV1", of, 3)
         IN
         /\ \A o : Passes(gen, b, prev, o) => o = made
         /\ \A o : Passes(ver, b, prev, o) => o = Nothing /\ cvv = made
         /\ Mismatches(ver, b, prev) \/ Rejects(ver, b, prev) => cvv # made
PROOF
  <1> DEFINE gen == Call("generate_card_validation_data", <<key>>, "CVV1", of,
                         Nothing, <<>>, 0)
             ver == Call("verify_card_validation_data", <<key>>, "CVV1", of,
                         cvv, <<>>, 0)
             made == Datum("cvv", b[key], "CVV1", of, 3)
  <1>1. /\ gen.op = "generate_card_validation_data" /\ gen.alg = "CVV1" /\ gen.of = of
        /\ gen.refs = <<key>>
    BY DEF Call
  <1>2. /\ ver.op = "verify_card_validation_data" /\ ver.alg = "CVV1" /\ ver.of = of
        /\ ver.datum = cvv /\ ver.refs = <<key>>
    BY DEF Call
  <1>3. KeysUnder(b, gen)[1] = b[key] /\ KeysUnder(b, ver)[1] = b[key]
    BY <1>1, <1>2, Tuples DEF KeysUnder
  <1> HIDE DEF gen, ver
  <1>4. Results(gen, KeysUnder(b, gen), prev) = {Ok(made)}
    BY <1>1, <1>3 DEF Results
  <1>5. Results(ver, KeysUnder(b, ver), prev) = Verdict(cvv = made)
    BY <1>2, <1>3 DEF Results, Verdict
  <1>6. \A o : /\ Left(gen, o) = o /\ Left(ver, o) = o
               /\ Agrees(gen, o) /\ Agrees(ver, o)
    BY <1>1, <1>2 DEF Left, Kept, Agrees
  <1> HIDE DEF made
  <1>7. ASSUME NEW o, Passes(gen, b, prev, o) PROVE o = made
    BY <1>4, <1>6, <1>7 DEF Passes, Ok
  <1>8. ASSUME NEW o, Passes(ver, b, prev, o) PROVE o = Nothing /\ cvv = made
    BY <1>5, <1>6, <1>8 DEF Passes, Verdict, Ok, Mismatch
  <1>9. ASSUME Mismatches(ver, b, prev) \/ Rejects(ver, b, prev) PROVE cvv # made
    BY <1>5, <1>6, <1>9 DEF Mismatches, Rejects, Verdict, Ok, Rejected
  <1> QED BY <1>7, <1>8, <1>9, Zenon DEF gen, ver, made

(* The data that cardholders' traffic stays within: a reference value is   *)
(* of some PIN, nobody chooses for a PIN what a decryption under a wrong   *)
(* key or format produces, and a verification value has four digits.       *)
OfSomePin(d) ==
  /\ d.kind \in {"offset", "pvv"} => d.of # <<>> /\ PinOf(d) # Garbled[1]
  /\ d.kind = "pvv" => d.len = 4

CardholderData == {d \in Data : OfSomePin(d)}

(* The answers of the card commands stay within it.                        *)
LEMMA CardCloses ==
  ASSUME NEW r, CardFrame(r)
  PROVE  Closes(CardProgram(r).calls, CardholderData)
PROOF
  <1> DEFINE calls == CardProgram(r).calls
             D == CardholderData
  <1>1. r \in CardFrameFields /\ r.cmd \in CardCommands
    BY DEF CardFrame, CardFrameFields
  <1>2. ASSUME NEW kind \in STRING, kind \notin {"offset", "pvv"}, NEW k \in Keys,
               NEW alg \in STRING, NEW of \in Seq(STRING), NEW n \in Nat
        PROVE  Datum(kind, k, alg, of, n) \in D
    BY <1>2 DEF CardholderData, OfSomePin, Data, Datum
  <1> HIDE DEF D
  <1>3. \A b, key : Keyed(b) /\ key \in Mapped => b[key] \in Keys
    BY DEF Keyed
  <1>4. 3 \in Nat /\ 16 \in Nat
    OBVIOUS
  <1>5. CASE r.cmd = "CW" /\ calls # <<>>
    <2> DEFINE of == read_expiry_service(r)
               call == Call("generate_card_validation_data", <<r.key>>, "CVV1", of,
                            Nothing, <<>>, 0)
    <2>1. calls = CW(r).calls
      BY <1>5, CardDispatch, Zenon
    <2>2. CvvGuard(r) /\ calls = <<call>>
      BY <2>1, <1>5, CvvPlans, Zenon
    <2>3. r.key \in Mapped
      BY <2>2 DEF CvvGuard
    <2>4. of \in Seq(STRING)
      <3>1. r.pan \in STRING /\ r.expiry \in STRING /\ r.service \in STRING
        BY <1>1 DEF CardFrameFields
      <3> QED BY <3>1, Text DEF read_expiry_service
    <2> HIDE DEF of
    <2>5. "cvv" \in STRING /\ "CVV1" \in STRING
      BY LiteralsAssumption
    <2>6. "cvv" \notin {"offset", "pvv"}
      OBVIOUS
    <2>7. ASSUME NEW b, NEW o, Keyed(b), Passes(call, b, Nothing, o) PROVE o \in D
      <3>1. o = Datum("cvv", b[r.key], "CVV1", of, 3)
        BY <2>3, <2>7, CvvAnswers, Zenon
      <3>2. b[r.key] \in Keys
        BY <2>3, <2>7, <1>3
      <3> QED BY <3>1, <3>2, <2>4, <2>5, <2>6, <1>2, <1>4, Zenon
    <2> HIDE DEF call
    <2> QED BY <2>2, <2>7, Zenon DEF Closes, D
  <1>6. CASE r.cmd = "CY" /\ calls # <<>>
    <2> DEFINE of == read_expiry_service(r)
               call == Call("verify_card_validation_data", <<r.key>>, "CVV1", of,
                            r.cvv, <<>>, 0)
    <2>1. calls = CY(r).calls
      BY <1>6, CardDispatch, Zenon
    <2>2. CvvGuard(r) /\ calls = <<call>>
      BY <2>1, <1>6, CvvPlans, Zenon
    <2>3. r.key \in Mapped
      BY <2>2 DEF CvvGuard
    <2> HIDE DEF of
    <2>4. ASSUME NEW b, NEW o, Keyed(b), Passes(call, b, Nothing, o) PROVE o = Nothing
      BY <2>3, <2>4, CvvAnswers, Zenon
    <2> HIDE DEF call
    <2>5. \A b, o : Keyed(b) /\ Passes(call, b, Nothing, o) => o \in D \cup {Nothing}
      BY <2>4
    <2> QED BY <2>2, <2>5, Zenon DEF Closes, D
  <1>7. CASE r.cmd \in ArqcCommands /\ calls # <<>>
    <2> DEFINE call == ArqcCall(r)
               of == CardData(BrandOf(r), kw_option[r.deriv], r, r.txn)
    <2>1. /\ calls = <<call>> /\ r.key \in Mapped /\ BrandOf(r) \in Brands
          /\ r.deriv \in {"A", "B"}
      BY <1>7, ArqcShape, Zenon
    <2>2. Derivation(BrandOf(r)) \in STRING
      <3>1. Brands \subseteq STRING
        BY LiteralsAssumption, Zenon DEF Brands
      <3>2. "Emv2000" \in Brands
        BY DEF Brands
      <3> QED BY <2>1, <3>1, <3>2, Zenon DEF Derivation
    <2>3. kw_option[r.deriv] \in STRING
      <3>1. "OptionA" \in STRING /\ "OptionB" \in STRING
        BY LiteralsAssumption
      <3> QED BY <2>1, <3>1, SchemeBrands, Zenon
    <2>4. of \in Seq(STRING)
      BY <1>1, <2>1, <2>3, SessionIsCards
    <2> HIDE DEF of
    <2>5. "arpc" \in STRING
      BY LiteralsAssumption
    <2>6. "arpc" \notin {"offset", "pvv"}
      OBVIOUS
    <2>7. of \o Response(r) \in Seq(STRING)
      <3>1. r.mode \in STRING /\ r.arc \in STRING
        BY <1>1 DEF CardFrameFields
      <3>2. <<r.mode, r.arc>> \in Seq(STRING)
        BY <3>1, Text
      <3>3. <<>> \in Seq(STRING)
        OBVIOUS
      <3>4. Response(r) \in Seq(STRING)
        BY <3>2, <3>3, Zenon DEF Response
      <3> QED BY <2>4, <3>4, Text
    <2>8. ASSUME NEW b, NEW o, Keyed(b), Passes(call, b, Nothing, o)
          PROVE  o \in D \cup {Nothing}
      <3> DEFINE a == Datum("arpc", b[r.key], Derivation(BrandOf(r)), of \o Response(r), 16)
      <3>1. o = IF Response(r) = <<>> THEN Nothing ELSE a
        <4> DEFINE key == r.key
                   brand == BrandOf(r)
                   resp == Response(r)
                   arqc == r.arqc
        <4>1. /\ Passes(Call("verify_auth_request_cryptogram", <<key>>, brand, of, arqc,
                             resp, 0), b, Nothing, o)
              /\ key \in Mapped /\ Keyed(b)
          BY <2>1, <2>8, Zenon DEF ArqcCall, of
        <4> HIDE DEF key, brand, resp, arqc
        <4>2. o = IF resp = <<>> THEN Nothing
                  ELSE Datum("arpc", b[key], Derivation(brand), of \o resp, 16)
          BY <4>1, ArqcAnswers, Zenon
        <4> QED BY <4>2, Zenon DEF key, brand, resp
      <3>2. b[r.key] \in Keys
        BY <2>1, <2>8, <1>3
      <3>3. a \in D
        BY <3>2, <2>2, <2>5, <2>6, <2>7, <1>2, <1>4, Zenon
      <3> HIDE DEF a
      <3> QED BY <3>1, <3>3
    <2> HIDE DEF call
    <2> QED BY <2>1, <2>8, Zenon DEF Closes, D
  <1>8. CASE r.cmd \in GatedCards
    <2>1. CardProgram(r) = Plan(<<Unsupported(TRUE)>>, <<>>)
      BY <1>8, CardDispatch, Zenon
    <2>2. calls = <<>>
      BY <2>1 DEF Plan
    <2> QED BY <2>2, Zenon DEF Closes
  <1>9. CASE calls = <<>>
    BY <1>9, Zenon DEF Closes
  <1> QED BY <1>1, <1>5, <1>6, <1>7, <1>8, <1>9 DEF CardCommands, ArqcCommands

-------------------------------------------------------------------------------
(* The plans of the PIN commands.                                          *)
KeysGuard(r) == r.key \in Mapped /\ r.key2 \in Mapped

FormatGuard(r) == r.wire /\ KeysGuard(r) /\ r.fmt \in DOMAIN map_pin_block_format

CkGuard(r) == r.table = "digits" /\ r.wire /\ KeysGuard(r)

GoGuard(r) ==
  /\ r.mode # "1" /\ r.mode \in {"0", "2"} /\ r.wire /\ r.nibbles \in {20, 24}
  /\ r.fmt # "04" /\ r.fmt \in DOMAIN map_pin_block_format /\ r.table = "digits"
  /\ KeysGuard(r)

TranslatedFormat(f) == f \notin {"04", "48"} /\ f \in DOMAIN map_translate_format

TranslateGuard(r, has_dest_flag) ==
  /\ ~(has_dest_flag /\ r.flag \in {"*", "~"}) /\ r.wire
  /\ TranslatedFormat(r.fmt) /\ TranslatedFormat(r.fmt2) /\ KeysGuard(r)

(* Changes and checks of one format make their calls with both keys.       *)
LEMMA FormatPlans ==
  ASSUME NEW r
  PROVE  LET fmt == map_pin_block_format[r.fmt]
             offset == VerifyPinData(r, fmt, <<r.acct>>, OffsetOf(r), TrimF(r.ref))
             pvv == VerifyPinData(r, fmt, <<r.acct>>, PvvOf(r), r.ref)
         IN
         /\ DU(r).calls =
              IF FormatGuard(r)
              THEN <<offset, GeneratePinData(r, fmt, OffsetOf(r), NewOffset, 12)>> ELSE <<>>
         /\ CU(r).calls =
              IF FormatGuard(r)
              THEN <<pvv, GeneratePinData(r, fmt, PvvOf(r), NewPvv, 4)>> ELSE <<>>
         /\ handle_ibm(r).calls = IF FormatGuard(r) THEN <<offset>> ELSE <<>>
         /\ handle_visa(r).calls = IF FormatGuard(r) THEN <<pvv>> ELSE <<>>
PROOF
  <1>1. "15" \in Errors
    BY Codes
  <1>2. "23" \in Errors
    BY Codes
  <1> DEFINE w == <<Malformed(~r.wire)>>
             k == BothKeys(r)
             f == FormatRefusal(r)
             rs == w \o k \o f
  <1>3. Refusals(w) /\ (Clears(w) <=> r.wire)
    BY <1>1, Refuse1, Zenon DEF Malformed
  <1>4. Refusals(k) /\ (Clears(k) <=> KeysGuard(r))
    BY KeyRefusals DEF KeysGuard
  <1>5. Refusals(f) /\ (Clears(f) <=> r.fmt \in DOMAIN map_pin_block_format)
    BY <1>2, Refuse1, Zenon DEF FormatRefusal, BadFormat
  <1> HIDE DEF w, k, f
  <1>6. Refusals(w \o k) /\ (Clears(w \o k) <=> r.wire /\ KeysGuard(r))
    BY <1>3, <1>4, RefusalsJoin
  <1>7. Refusals(rs) /\ (Clears(rs) <=> FormatGuard(r))
    BY <1>5, <1>6, RefusalsJoin DEF FormatGuard
  <1> HIDE DEF rs
  <1>8. \A calls : Plan(rs, calls).calls = IF FormatGuard(r) THEN calls ELSE <<>>
    BY <1>7, PlanOf
  <1> QED BY <1>8, Zenon
          DEF DU, CU, handle_ibm, handle_visa, parse_du, parse_cu, parse_ibm, parse_visa,
              rs, w, k, f

(* The checks of DUKPT blocks.                                             *)
LEMMA DukptPlans ==
  ASSUME NEW r
  PROVE  /\ CK(r).calls =
              IF CkGuard(r)
              THEN <<VerifyPinData(r, "ISO0", <<r.ksn, r.acct>>, OffsetOf(r), TrimF(r.ref))>>
              ELSE <<>>
         /\ GO(r).calls =
              IF GoGuard(r)
              THEN <<VerifyPinData(r, map_pin_block_format[r.fmt], <<r.ksn, r.acct>>,
                                   OffsetOf(r), TrimF(r.ref))>>
              ELSE <<>>
PROOF
  <1>1. "15" \in Errors
    BY Codes
  <1>2. "23" \in Errors
    BY Codes
  <1>3. "68" \in Errors
    BY Codes
  <1> DEFINE tw == <<Malformed(r.table # "digits"), Malformed(~r.wire)>>
             k == BothKeys(r)
             w == <<Malformed(~r.wire)>>
             n == parse_ksn_with_descriptor(r)
             f1 == <<Unsupported(r.fmt = "04")>>
             f2 == FormatRefusal(r)
             t == <<Malformed(r.table # "digits")>>
  <1>4. Refusals(tw) /\ (Clears(tw) <=> r.table = "digits" /\ r.wire)
    BY Malformed2, Zenon
  <1>5. Refusals(k) /\ (Clears(k) <=> KeysGuard(r))
    BY KeyRefusals DEF KeysGuard
  <1>8. Refusals(w) /\ (Clears(w) <=> r.wire)
    BY <1>1, Refuse1, Zenon DEF Malformed
  <1>9. Refusals(n) /\ (Clears(n) <=> r.nibbles \in {20, 24})
    BY <1>1, Refuse1, Zenon DEF Malformed, parse_ksn_with_descriptor
  <1>10. Refusals(f1) /\ (Clears(f1) <=> r.fmt # "04")
    BY <1>3, Refuse1, Zenon DEF Unsupported
  <1>11. Refusals(f2) /\ (Clears(f2) <=> r.fmt \in DOMAIN map_pin_block_format)
    BY <1>2, Refuse1, Zenon DEF FormatRefusal, BadFormat
  <1>12. Refusals(t) /\ (Clears(t) <=> r.table = "digits")
    BY <1>1, Refuse1, Zenon DEF Malformed
  <1>13. /\ Refusals(parse_mode(r))
         /\ Clears(parse_mode(r)) <=> r.mode # "1" /\ r.mode \in {"0", "2"}
    <2> DEFINE x == r.mode = "1"
               y == r.mode \notin {"0", "2"}
    <2>1. parse_mode(r) = <<Refuse(x, "68"), Refuse(y, "15")>>
      BY Zenon DEF parse_mode, Unsupported, Malformed
    <2>2. r.mode # "1" /\ r.mode \in {"0", "2"} <=> ~x /\ ~y
      BY Zenon
    <2> HIDE DEF x, y
    <2> DEFINE l == <<Refuse(x, "68"), Refuse(y, "15")>>
    <2>3. Refusals(l) /\ (Clears(l) <=> ~x /\ ~y)
      BY <1>1, <1>3, Refuse2, Zenon
    <2> HIDE DEF l
    <2> QED BY <2>1, <2>2, <2>3 DEF l
  <1>14. map_dukpt_format(r) = f1 \o f2
    BY Zenon DEF map_dukpt_format
  <1> HIDE DEF tw, k, w, n, f1, f2, t
  <1> DEFINE m == parse_mode(r)
             f == f1 \o f2
             p1 == m \o w
             p2 == p1 \o n
             p3 == p2 \o f
             p == p3 \o t
  <1>15. Refusals(m) /\ (Clears(m) <=> r.mode # "1" /\ r.mode \in {"0", "2"})
    BY <1>13
  <1>16. /\ Refusals(f)
         /\ Clears(f) <=> r.fmt # "04" /\ r.fmt \in DOMAIN map_pin_block_format
    BY <1>10, <1>11, RefusalsJoin
  <1> HIDE DEF m, f
  <1>17. Refusals(p1) /\ (Clears(p1) <=> Clears(m) /\ Clears(w))
    BY <1>8, <1>15, RefusalsJoin
  <1> HIDE DEF p1
  <1>18. Refusals(p2) /\ (Clears(p2) <=> Clears(p1) /\ Clears(n))
    BY <1>9, <1>17, RefusalsJoin
  <1> HIDE DEF p2
  <1>19. Refusals(p3) /\ (Clears(p3) <=> Clears(p2) /\ Clears(f))
    BY <1>16, <1>18, RefusalsJoin
  <1> HIDE DEF p3
  <1>20. Refusals(p) /\ (Clears(p) <=> Clears(p3) /\ Clears(t))
    BY <1>12, <1>19, RefusalsJoin
  <1>21. parse_go(r) = p
    BY <1>14, Zenon DEF parse_go, p, p3, p2, p1, m, f, w, n, t
  <1> HIDE DEF p
  <1>22. Refusals(p \o k) /\ (Clears(p \o k) <=> GoGuard(r))
    <2>1. Refusals(p \o k) /\ (Clears(p \o k) <=> Clears(p) /\ Clears(k))
      BY <1>5, <1>20, RefusalsJoin
    <2> QED BY <2>1, <1>5, <1>8, <1>9, <1>12, <1>15, <1>16, <1>17, <1>18, <1>19, <1>20
            DEF GoGuard
  <1>23. Refusals(tw \o k) /\ (Clears(tw \o k) <=> CkGuard(r))
    BY <1>4, <1>5, RefusalsJoin DEF CkGuard
  <1>24. \A calls : /\ Plan(p \o k, calls).calls = IF GoGuard(r) THEN calls ELSE <<>>
                    /\ Plan(tw \o k, calls).calls = IF CkGuard(r) THEN calls ELSE <<>>
    <2>1. \A calls : Plan(p \o k, calls).calls = IF GoGuard(r) THEN calls ELSE <<>>
      BY <1>22, PlanOf
    <2>2. \A calls : Plan(tw \o k, calls).calls = IF CkGuard(r) THEN calls ELSE <<>>
      BY <1>23, PlanOf
    <2> QED BY <2>1, <2>2
  <1>25. CK(r).calls =
           IF CkGuard(r)
           THEN <<VerifyPinData(r, "ISO0", <<r.ksn, r.acct>>, OffsetOf(r), TrimF(r.ref))>>
           ELSE <<>>
    BY <1>24, Zenon DEF CK, tw, k
  <1>26. GO(r).calls =
           IF GoGuard(r)
           THEN <<VerifyPinData(r, map_pin_block_format[r.fmt], <<r.ksn, r.acct>>,
                                OffsetOf(r), TrimF(r.ref))>>
           ELSE <<>>
    BY <1>21, <1>24, Zenon DEF GO, k
  <1> QED BY <1>25, <1>26

(* The translations.                                                       *)
LEMMA TranslatePlans ==
  ASSUME NEW r
  PROVE  /\ CC(r).calls = IF TranslateGuard(r, FALSE) THEN Translate(r) ELSE <<>>
         /\ CA(r).calls = IF TranslateGuard(r, TRUE) THEN Translate(r) ELSE <<>>
PROOF
  <1>1. "15" \in Errors
    BY Codes
  <1>2. "23" \in Errors
    BY Codes
  <1>3. "68" \in Errors
    BY Codes
  <1>4. ASSUME NEW g
        PROVE  /\ Refusals(TranslateFormatRefusals(g))
               /\ Clears(TranslateFormatRefusals(g)) <=> TranslatedFormat(g)
    <2> DEFINE x == g \in {"04", "48"}
               y == g \notin DOMAIN map_translate_format
    <2>1. TranslateFormatRefusals(g) = <<Refuse(x, "68"), Refuse(y, "23")>>
      BY Zenon DEF TranslateFormatRefusals, Unsupported, BadFormat
    <2>2. TranslatedFormat(g) <=> ~x /\ ~y
      BY DEF TranslatedFormat
    <2> HIDE DEF x, y
    <2> DEFINE l == <<Refuse(x, "68"), Refuse(y, "23")>>
    <2>3. Refusals(l) /\ (Clears(l) <=> ~x /\ ~y)
      BY <1>2, <1>3, Refuse2, Zenon
    <2> HIDE DEF l
    <2> QED BY <2>1, <2>2, <2>3 DEF l
  <1> DEFINE k == BothKeys(r)
             f == TranslateFormatRefusals(r.fmt)
             g == TranslateFormatRefusals(r.fmt2)
  <1>5. Refusals(k) /\ (Clears(k) <=> KeysGuard(r))
    BY KeyRefusals DEF KeysGuard
  <1>6. /\ Refusals(f) /\ (Clears(f) <=> TranslatedFormat(r.fmt))
        /\ Refusals(g) /\ (Clears(g) <=> TranslatedFormat(r.fmt2))
    BY <1>4
  <1>7. ASSUME NEW flag \in BOOLEAN
        PROVE  \A calls : Plan(parse_translate(r, flag) \o k, calls).calls =
                            IF TranslateGuard(r, flag) THEN calls ELSE <<>>
    <2> DEFINE h == <<Unsupported(flag /\ r.flag \in {"*", "~"}), Malformed(~r.wire)>>
               hf == h \o f
               p == hf \o g
    <2>1. Refusals(h) /\ (Clears(h) <=> ~(flag /\ r.flag \in {"*", "~"}) /\ r.wire)
      BY <1>1, <1>3, Refuse2, Zenon DEF Malformed, Unsupported
    <2>2. parse_translate(r, flag) = p
      BY Zenon DEF parse_translate
    <2> HIDE DEF h, k, f, g
    <2>3. Refusals(hf) /\ (Clears(hf) <=> Clears(h) /\ Clears(f))
      BY <2>1, <1>6, RefusalsJoin
    <2> HIDE DEF hf
    <2>4. Refusals(p) /\ (Clears(p) <=> Clears(hf) /\ Clears(g))
      BY <2>3, <1>6, RefusalsJoin
    <2> HIDE DEF p
    <2>5. Refusals(p \o k) /\ (Clears(p \o k) <=> TranslateGuard(r, flag))
      <3>1. Refusals(p \o k) /\ (Clears(p \o k) <=> Clears(p) /\ Clears(k))
        BY <2>4, <1>5, RefusalsJoin
      <3> QED BY <3>1, <2>1, <2>3, <2>4, <1>5, <1>6 DEF TranslateGuard
    <2> QED BY <2>2, <2>5, PlanOf
  <1>8. CC(r).calls = IF TranslateGuard(r, FALSE) THEN Translate(r) ELSE <<>>
    BY <1>7, Zenon DEF CC
  <1>9. CA(r).calls = IF TranslateGuard(r, TRUE) THEN Translate(r) ELSE <<>>
    BY <1>7, Zenon DEF CA
  <1> QED BY <1>8, <1>9

-------------------------------------------------------------------------------
(* The last piece of what a datum is made of.                              *)
LEMMA LastPiece ==
  ASSUME NEW S, NEW s \in Seq(S), NEW x
  PROVE  /\ Append(s, x) # <<>>
         /\ \A d : d.of = Append(s, x) => PinOf(d) = x /\ d.of # <<>>
PROOF
  <1>1. IsSeq(s)
    BY DEF IsSeq
  <1> DEFINE u == Append(s, x)
  <1>2. Len(u) = Len(s) + 1 /\ Len(s) \in Nat /\ u[Len(s) + 1] = x
    BY <1>1, AppendLength, AppendEntries
  <1> HIDE DEF u
  <1>3. u # <<>> /\ u[Len(u)] = x
    BY <1>2, EmptyIsSeq
  <1> QED BY <1>3 DEF PinOf, u

(* A datum that is made of something has a last piece.                     *)
LEMMA PieceIsText ==
  ASSUME NEW d \in Data, d.of # <<>> PROVE PinOf(d) \in STRING
PROOF
  <1>1. d.of \in Seq(STRING)
    BY DEF Data
  <1> DEFINE s == d.of
  <1>2. s[Len(s)] \in STRING
    <2>1. s \in Seq(STRING) /\ s # <<>>
      BY <1>1
    <2> HIDE DEF s
    <2>2. \A S : \A u \in Seq(S) : u # <<>> => u[Len(u)] \in S
      OBVIOUS
    <2> QED BY <2>1, <2>2
  <1> QED BY <1>2 DEF PinOf

(* What a block is bound to is text.                                       *)
LEMMA BindingIsText ==
  ASSUME NEW fmt, NEW prefix \in Seq(STRING) PROVE Binding(fmt, prefix) \in Seq(STRING)
PROOF
  <1>1. \A S : \A u \in Seq(S) : SubSeq(u, 1, Len(u) - 1) \in Seq(S)
    OBVIOUS
  <1> QED BY <1>1, Zenon DEF Binding

(* A block is what its fields are, and holds its PIN.                      *)
InBlock(block, key, fmt, prefix) ==
  block = PinBlock(key, fmt, prefix, PinOf(block), block.len)

(* The PIN that the service finds in a block.                              *)
LEMMA PinFound ==
  ASSUME NEW block \in Data, NEW key, NEW fmt, NEW prefix \in Seq(STRING)
  PROVE  /\ PinIn(block, key, fmt, prefix) =
              IF InBlock(block, key, fmt, prefix) THEN PinOf(block) ELSE "garbled"
         /\ PinIn(block, key, fmt, prefix) \in STRING
PROOF
  <1>1. Garbled[1] = "garbled"
    BY Tuples DEF Garbled
  <1>2. PinIn(block, key, fmt, prefix) =
          IF InBlock(block, key, fmt, prefix) THEN PinOf(block) ELSE "garbled"
    BY <1>1, Zenon DEF PinIn, InBlock
  <1>3. ASSUME InBlock(block, key, fmt, prefix) PROVE PinOf(block) \in STRING
    <2>1. block.of = Append(Binding(fmt, prefix), PinOf(block))
      <3> DEFINE of == Append(Binding(fmt, prefix), PinOf(block))
      <3>1. block = Datum("block", key, fmt, of, block.len)
        BY <1>3 DEF InBlock, PinBlock
      <3> HIDE DEF of
      <3>2. block.of = of
        BY <3>1 DEF Datum
      <3> QED BY <3>2 DEF of
    <2>2. block.of # <<>>
      BY <2>1, BindingIsText, LastPiece
    <2> QED BY <2>2, PieceIsText
  <1>4. "garbled" \in STRING
    BY LiteralsAssumption
  <1> QED BY <1>2, <1>3, <1>4

(* The digits that a reference value has.                                  *)
LEMMA DigitsCount ==
  ASSUME NEW d
  PROVE  /\ BareDigits(d) \in Nat /\ BareDigits(d) <= 12
         /\ d.kind = "pvv" => BareDigits(d) = 4
PROOF
  <1>1. ASSUME PinOf(d) \in DOMAIN PinDigits PROVE PinDigits[PinOf(d)] \in 4 .. 12
    BY <1>1, ApcAssumption
  <1> QED BY <1>1 DEF BareDigits

(* Trimming leaves the digits and what they are made of.                   *)
LEMMA Trimmed ==
  ASSUME NEW d \in Data
  PROVE  /\ TrimF(d).key = d.key /\ TrimF(d).of = d.of /\ TrimF(d).kind = d.kind
         /\ TrimF(d).len = BareDigits(TrimF(d)) /\ PinOf(TrimF(d)) = PinOf(d)
PROOF
  <1> DEFINE t == TrimF(d)
  <1>1. t.key = d.key /\ t.of = d.of /\ t.kind = d.kind /\ t.len = BareDigits(d)
    BY DEF TrimF, Data
  <1> HIDE DEF t
  <1>2. PinOf(t) = PinOf(d)
    BY <1>1 DEF PinOf
  <1>3. BareDigits(t) = BareDigits(d)
    BY <1>1, <1>2, Zenon DEF BareDigits
  <1> QED BY <1>1, <1>2, <1>3 DEF t

-------------------------------------------------------------------------------
(* A PIN is right, to a call that is given a block and a reference value.  *)
RightPin(block, ref, key, key2, fmt, prefix, val) ==
  /\ InBlock(block, key, fmt, prefix)
  /\ ref.key = key2 /\ ref.of = Append(val, PinOf(block))

(* verify_pin_data passes the right PIN and no other.                      *)
LEMMA CheckPinAnswers ==
  ASSUME NEW b, Keyed(b), NEW key \in Mapped, NEW key2 \in Mapped, NEW fmt,
         NEW prefix \in Seq(STRING), NEW val \in Seq(STRING), NEW block \in Data,
         NEW ref, ref.len = BareDigits(ref), PinOf(ref) # "garbled", NEW prev
  PROVE  LET call == PinCall("verify_pin_data", <<key, key2>>, fmt, prefix, val, ref,
                             block, 0)
             right == RightPin(block, ref, b[key], b[key2], fmt, prefix, val)
         IN
         /\ \A o : Passes(call, b, prev, o) => o = Nothing /\ right
         /\ Mismatches(call, b, prev) \/ Rejects(call, b, prev) => ~right
PROOF
  <1> DEFINE call == PinCall("verify_pin_data", <<key, key2>>, fmt, prefix, val, ref,
                             block, 0)
             right == RightPin(block, ref, b[key], b[key2], fmt, prefix, val)
             ks == KeysUnder(b, call)
             pin == PinIn(block, b[key], fmt, prefix)
             rs == Results(call, ks, prev)
             same == ref.key = b[key2] /\ ref.of = Append(val, pin)
  <1>1. /\ call.op = "verify_pin_data" /\ call.alg = fmt /\ call.of = prefix
        /\ call.val = val /\ call.datum = ref /\ call.block = block
        /\ call.refs = <<key, key2>>
    BY DEF PinCall
  <1>2. ks[1] = b[key] /\ ks[2] = b[key2]
    BY <1>1, Tuples DEF KeysUnder
  <1> HIDE DEF call, ks
  <1>3. rs = VerifyPin(call, ks)
    BY <1>1 DEF Results
  <1>4. Garbled[1] = "garbled"
    BY Tuples DEF Garbled
  <1>5. rs = IF pin = "garbled" THEN {Mismatch, Rejected} ELSE Verdict(same)
    BY <1>1, <1>2, <1>3, <1>4, Zenon DEF VerifyPin
  <1>6. pin = IF InBlock(block, b[key], fmt, prefix) THEN PinOf(block) ELSE "garbled"
    BY PinFound
  <1>7. right <=> pin # "garbled" /\ same
    <2>1. ASSUME right PROVE pin # "garbled" /\ same
      <3>1. /\ InBlock(block, b[key], fmt, prefix) /\ ref.key = b[key2]
            /\ ref.of = Append(val, PinOf(block)) /\ pin = PinOf(block)
        BY <2>1, <1>6, Zenon DEF RightPin
      <3>2. PinOf(ref) = PinOf(block)
        BY <3>1, LastPiece
      <3> QED BY <3>1, <3>2
    <2>2. ASSUME pin # "garbled", same PROVE right
      BY <2>2, <1>6, Zenon DEF RightPin
    <2> QED BY <2>1, <2>2
  <1>8. \A o : Left(call, o) = o /\ Agrees(call, o)
    BY <1>1 DEF Left, Kept, Agrees
  <1> HIDE DEF right, pin, rs, same
  <1>9. \/ rs = {Mismatch, Rejected} /\ ~right
        \/ rs = {Ok(Nothing)} /\ right
        \/ rs = {Mismatch} /\ ~right
    <2>1. CASE pin = "garbled"
      BY <2>1, <1>5, <1>7, Zenon
    <2>2. CASE pin # "garbled" /\ same
      BY <2>2, <1>5, <1>7, Zenon DEF Verdict
    <2>3. CASE pin # "garbled" /\ ~same
      BY <2>3, <1>5, <1>7, Zenon DEF Verdict
    <2> QED BY <2>1, <2>2, <2>3
  <1>10. ASSUME NEW o, Passes(call, b, prev, o) PROVE o = Nothing /\ right
    <2>1. PICK res \in rs : res.v = "ok" /\ o = res.out
      BY <1>8, <1>10 DEF Passes, rs, ks
    <2> QED BY <2>1, <1>9 DEF Mismatch, Rejected, Ok
  <1>11. ASSUME Mismatches(call, b, prev) \/ Rejects(call, b, prev) PROVE ~right
    <2>1. PICK res \in rs : res.v # "ok"
      BY <1>8, <1>11 DEF Mismatches, Rejects, Rejected, rs, ks
    <2> QED BY <2>1, <1>9 DEF Ok
  <1> QED BY <1>10, <1>11, Zenon DEF call, right

(* Data of another width, or of a least one.                               *)
LEMMA Widened ==
  ASSUME NEW d \in Data, NEW n \in Nat
  PROVE  /\ LET e == [d EXCEPT !.len = n] IN
            e \in Data /\ e.kind = d.kind /\ e.key = d.key /\ e.of = d.of /\ e.len = n
         /\ LET e == [d EXCEPT !.len = IF @ < n THEN n ELSE @] IN
            /\ e \in Data /\ e.kind = d.kind /\ e.key = d.key /\ e.of = d.of
            /\ e.len = IF d.len < n THEN n ELSE d.len
PROOF
  <1>1. LET e == [d EXCEPT !.len = n] IN
        e \in Data /\ e.kind = d.kind /\ e.key = d.key /\ e.of = d.of /\ e.len = n
    BY DEF Data
  <1>2. LET e == [d EXCEPT !.len = IF @ < n THEN n ELSE @] IN
        /\ e \in Data /\ e.kind = d.kind /\ e.key = d.key /\ e.of = d.of
        /\ e.len = IF d.len < n THEN n ELSE d.len
    BY DEF Data
  <1> QED BY <1>1, <1>2, Zenon

(* A new value, and the digits that its field has.                         *)
Fresh(new, n) ==
  new \in {NewOffset, NewPvv} /\ n = IF new = NewOffset THEN 12 ELSE 4

(* generate_pin_data makes a reference value of the PIN that it finds, as  *)
(* wide as its field.                                                      *)
LEMMA MakePinAnswers ==
  ASSUME NEW b, Keyed(b), NEW key \in Mapped, NEW key2 \in Mapped, NEW fmt,
         NEW prefix \in Seq(STRING), NEW val \in Seq(STRING), NEW block \in Data,
         NEW new, NEW n, Fresh(new, n), NEW prev, NEW o,
         Passes(PinCall("generate_pin_data", <<key2, key>>, fmt, prefix, val, new,
                        block, n), b, prev, o)
  PROVE  /\ InBlock(block, b[key], fmt, prefix)
         /\ o.kind = new.kind /\ o.key = b[key2] /\ o.of = Append(val, PinOf(block))
         /\ o.len = n /\ o \in CardholderData
PROOF
  <1> USE DEF Fresh
  <1> DEFINE call == PinCall("generate_pin_data", <<key2, key>>, fmt, prefix, val, new,
                             block, n)
             ks == KeysUnder(b, call)
             pin == PinIn(block, b[key], fmt, prefix)
             rs == Results(call, ks, prev)
             made == [new EXCEPT !.key = b[key2], !.of = Append(val, pin)]
             cut == [made EXCEPT !.len = BareDigits(made)]
  <1>1. /\ call.op = "generate_pin_data" /\ call.alg = fmt /\ call.of = prefix
        /\ call.val = val /\ call.datum = new /\ call.block = block
        /\ call.refs = <<key2, key>> /\ call.n = n
    BY DEF PinCall
  <1>2. ks[2] = b[key] /\ ks[1] = b[key2]
    BY <1>1, Tuples DEF KeysUnder
  <1>3. b[key] \in Keys /\ b[key2] \in Keys
    BY DEF Keyed
  <1> HIDE DEF call, ks
  <1>4. Garbled[1] = "garbled"
    BY Tuples DEF Garbled
  <1>5. rs = GeneratePin(call, ks)
    BY <1>1 DEF Results
  <1>6. rs = IF pin = "garbled" THEN {Rejected} ELSE {Ok(cut)}
    BY <1>1, <1>2, <1>4, <1>5, Zenon DEF GeneratePin
  <1>7. /\ pin \in STRING
        /\ pin = IF InBlock(block, b[key], fmt, prefix) THEN PinOf(block) ELSE "garbled"
    BY PinFound
  <1> HIDE DEF pin
  <1>8. PICK res \in rs : res.v = "ok" /\ o = Left(call, res.out)
    BY DEF Passes, rs, ks, call
  <1>9. pin # "garbled" /\ o = Left(call, cut)
    <2>1. rs # {Rejected}
      BY <1>8 DEF Rejected
    <2> HIDE DEF rs, cut
    <2> QED BY <2>1, <1>6, <1>8 DEF Ok
  <1>10. InBlock(block, b[key], fmt, prefix) /\ pin = PinOf(block)
    BY <1>7, <1>9
  <1>11. Append(val, pin) \in Seq(STRING)
    BY <1>7, Text
  <1> DEFINE kd == IF new = NewOffset THEN "offset" ELSE "pvv"
             of == Append(val, pin)
             w == BareDigits(made)
  <1>12. new \in Data /\ new.kind = kd
    <2>1. "offset" \in STRING /\ "pvv" \in STRING /\ "" \in STRING
      BY LiteralsAssumption
    <2>2. ASSUME NEW kind \in STRING, NEW alg \in STRING
          PROVE  /\ Datum(kind, NoKey, alg, <<>>, 0) \in Data
                 /\ Datum(kind, NoKey, alg, <<>>, 0).kind = kind
      BY <2>2 DEF Data, Datum
    <2>3. NewOffset \in Data /\ NewOffset.kind = "offset"
          /\ NewPvv \in Data /\ NewPvv.kind = "pvv"
      BY <2>1, <2>2, Zenon DEF NewOffset, NewPvv
    <2>4. NewOffset # NewPvv
      BY <2>3
    <2> QED BY <2>3, <2>4
  <1>13. made \in Data /\ made.kind = kd /\ made.key = b[key2] /\ made.of = of
    <2>1. made = [new EXCEPT !.key = b[key2], !.of = of] /\ of \in Seq(STRING)
      BY <1>11
    <2> HIDE DEF kd, made, of
    <2>2. LET e == [new EXCEPT !.key = b[key2], !.of = of] IN
          e \in Data /\ e.kind = new.kind /\ e.key = b[key2] /\ e.of = of
      BY <2>1, <1>3, <1>12 DEF Data
    <2> QED BY <2>1, <2>2, <1>12, Zenon
  <1> HIDE DEF made
  <1>14. w \in Nat /\ w <= 12 /\ (made.kind = "pvv" => w = 4)
    BY DigitsCount
  <1> HIDE DEF w, of
  <1>15. cut = [made EXCEPT !.len = w]
    BY DEF w
  <1> HIDE DEF cut
  <1>16. /\ cut \in Data /\ cut.kind = kd /\ cut.key = b[key2] /\ cut.of = of
         /\ cut.len = w
    <2> HIDE DEF kd
    <2> QED BY <1>13, <1>14, <1>15, Widened, Zenon
  <1>17. o = IF cut.kind = "offset"
             THEN [cut EXCEPT !.len = IF @ < n THEN n ELSE @] ELSE cut
    BY <1>1, <1>9, Zenon DEF Left, Kept
  <1>18. /\ o \in Data /\ o.kind = kd /\ o.key = b[key2] /\ o.of = of /\ o.len = n
    <2>1. CASE new = NewOffset
      <3>1. n = 12 /\ kd = "offset" /\ n \in Nat
        BY <2>1
      <3>2. (IF w < n THEN n ELSE w) = n
        BY <3>1, <1>14
      <3> HIDE DEF kd
      <3>3. o = [cut EXCEPT !.len = IF @ < n THEN n ELSE @]
        BY <3>1, <1>16, <1>17, Zenon
      <3>4. /\ o \in Data /\ o.kind = cut.kind /\ o.key = cut.key /\ o.of = cut.of
            /\ o.len = IF cut.len < n THEN n ELSE cut.len
        BY <3>1, <3>3, <1>16, Widened, Zenon
      <3> QED BY <3>2, <3>4, <1>16
    <2>2. CASE new # NewOffset
      <3>1. n = 4 /\ kd = "pvv"
        BY <2>2
      <3>2. w = 4
        BY <3>1, <1>13, <1>14
      <3> HIDE DEF kd
      <3>3. o = cut
        <4>1. cut.kind # "offset"
          BY <3>1, <1>16
        <4> QED BY <4>1, <1>17, Zenon
      <3> QED BY <3>1, <3>2, <3>3, <1>16
    <2> QED BY <2>1, <2>2
  <1>19. o.kind = new.kind /\ o.key = b[key2] /\ o.of = of /\ o.len = n
    <2> HIDE DEF kd
    <2> QED BY <1>12, <1>18
  <1>20. o \in Data
    BY <1>18
  <1>21. PinOf(o) = pin /\ o.of # <<>>
    BY <1>19, LastPiece DEF of
  <1>22. o.kind = "pvv" => o.len = 4
    BY <1>18
  <1>23. o \in CardholderData
    BY <1>4, <1>9, <1>20, <1>21, <1>22 DEF CardholderData, OfSomePin
  <1> QED BY <1>10, <1>19, <1>23 DEF of

(* translate_pin_data moves the PIN that it finds, or garbles it.          *)
LEMMA MovePinAnswers ==
  ASSUME NEW b, Keyed(b), NEW key \in Mapped, NEW key2 \in Mapped, NEW fmt,
         NEW fmt2 \in STRING, NEW prefix \in Seq(STRING), NEW block \in Data,
         NEW prev, NEW o,
         Passes(PinCall("translate_pin_data", <<key, key2>>, fmt, prefix, <<fmt2>>, Nothing,
                        block, 0), b, prev, o)
  PROVE  /\ InBlock(block, b[key], fmt, prefix) =>
              o = PinBlock(b[key2], fmt2, prefix, PinOf(block), 16)
         /\ o \in CardholderData
PROOF
  <1> DEFINE call == PinCall("translate_pin_data", <<key, key2>>, fmt, prefix, <<fmt2>>,
                             Nothing, block, 0)
             ks == KeysUnder(b, call)
             pin == PinIn(block, b[key], fmt, prefix)
             rs == Results(call, ks, prev)
             moved == PinBlock(b[key2], fmt2, prefix, pin, 16)
  <1>1. /\ call.op = "translate_pin_data" /\ call.alg = fmt /\ call.of = prefix
        /\ call.val = <<fmt2>> /\ call.block = block /\ call.refs = <<key, key2>>
    BY DEF PinCall
  <1>2. ks[1] = b[key] /\ ks[2] = b[key2] /\ call.val[1] = fmt2
    BY <1>1, Tuples DEF KeysUnder
  <1>3. b[key2] \in Keys
    BY DEF Keyed
  <1> HIDE DEF call, ks
  <1>4. rs = TranslatePin(call, ks)
    BY <1>1 DEF Results
  <1>5. rs \subseteq {Ok(moved), Rejected}
    <2>1. rs = {Ok(moved)} \cup (IF pin = Garbled[1] THEN {Rejected} ELSE {})
      BY <1>1, <1>2, <1>4, Zenon DEF TranslatePin
    <2> QED BY <2>1
  <1>6. /\ pin \in STRING
        /\ pin = IF InBlock(block, b[key], fmt, prefix) THEN PinOf(block) ELSE "garbled"
    BY PinFound
  <1>7. PICK res \in rs : res.v = "ok" /\ o = Left(call, res.out)
    BY DEF Passes, rs, ks, call
  <1>8. \A x : Left(call, x) = x
    BY <1>1 DEF Left, Kept
  <1>9. o = moved
    <2> HIDE DEF rs, moved
    <2> QED BY <1>5, <1>7, <1>8 DEF Ok, Rejected
  <1>10. InBlock(block, b[key], fmt, prefix) =>
           o = PinBlock(b[key2], fmt2, prefix, PinOf(block), 16)
    BY <1>6, <1>9, Zenon
  <1> HIDE DEF pin
  <1> DEFINE of == Append(Binding(fmt2, prefix), pin)
  <1>11. of \in Seq(STRING)
    BY <1>6, BindingIsText, Text
  <1>12. o = Datum("block", b[key2], fmt2, of, 16)
    BY <1>9 DEF PinBlock
  <1> HIDE DEF of
  <1>13. "block" \in STRING
    BY LiteralsAssumption
  <1>14. ASSUME NEW kind \in STRING, kind \notin {"offset", "pvv"}
         PROVE  Datum(kind, b[key2], fmt2, of, 16) \in CardholderData
    BY <1>3, <1>11, <1>14 DEF CardholderData, OfSomePin, Data, Datum
  <1>15. "block" \notin {"offset", "pvv"}
    OBVIOUS
  <1> QED BY <1>10, <1>12, <1>13, <1>14, <1>15, Zenon

-------------------------------------------------------------------------------
(* Each command has its own handler.                                       *)
LEMMA PinDispatch ==
  ASSUME NEW r
  PROVE  /\ r.cmd = "DU" => PinProgram(r) = DU(r)
         /\ r.cmd = "CU" => PinProgram(r) = CU(r)
         /\ r.cmd \in {"DA", "EA"} => PinProgram(r) = handle_ibm(r)
         /\ r.cmd \in {"DC", "EC"} => PinProgram(r) = handle_visa(r)
         /\ r.cmd = "CK" => PinProgram(r) = CK(r)
         /\ r.cmd = "GO" => PinProgram(r) = GO(r)
         /\ r.cmd = "CC" => PinProgram(r) = CC(r)
         /\ r.cmd = "CA" => PinProgram(r) = CA(r)
         /\ r.cmd \in GatedPins => PinProgram(r) = Plan(<<Unsupported(TRUE)>>, <<>>)
PROOF
  <1>1. GatedPins = {"G0", "BQ", "CM", "CO", "CQ", "GQ", "GS", "GU"}
    BY DEF GatedPins, GatedTranslations, GatedDukpt, GatedDukptAes
  <1> QED BY <1>1 DEF PinProgram

(* The calls of checks and changes, in the terms of the host.              *)
Reference(r) == IF r.cmd \in {"DC", "EC", "CU"} THEN r.ref ELSE TrimF(r.ref)

CallFormat(r) == IF r.cmd = "CK" THEN "ISO0" ELSE HostFormat(r)

PinCheck(r) == VerifyPinData(r, CallFormat(r), HostBinding(r), HostValue(r), Reference(r))

PinMake(r) ==
  GeneratePinData(r, CallFormat(r), HostValue(r),
                  IF r.cmd = "DU" THEN NewOffset ELSE NewPvv, IF r.cmd = "DU" THEN 12 ELSE 4)

(* A check makes one call, a change another one after it.                  *)
LEMMA PinShape ==
  ASSUME NEW r, r.cmd \in Checks \cup Changes, PinProgram(r).calls # <<>>
  PROVE  /\ PinProgram(r).calls =
              IF r.cmd \in Changes THEN <<PinCheck(r), PinMake(r)>> ELSE <<PinCheck(r)>>
         /\ r.wire /\ KeysGuard(r)
PROOF
  <1> DEFINE calls == PinProgram(r).calls
  <1>1. CASE r.cmd \in {"DA", "EA"}
    <2>1. calls = handle_ibm(r).calls
      BY <1>1, PinDispatch, Zenon
    <2>2. FormatGuard(r)
      BY <2>1, FormatPlans, Zenon
    <2>3. calls = <<VerifyPinData(r, map_pin_block_format[r.fmt], <<r.acct>>, OffsetOf(r),
                                  TrimF(r.ref))>>
      BY <2>1, <2>2, FormatPlans, Zenon
    <2>4. /\ CallFormat(r) = map_pin_block_format[r.fmt] /\ HostBinding(r) = <<r.acct>>
          /\ HostValue(r) = OffsetOf(r) /\ Reference(r) = TrimF(r.ref)
          /\ r.cmd \notin Changes
      BY <1>1 DEF CallFormat, HostFormat, HostBinding, HostValue, OffsetOf, Reference, Changes
    <2> QED BY <2>2, <2>3, <2>4, Zenon DEF PinCheck, FormatGuard
  <1>2. CASE r.cmd \in {"DC", "EC"}
    <2>1. calls = handle_visa(r).calls
      BY <1>2, PinDispatch, Zenon
    <2>2. FormatGuard(r)
      BY <2>1, FormatPlans, Zenon
    <2>3. calls = <<VerifyPinData(r, map_pin_block_format[r.fmt], <<r.acct>>, PvvOf(r),
                                  r.ref)>>
      BY <2>1, <2>2, FormatPlans, Zenon
    <2>4. /\ CallFormat(r) = map_pin_block_format[r.fmt] /\ HostBinding(r) = <<r.acct>>
          /\ HostValue(r) = PvvOf(r) /\ Reference(r) = r.ref /\ r.cmd \notin Changes
      BY <1>2 DEF CallFormat, HostFormat, HostBinding, HostValue, PvvOf, Reference, Changes
    <2> QED BY <2>2, <2>3, <2>4, Zenon DEF PinCheck, FormatGuard
  <1>3. CASE r.cmd = "CK"
    <2>1. calls = CK(r).calls
      BY <1>3, PinDispatch, Zenon
    <2>2. CkGuard(r)
      BY <2>1, DukptPlans, Zenon
    <2>3. calls = <<VerifyPinData(r, "ISO0", <<r.ksn, r.acct>>, OffsetOf(r), TrimF(r.ref))>>
      BY <2>1, <2>2, DukptPlans, Zenon
    <2>4. /\ CallFormat(r) = "ISO0" /\ HostBinding(r) = <<r.ksn, r.acct>>
          /\ HostValue(r) = OffsetOf(r) /\ Reference(r) = TrimF(r.ref)
          /\ r.cmd \notin Changes
      BY <1>3 DEF CallFormat, HostFormat, HostBinding, HostValue, OffsetOf, Reference, Changes
    <2> QED BY <2>2, <2>3, <2>4, Zenon DEF PinCheck, CkGuard
  <1>4. CASE r.cmd = "GO"
    <2>1. calls = GO(r).calls
      BY <1>4, PinDispatch, Zenon
    <2>2. GoGuard(r)
      BY <2>1, DukptPlans, Zenon
    <2>3. calls = <<VerifyPinData(r, map_pin_block_format[r.fmt], <<r.ksn, r.acct>>,
                                  OffsetOf(r), TrimF(r.ref))>>
      BY <2>1, <2>2, DukptPlans, Zenon
    <2>4. /\ CallFormat(r) = map_pin_block_format[r.fmt]
          /\ HostBinding(r) = <<r.ksn, r.acct>>
          /\ HostValue(r) = OffsetOf(r) /\ Reference(r) = TrimF(r.ref)
          /\ r.cmd \notin Changes
      BY <1>4 DEF CallFormat, HostFormat, HostBinding, HostValue, OffsetOf, Reference, Changes
    <2> QED BY <2>2, <2>3, <2>4, Zenon DEF PinCheck, GoGuard
  <1>5. CASE r.cmd = "DU"
    <2> DEFINE fmt == map_pin_block_format[r.fmt]
    <2>1. calls = DU(r).calls
      BY <1>5, PinDispatch, Zenon
    <2>2. FormatGuard(r)
      BY <2>1, FormatPlans, Zenon
    <2>3. calls = <<VerifyPinData(r, fmt, <<r.acct>>, OffsetOf(r), TrimF(r.ref)),
                    GeneratePinData(r, fmt, OffsetOf(r), NewOffset, 12)>>
      BY <2>1, <2>2, FormatPlans, Zenon
    <2>4. /\ CallFormat(r) = fmt /\ HostBinding(r) = <<r.acct>>
          /\ HostValue(r) = OffsetOf(r) /\ Reference(r) = TrimF(r.ref) /\ r.cmd \in Changes
      BY <1>5 DEF CallFormat, HostFormat, HostBinding, HostValue, OffsetOf, Reference, Changes
    <2> HIDE DEF fmt
    <2> QED BY <2>2, <2>3, <2>4, <1>5, Zenon DEF PinCheck, PinMake, FormatGuard
  <1>6. CASE r.cmd = "CU"
    <2> DEFINE fmt == map_pin_block_format[r.fmt]
    <2>1. calls = CU(r).calls
      BY <1>6, PinDispatch, Zenon
    <2>2. FormatGuard(r)
      BY <2>1, FormatPlans, Zenon
    <2>3. calls = <<VerifyPinData(r, fmt, <<r.acct>>, PvvOf(r), r.ref),
                    GeneratePinData(r, fmt, PvvOf(r), NewPvv, 4)>>
      BY <2>1, <2>2, FormatPlans, Zenon
    <2>4. /\ CallFormat(r) = fmt /\ HostBinding(r) = <<r.acct>>
          /\ HostValue(r) = PvvOf(r) /\ Reference(r) = r.ref /\ r.cmd \in Changes
          /\ r.cmd # "DU"
      BY <1>6 DEF CallFormat, HostFormat, HostBinding, HostValue, PvvOf, Reference, Changes
    <2> HIDE DEF fmt
    <2> QED BY <2>2, <2>3, <2>4, Zenon DEF PinCheck, PinMake, FormatGuard
  <1> QED BY <1>1, <1>2, <1>3, <1>4, <1>5, <1>6 DEF Checks, Changes

(* What is known of the fields of a check or a change.                     *)
LEMMA PinFrameFacts ==
  ASSUME NEW hold \in SUBSET CardholderData, NEW r, PinFrame(r, hold), r.wire,
         r.cmd \in Checks \cup Changes
  PROVE  /\ r.block \in Data /\ r.newBlock \in Data /\ <<r.acct>> \in Seq(STRING)
         /\ HostBinding(r) \in Seq(STRING) /\ HostValue(r) \in Seq(STRING)
         /\ Reference(r).len = BareDigits(Reference(r)) /\ PinOf(Reference(r)) # "garbled"
         /\ Reference(r).key = r.ref.key /\ Reference(r).of = r.ref.of
         /\ r.ref.kind = IF r.cmd \in {"DC", "EC", "CU"} THEN "pvv" ELSE "offset"
PROOF
  <1>1. /\ r.block \in Data /\ r.newBlock \in Data /\ r.ref \in Data
        /\ r.acct \in STRING /\ r.ksn \in STRING /\ r.val \in STRING
    BY DEF PinFrame, PinFields
  <1>2. /\ <<r.acct>> \in Seq(STRING) /\ <<r.ksn, r.acct>> \in Seq(STRING)
        /\ <<r.val>> \in Seq(STRING) /\ <<r.acct, r.val>> \in Seq(STRING)
    BY <1>1, Text
  <1>3. HostBinding(r) \in Seq(STRING) /\ HostValue(r) \in Seq(STRING)
    BY <1>2, Zenon DEF HostBinding, HostValue
  <1>4. IF r.cmd \in {"DC", "EC", "CU"} THEN r.ref.kind = "pvv" /\ r.ref.len = 4
        ELSE r.ref.kind = "offset"
    BY DEF PinFrame
  <1>5. r.ref.kind = IF r.cmd \in {"DC", "EC", "CU"} THEN "pvv" ELSE "offset"
    BY <1>4
  <1>6. PinOf(r.ref) # "garbled"
    <2>0. Nothing.kind = "nothing"
      BY DEF Nothing, Datum
    <2>1. r.ref # Nothing
      BY <1>5, <2>0
    <2>2. r.ref \in CardholderData
      BY <2>1 DEF PinFrame
    <2>3. Garbled[1] = "garbled"
      BY Tuples DEF Garbled
    <2> QED BY <2>2, <2>3, <1>5 DEF CardholderData, OfSomePin
  <1>7. CASE r.cmd \in {"DC", "EC", "CU"}
    <2>1. Reference(r) = r.ref /\ r.ref.kind = "pvv" /\ r.ref.len = 4
      BY <1>4, <1>7 DEF Reference
    <2>2. BareDigits(r.ref) = 4
      BY <2>1, DigitsCount
    <2> QED BY <2>1, <2>2, <1>1, <1>2, <1>3, <1>5, <1>6
  <1>8. CASE r.cmd \notin {"DC", "EC", "CU"}
    <2>1. Reference(r) = TrimF(r.ref)
      BY <1>8 DEF Reference
    <2>2. /\ Reference(r).key = r.ref.key /\ Reference(r).of = r.ref.of
          /\ Reference(r).len = BareDigits(Reference(r))
          /\ PinOf(Reference(r)) = PinOf(r.ref)
      BY <2>1, <1>1, Trimmed
    <2> QED BY <2>2, <1>1, <1>2, <1>3, <1>5, <1>6
  <1> QED BY <1>7, <1>8

(* What the check of a command finds out.                                  *)
RightRef(r, b) ==
  /\ InBlock(r.block, b[r.key], CallFormat(r), HostBinding(r))
  /\ r.ref.key = b[r.key2] /\ r.ref.of = Append(HostValue(r), PinOf(r.block))

(* It passes the right PIN only.                                           *)
LEMMA PinCheckAnswers ==
  ASSUME NEW hold \in SUBSET CardholderData, NEW r, PinFrame(r, hold), r.wire,
         r.cmd \in Checks \cup Changes, KeysGuard(r), NEW b, Keyed(b), NEW prev
  PROVE  /\ \A o : Passes(PinCheck(r), b, prev, o) => o = Nothing /\ RightRef(r, b)
         /\ Mismatches(PinCheck(r), b, prev) \/ Rejects(PinCheck(r), b, prev) =>
              ~RightRef(r, b)
PROOF
  <1> DEFINE ref == Reference(r)
             fmt == CallFormat(r)
             prefix == HostBinding(r)
             val == HostValue(r)
             call == PinCall("verify_pin_data", <<r.key, r.key2>>, fmt, prefix, val, ref,
                             r.block, 0)
             right == RightPin(r.block, ref, b[r.key], b[r.key2], fmt, prefix, val)
  <1>1. /\ r.block \in Data /\ prefix \in Seq(STRING) /\ val \in Seq(STRING)
        /\ ref.len = BareDigits(ref) /\ PinOf(ref) # "garbled"
        /\ ref.key = r.ref.key /\ ref.of = r.ref.of
    BY PinFrameFacts
  <1>2. r.key \in Mapped /\ r.key2 \in Mapped
    BY DEF KeysGuard
  <1>3. PinCheck(r) = call
    BY DEF PinCheck, VerifyPinData
  <1>4. right <=> RightRef(r, b)
    BY <1>1, Zenon DEF RightPin, RightRef
  <1> HIDE DEF ref, fmt, prefix, val
  <1>5. /\ \A o : Passes(call, b, prev, o) => o = Nothing /\ right
        /\ Mismatches(call, b, prev) \/ Rejects(call, b, prev) => ~right
    BY <1>1, <1>2, CheckPinAnswers, Zenon
  <1> HIDE DEF call, right
  <1> QED BY <1>3, <1>4, <1>5

(* What the second call of a change leaves: the value of the new PIN.      *)
NewRef(r, b, o) ==
  /\ InBlock(r.newBlock, b[r.key], CallFormat(r), HostBinding(r))
  /\ o.kind = r.ref.kind /\ o.key = b[r.key2]
  /\ o.of = Append(HostValue(r), PinOf(r.newBlock))
  /\ o.len = IF r.cmd = "DU" THEN 12 ELSE 4

(* It does.                                                                *)
LEMMA PinMakeAnswers ==
  ASSUME NEW hold \in SUBSET CardholderData, NEW r, PinFrame(r, hold), r.wire,
         r.cmd \in Changes, KeysGuard(r), NEW b, Keyed(b), NEW prev, NEW o,
         Passes(PinMake(r), b, prev, o)
  PROVE  NewRef(r, b, o) /\ o \in CardholderData
PROOF
  <1> DEFINE new == IF r.cmd = "DU" THEN NewOffset ELSE NewPvv
             n == IF r.cmd = "DU" THEN 12 ELSE 4
             fmt == CallFormat(r)
             val == HostValue(r)
  <1>1. /\ r.newBlock \in Data /\ <<r.acct>> \in Seq(STRING) /\ val \in Seq(STRING)
        /\ r.ref.kind = IF r.cmd \in {"DC", "EC", "CU"} THEN "pvv" ELSE "offset"
    BY PinFrameFacts
  <1>2. r.key \in Mapped /\ r.key2 \in Mapped
    BY DEF KeysGuard
  <1>3. HostBinding(r) = <<r.acct>> /\ r.cmd \in {"DU", "CU"}
    BY DEF HostBinding, Changes
  <1>4. NewOffset.kind = "offset" /\ NewPvv.kind = "pvv"
    BY DEF NewOffset, NewPvv, Datum
  <1>5. new.kind = r.ref.kind /\ new \in {NewOffset, NewPvv}
    BY <1>1, <1>3, <1>4
  <1>6. n = IF new = NewOffset THEN 12 ELSE 4
    <2>1. NewOffset # NewPvv
      BY <1>4
    <2>2. CASE r.cmd = "DU"
      BY <2>2, Zenon
    <2>3. CASE r.cmd # "DU"
      BY <2>1, <2>3, Zenon
    <2> QED BY <2>2, <2>3
  <1>7. Passes(PinCall("generate_pin_data", <<r.key2, r.key>>, fmt, <<r.acct>>, val, new,
                       r.newBlock, n), b, prev, o)
    BY Zenon DEF PinMake, GeneratePinData
  <1> HIDE DEF new, n, fmt, val
  <1>8. /\ InBlock(r.newBlock, b[r.key], fmt, <<r.acct>>)
        /\ o.kind = new.kind /\ o.key = b[r.key2] /\ o.of = Append(val, PinOf(r.newBlock))
        /\ o.len = n /\ o \in CardholderData
    <2>1. /\ r.newBlock \in Data /\ <<r.acct>> \in Seq(STRING) /\ val \in Seq(STRING)
          /\ Fresh(new, n)
      BY <1>1, <1>5, <1>6 DEF Fresh
    <2> QED BY <2>1, <1>2, <1>7, MakePinAnswers, Zenon
  <1> QED BY <1>3, <1>5, <1>8, Zenon DEF NewRef, n, fmt, val

(* The translations: their one call, and what it makes.                    *)
LEMMA TranslateAnswers ==
  ASSUME NEW hold, NEW r, PinFrame(r, hold), r.cmd \in {"CC", "CA"},
         PinProgram(r).calls # <<>>
  PROVE  \E call :
           /\ PinProgram(r).calls = <<call>> /\ r.key \in Mapped /\ r.key2 \in Mapped
           /\ \A b, prev, o :
                Keyed(b) /\ Passes(call, b, prev, o) =>
                  /\ InBlock(r.block, b[r.key], CallFormat(r), HostBinding(r)) =>
                       o = PinBlock(b[r.key2], map_pin_block_format[r.fmt2], <<r.acct>>,
                                    PinOf(r.block), 16)
                  /\ o \in CardholderData
PROOF
  <1> DEFINE fmt == map_translate_format[r.fmt]
             fmt2 == map_translate_format[r.fmt2]
             call == PinCall("translate_pin_data", <<r.key, r.key2>>, fmt, <<r.acct>>,
                             <<fmt2>>, Nothing, r.block, 0)
  <1>1. PinProgram(r) \in {CC(r), CA(r)}
    BY PinDispatch, Zenon
  <1>2. /\ TranslateGuard(r, FALSE) \/ TranslateGuard(r, TRUE)
        /\ PinProgram(r).calls = Translate(r)
    BY <1>1, TranslatePlans, Zenon
  <1>3. PinProgram(r).calls = <<call>>
    BY <1>2, Zenon DEF Translate
  <1>4. /\ r.key \in Mapped /\ r.key2 \in Mapped
        /\ r.fmt \in DOMAIN map_translate_format /\ r.fmt2 \in DOMAIN map_translate_format
    BY <1>2 DEF TranslateGuard, KeysGuard, TranslatedFormat
  <1>5. \A f \in DOMAIN map_translate_format :
          /\ map_translate_format[f] = map_pin_block_format[f]
          /\ map_translate_format[f] \in {"ISO0", "ISO1", "ISO3"}
    BY DEF map_translate_format, map_pin_block_format
  <1>6. fmt2 \in STRING
    <2>1. "ISO0" \in STRING /\ "ISO1" \in STRING /\ "ISO3" \in STRING
      BY LiteralsAssumption, Zenon
    <2>2. fmt2 \in {"ISO0", "ISO1", "ISO3"}
      BY <1>4, <1>5
    <2> HIDE DEF fmt2
    <2> QED BY <2>1, <2>2
  <1>7. /\ CallFormat(r) = fmt /\ HostBinding(r) = <<r.acct>>
        /\ fmt2 = map_pin_block_format[r.fmt2]
    BY <1>4, <1>5 DEF CallFormat, HostFormat, HostBinding
  <1>8. r.block \in Data /\ <<r.acct>> \in Seq(STRING)
    <2>1. r.block \in Data /\ r.acct \in STRING
      BY DEF PinFrame, PinFields
    <2> QED BY <2>1, Text
  <1> HIDE DEF fmt, fmt2
  <1>9. ASSUME NEW b, NEW prev, NEW o, Keyed(b), Passes(call, b, prev, o)
        PROVE  /\ InBlock(r.block, b[r.key], fmt, <<r.acct>>) =>
                    o = PinBlock(b[r.key2], fmt2, <<r.acct>>, PinOf(r.block), 16)
               /\ o \in CardholderData
    BY <1>4, <1>6, <1>8, <1>9, MovePinAnswers, Zenon
  <1> HIDE DEF call
  <1>10. \A b, prev, o :
           Keyed(b) /\ Passes(call, b, prev, o) =>
             /\ InBlock(r.block, b[r.key], CallFormat(r), HostBinding(r)) =>
                  o = PinBlock(b[r.key2], map_pin_block_format[r.fmt2], <<r.acct>>,
                               PinOf(r.block), 16)
             /\ o \in CardholderData
    BY <1>7, <1>9
  <1> QED BY <1>3, <1>4, <1>10, Zenon

(* The answers of the PIN commands stay within the data of cardholders.    *)
LEMMA PinCloses ==
  ASSUME NEW hold \in SUBSET CardholderData, NEW r, PinFrame(r, hold)
  PROVE  Closes(PinProgram(r).calls, CardholderData)
PROOF
  <1> DEFINE calls == PinProgram(r).calls
  <1>1. CASE calls = <<>>
    BY <1>1, Zenon DEF Closes
  <1>2. CASE r.cmd \in Checks /\ calls # <<>>
    <2>1. r.cmd \notin Changes
      BY <1>2 DEF Checks, Changes
    <2>2. calls = <<PinCheck(r)>> /\ r.wire /\ KeysGuard(r)
      BY <1>2, <2>1, PinShape
    <2>3. ASSUME NEW b, NEW o, Keyed(b), Passes(PinCheck(r), b, Nothing, o)
          PROVE  o \in CardholderData \cup {Nothing}
      <3>1. o = Nothing
        BY <1>2, <2>2, <2>3, PinCheckAnswers
      <3> QED BY <3>1
    <2> QED BY <2>2, <2>3, Zenon DEF Closes
  <1>3. CASE r.cmd \in Changes /\ calls # <<>>
    <2>1. calls = <<PinCheck(r), PinMake(r)>> /\ r.wire /\ KeysGuard(r)
      BY <1>3, PinShape
    <2>2. ASSUME NEW b, NEW e, NEW m, NEW o, Keyed(e), Passes(PinMake(r), e, m, o)
          PROVE  o \in CardholderData \cup {Nothing}
      <3>1. o \in CardholderData
        BY <1>3, <2>1, <2>2, PinMakeAnswers
      <3> QED BY <3>1
    <2> QED BY <2>1, <2>2, Zenon DEF Closes
  <1>4. CASE r.cmd \in {"CC", "CA"} /\ calls # <<>>
    <2>1. PICK call :
            /\ calls = <<call>>
            /\ \A b, prev, o : Keyed(b) /\ Passes(call, b, prev, o) => o \in CardholderData
      BY <1>4, TranslateAnswers, Zenon
    <2>2. \A b, o : Keyed(b) /\ Passes(call, b, Nothing, o) => o \in CardholderData \cup {Nothing}
      BY <2>1
    <2> QED BY <2>1, <2>2, Zenon DEF Closes
  <1>5. CASE r.cmd \in GatedPins
    <2>1. PinProgram(r) = Plan(<<Unsupported(TRUE)>>, <<>>)
      BY <1>5, PinDispatch, Zenon
    <2>2. calls = <<>>
      BY <2>1 DEF Plan
    <2> QED BY <2>2, Zenon DEF Closes
  <1>6. r.cmd \in PinCommands
    BY DEF PinFrame, PinFields
  <1> QED BY <1>1, <1>2, <1>3, <1>4, <1>5, <1>6 DEF PinCommands

-------------------------------------------------------------------------------
(* The traffic of cardholders: hosts send well-formed frames of the PIN    *)
(* and card commands, and the reference value in a frame of a PIN command  *)
(* is one that they were given.                                            *)
CardholderTraffic ==
  /\ Outside \subseteq CardholderData
  /\ \A hold \in SUBSET CardholderData : \A r \in Requests(hold) :
       /\ r # NoReq
       /\ IF r.cmd \in CardCommands
          THEN CardFrame(r) /\ Program(r) = CardProgram(r)
          ELSE PinFrame(r, hold) /\ Program(r) = PinProgram(r)

(* Hosts and handlers stay within the data of cardholders.                 *)
LEMMA CardholdersServed ==
  ASSUME CardholderTraffic PROVE Serves(CardholderData)
PROOF
  <1>1. ASSUME NEW hold \in SUBSET CardholderData, NEW r \in Requests(hold)
        PROVE  r # NoReq /\ Closes(Program(r).calls, CardholderData)
    <2>1. CASE r.cmd \in CardCommands
      <3>1. r # NoReq /\ CardFrame(r) /\ Program(r) = CardProgram(r)
        BY <2>1 DEF CardholderTraffic
      <3> QED BY <3>1, CardCloses
    <2>2. CASE r.cmd \notin CardCommands
      <3>1. r # NoReq /\ PinFrame(r, hold) /\ Program(r) = PinProgram(r)
        BY <2>2 DEF CardholderTraffic
      <3> QED BY <3>1, PinCloses
    <2> QED BY <2>1, <2>2
  <1> QED BY <1>1, ClosedFamily DEF CardholderTraffic

(* Every answer is explained by the calls that were made for it.           *)
LEMMA CardholdersExplained ==
  ASSUME CardholderTraffic PROVE Spec => []HInv(CardholderData)
PROOF
  <1>1. Init => HInv(CardholderData)
    BY InitExplained
  <1>2. HInv(CardholderData) /\ [Next]_vars => HInv(CardholderData)'
    BY CardholdersServed, NextExplained
  <1> QED BY <1>1, <1>2, PTL DEF Spec

(* The command of an answer, and its handler.                              *)
LEMMA AnsweredCardholder ==
  ASSUME CardholderTraffic, HInv(CardholderData), NEW c \in Conns, code[c] # "none"
  PROVE  IF req[c].cmd \in CardCommands
         THEN CardFrame(req[c]) /\ Program(req[c]) = CardProgram(req[c])
         ELSE /\ \E hold \in SUBSET CardholderData : PinFrame(req[c], hold)
              /\ Program(req[c]) = PinProgram(req[c])
PROOF
  <1>1. PICK hold \in SUBSET CardholderData : req[c] \in Requests(hold)
    BY ServedCommand
  <1> QED BY <1>1 DEF CardholderTraffic

(* The two kinds of commands are told apart by their codes.                *)
LEMMA PinOrCard ==
  /\ (Checks \cup Changes \cup {"CC", "CA"}) \cap CardCommands = {}
  /\ ArqcCommands \cup {"CY"} \subseteq CardCommands
PROOF BY DEF Checks, Changes, CardCommands, GatedCards, ArqcCommands

(* A command that is not refused calls the service.                        *)
LEMMA CardholderCalls ==
  ASSUME NEW r
  PROVE  /\ r.cmd \in ArqcCommands /\ CardProgram(r).refusal = "none" =>
              CardProgram(r).calls # <<>>
         /\ r.cmd \in Changes \cup {"CC", "CA"} /\ PinProgram(r).refusal = "none" =>
              PinProgram(r).calls # <<>>
PROOF
  <1>1. ASSUME NEW rs, NEW call, Plan(rs, <<call>>).refusal = "none"
        PROVE  Plan(rs, <<call>>).calls # <<>>
    BY <1>1 DEF Plan
  <1>2. ASSUME NEW rs, NEW call, NEW next, Plan(rs, <<call, next>>).refusal = "none"
        PROVE  Plan(rs, <<call, next>>).calls # <<>>
    BY <1>2 DEF Plan
  <1>3. /\ KQ(r).refusal = "none" => KQ(r).calls # <<>>
        /\ KW(r).refusal = "none" => KW(r).calls # <<>>
        /\ JS(r).refusal = "none" => JS(r).calls # <<>>
    BY <1>1, Zenon DEF KQ, KW, JS, verify_arqc
  <1>4. /\ K2(r).refusal = "none" => K2(r).calls # <<>>
        /\ KS(r).refusal = "none" => KS(r).calls # <<>>
    BY <1>1, Zenon DEF K2, KS, handle_cap, verify_arqc
  <1>5. /\ DU(r).refusal = "none" => DU(r).calls # <<>>
        /\ CU(r).refusal = "none" => CU(r).calls # <<>>
    BY <1>2, Zenon DEF DU, CU
  <1>6. /\ CC(r).refusal = "none" => CC(r).calls # <<>>
        /\ CA(r).refusal = "none" => CA(r).calls # <<>>
    BY <1>1, Zenon DEF CC, CA, Translate
  <1>7. ASSUME r.cmd \in ArqcCommands
        PROVE  CardProgram(r) \in {KQ(r), KW(r), JS(r), K2(r), KS(r)}
    BY <1>7, CardDispatch, Zenon DEF ArqcCommands
  <1>8. ASSUME r.cmd \in Changes \cup {"CC", "CA"}
        PROVE  PinProgram(r) \in {DU(r), CU(r), CC(r), CA(r)}
    BY <1>8, PinDispatch, Zenon DEF Changes
  <1>9. ASSUME r.cmd \in ArqcCommands, CardProgram(r).refusal = "none"
        PROVE  CardProgram(r).calls # <<>>
    BY <1>3, <1>4, <1>7, <1>9, Zenon
  <1>10. ASSUME r.cmd \in Changes \cup {"CC", "CA"}, PinProgram(r).refusal = "none"
         PROVE  PinProgram(r).calls # <<>>
    BY <1>5, <1>6, <1>8, <1>10, Zenon
  <1> QED BY <1>9, <1>10

(* What the call of a cryptogram's command finds out of the card, and what *)
(* it leaves for the host.                                                 *)
LEMMA ArqcCallDecides ==
  ASSUME NEW r, CardFrame(r), r.cmd \in ArqcCommands, CardProgram(r).calls # <<>>,
         NEW b, Keyed(b)
  PROVE  LET genuine == /\ r.arqc = CardArqc(b[r.key], BrandOf(r), kw_option[r.deriv], r,
                                             CardTxn(r))
                        /\ r.deriv = "A"
         IN
         /\ \A o : Passes(ArqcCall(r), b, Nothing, o) =>
              /\ genuine
              /\ o = IF Response(r) = <<>> THEN Nothing
                     ELSE Datum("arpc", r.arqc.key, r.arqc.alg, r.arqc.of \o Response(r), 16)
         /\ Mismatches(ArqcCall(r), b, Nothing) \/ Rejects(ArqcCall(r), b, Nothing) =>
              ~genuine
PROOF
  <1> DEFINE of == CardData(BrandOf(r), kw_option[r.deriv], r, r.txn)
             brand == BrandOf(r)
             k == b[r.key]
             resp == Response(r)
             made == Datum("arqc", k, Derivation(brand), of, 16)
             call == Call("verify_auth_request_cryptogram", <<r.key>>, brand, of,
                          r.arqc, resp, 0)
  <1>1. /\ r.key \in Mapped /\ BrandOf(r) \in Brands /\ r.deriv \in {"A", "B"}
        /\ r \in CardFrameFields /\ r.padding # "1"
    BY ArqcShape DEF CardFrame
  <1>2. CardArqc(k, brand, kw_option[r.deriv], r, CardTxn(r)) = made
    BY <1>1, Zenon DEF CardArqc, CardTxn
  <1>3. of[1] = kw_option[r.deriv]
    <2>1. "OptionA" \in STRING /\ "OptionB" \in STRING
      BY LiteralsAssumption
    <2>2. kw_option[r.deriv] \in STRING
      BY <1>1, <2>1, SchemeBrands, Zenon
    <2> QED BY <2>2, <1>1, SessionIsCards
  <1>4. of[1] # "OptionB" <=> r.deriv = "A"
    <2> HIDE DEF of
    <2> QED BY <1>1, <1>3, SchemeBrands
  <1>5. made.key = k /\ made.alg = Derivation(brand) /\ made.of = of
    BY DEF Datum
  <1>6. ArqcCall(r) = call
    BY Zenon DEF ArqcCall
  <1> HIDE DEF of, brand, resp
  <1>7. /\ \A o : Passes(call, b, Nothing, o) =>
             /\ r.arqc = made /\ of[1] # "OptionB"
             /\ o = IF resp = <<>> THEN Nothing ELSE Datum("arpc", k, Derivation(brand), of \o resp, 16)
        /\ Mismatches(call, b, Nothing) \/ Rejects(call, b, Nothing) =>
             r.arqc # made \/ of[1] = "OptionB"
    <2>1. ASSUME NEW o, Passes(call, b, Nothing, o)
          PROVE  /\ r.arqc = made /\ of[1] # "OptionB"
                 /\ o = IF resp = <<>> THEN Nothing
                        ELSE Datum("arpc", k, Derivation(brand), of \o resp, 16)
      BY <1>1, <2>1, ArqcAnswers, Zenon
    <2>2. ASSUME Mismatches(call, b, Nothing) \/ Rejects(call, b, Nothing)
          PROVE  r.arqc # made \/ of[1] = "OptionB"
      <3> DEFINE key == r.key
                 arqc == r.arqc
      <3>1. /\ key \in Mapped
            /\ \/ Mismatches(Call("verify_auth_request_cryptogram", <<key>>, brand, of,
                                  arqc, resp, 0), b, Nothing)
               \/ Rejects(Call("verify_auth_request_cryptogram", <<key>>, brand, of,
                               arqc, resp, 0), b, Nothing)
        BY <1>1, <2>2
      <3> HIDE DEF key, arqc, k
      <3>2. arqc # Datum("arqc", b[key], Derivation(brand), of, 16) \/ of[1] = "OptionB"
        BY <3>1, ArqcAnswers
      <3> QED BY <3>2 DEF key, arqc, k
    <2> HIDE DEF call, made, k
    <2> QED BY <2>1, <2>2, Zenon
  <1> HIDE DEF made, call, k
  <1> DEFINE genuine == r.arqc = made /\ r.deriv = "A"
  <1>8. ASSUME NEW o, Passes(call, b, Nothing, o)
        PROVE  /\ genuine
               /\ o = IF resp = <<>> THEN Nothing
                      ELSE Datum("arpc", r.arqc.key, r.arqc.alg, r.arqc.of \o resp, 16)
    <2>1. /\ r.arqc = made /\ of[1] # "OptionB"
          /\ o = IF resp = <<>> THEN Nothing ELSE Datum("arpc", k, Derivation(brand), of \o resp, 16)
      BY <1>7, <1>8, Zenon
    <2>2. genuine
      BY <2>1, <1>4
    <2>3. r.arqc.key = k /\ r.arqc.alg = Derivation(brand) /\ r.arqc.of = of
      BY <2>1, <1>5, Zenon
    <2> HIDE DEF genuine
    <2> QED BY <2>1, <2>2, <2>3, Zenon
  <1>9. Mismatches(call, b, Nothing) \/ Rejects(call, b, Nothing) => ~genuine
    BY <1>4, <1>7
  <1> HIDE DEF genuine
  <1>10. /\ \A o : Passes(ArqcCall(r), b, Nothing, o) =>
              /\ genuine
              /\ o = IF resp = <<>> THEN Nothing
                     ELSE Datum("arpc", r.arqc.key, r.arqc.alg, r.arqc.of \o resp, 16)
         /\ Mismatches(ArqcCall(r), b, Nothing) \/ Rejects(ArqcCall(r), b, Nothing) =>
              ~genuine
    BY <1>6, <1>8, <1>9
  <1>11. /\ r.arqc = CardArqc(b[r.key], BrandOf(r), kw_option[r.deriv], r, CardTxn(r))
         /\ r.deriv = "A"
         <=> genuine
    BY <1>2 DEF genuine, brand, k
  <1> QED BY <1>10, <1>11, Zenon DEF resp

(* The one call of an answered command of a cryptogram.                    *)
LEMMA ArqcCalled ==
  ASSUME CardholderTraffic, HInv(CardholderData), NEW c \in Conns, code[c] # "none",
         req[c].cmd \in ArqcCommands, code[c] = "00" \/ (trace[c] # <<>> /\ ~faulted[c])
  PROVE  /\ CardFrame(req[c]) /\ CardProgram(req[c]).calls # <<>>
         /\ Keyed(trace[c][1])
         /\ \/ code[c] = "00" /\ Passes(ArqcCall(req[c]), trace[c][1], Nothing, out[c])
            \/ code[c] = "01" /\ Mismatches(ArqcCall(req[c]), trace[c][1], Nothing)
            \/ code[c] = "41" /\ Rejects(ArqcCall(req[c]), trace[c][1], Nothing)
PROOF
  <1> DEFINE r == req[c]
             call == ArqcCall(r)
  <1>1. CardFrame(r) /\ Program(r) = CardProgram(r)
    BY PinOrCard, AnsweredCardholder
  <1>2. CardProgram(r).calls # <<>>
    <2>1. CASE code[c] = "00"
      <3>1. CardProgram(r).refusal = "none"
        BY <1>1, <2>1, OkNotRefused
      <3> QED BY <3>1, CardholderCalls
    <2>2. CASE trace[c] # <<>>
      BY <1>1, <2>2, NoCall
    <2> QED BY <2>1, <2>2
  <1>3. Program(r).calls = <<call>>
    BY <1>1, <1>2, ArqcShape
  <1> HIDE DEF call
  <1>4. /\ Keyed(trace[c][1])
        /\ \/ code[c] = "00" /\ Passes(call, trace[c][1], Nothing, out[c])
           \/ code[c] = "01" /\ Mismatches(call, trace[c][1], Nothing)
           \/ code[c] = "41" /\ Rejects(call, trace[c][1], Nothing)
    BY <1>3, OneCall
  <1> QED BY <1>1, <1>2, <1>4 DEF call

(* ArqcAcceptedIfGenuine, for every traffic of cardholders: however many   *)
(* connections, keys, cards and transactions there are, and whenever an    *)
(* alias is pointed elsewhere, the ARQC commands answer 00 exactly to the  *)
(* cryptogram that a card of their brand made for this transaction.        *)
THEOREM OnlyGenuineArqcsPass ==
  ASSUME CardholderTraffic PROVE Spec => []ArqcAcceptedIfGenuine
PROOF
  <1>1. HInv(CardholderData) => ArqcAcceptedIfGenuine
    <2> SUFFICES ASSUME HInv(CardholderData), NEW c \in Conns,
                        Decided(c, ArqcCommands), trace[c] # <<>>
                 PROVE  code[c] = "00" <=> Genuine(c) /\ req[c].deriv = "A"
      BY DEF ArqcAcceptedIfGenuine
    <2> DEFINE r == req[c]
               b == trace[c][1]
               genuine == /\ r.arqc = CardArqc(b[r.key], BrandOf(r), kw_option[r.deriv], r,
                                               CardTxn(r))
                          /\ r.deriv = "A"
    <2>1. code[c] # "none" /\ r.cmd \in ArqcCommands /\ ~faulted[c]
      BY DEF Decided
    <2>2. /\ CardFrame(r) /\ CardProgram(r).calls # <<>> /\ Keyed(b)
          /\ \/ code[c] = "00" /\ Passes(ArqcCall(r), b, Nothing, out[c])
             \/ code[c] = "01" /\ Mismatches(ArqcCall(r), b, Nothing)
             \/ code[c] = "41" /\ Rejects(ArqcCall(r), b, Nothing)
      BY <2>1, ArqcCalled
    <2>3. Genuine(c) /\ r.deriv = "A" <=> genuine
      BY DEF Genuine
    <2> HIDE DEF b
    <2>4. /\ Passes(ArqcCall(r), b, Nothing, out[c]) => genuine
          /\ Mismatches(ArqcCall(r), b, Nothing) \/ Rejects(ArqcCall(r), b, Nothing) =>
               ~genuine
      BY <2>1, <2>2, ArqcCallDecides, Zenon
    <2> HIDE DEF genuine
    <2> QED BY <2>2, <2>3, <2>4
  <1> QED BY <1>1, CardholdersExplained, PTL

(* ArpcAnswersTheCard, for every traffic of cardholders: the ARPC is of    *)
(* the session and transaction of the cryptogram just verified and of the  *)
(* host's response, and there is one exactly if the host asked for it.     *)
THEOREM CardsGetTheirArpc ==
  ASSUME CardholderTraffic PROVE Spec => []ArpcAnswersTheCard
PROOF
  <1>1. HInv(CardholderData) => ArpcAnswersTheCard
    <2> SUFFICES ASSUME HInv(CardholderData), NEW c \in Conns,
                        Answered(c, ArqcCommands, "00")
                 PROVE  IF req[c].cmd \in {"KQ", "KW", "JS"} /\ req[c].mode # "0"
                        THEN out[c] = Datum("arpc", req[c].arqc.key, req[c].arqc.alg,
                                            req[c].arqc.of \o <<req[c].mode, req[c].arc>>, 16)
                        ELSE out[c] = Nothing
      BY DEF ArpcAnswersTheCard
    <2> DEFINE r == req[c]
               b == trace[c][1]
    <2>1. code[c] = "00" /\ code[c] # "none" /\ r.cmd \in ArqcCommands
      BY DEF Answered
    <2>2. /\ CardFrame(r) /\ CardProgram(r).calls # <<>> /\ Keyed(b)
          /\ Passes(ArqcCall(r), b, Nothing, out[c])
      BY <2>1, ArqcCalled
    <2> HIDE DEF b
    <2>3. out[c] = IF Response(r) = <<>> THEN Nothing
                   ELSE Datum("arpc", r.arqc.key, r.arqc.alg, r.arqc.of \o Response(r), 16)
      BY <2>1, <2>2, ArqcCallDecides, Zenon
    <2>4. CASE r.cmd \in {"KQ", "KW", "JS"} /\ r.mode # "0"
      <3>1. Response(r) = <<r.mode, r.arc>>
        BY <2>4, Zenon DEF Response
      <3>2. <<r.mode, r.arc>> # <<>>
        OBVIOUS
      <3>3. Response(r) # <<>>
        BY <3>1, <3>2, Zenon
      <3>4. out[c] = Datum("arpc", r.arqc.key, r.arqc.alg, r.arqc.of \o Response(r), 16)
        BY <2>3, <3>3, Zenon
      <3> QED BY <3>1, <3>4, <2>4, Zenon
    <2>5. CASE ~(r.cmd \in {"KQ", "KW", "JS"} /\ r.mode # "0")
      <3>1. Response(r) = <<>>
        BY <2>5, Zenon DEF Response
      <3> QED BY <3>1, <2>3, <2>5, Zenon
    <2> QED BY <2>4, <2>5
  <1> QED BY <1>1, CardholdersExplained, PTL

(* CvvAcceptedIfIssued, for every traffic of cardholders: CY accepts       *)
(* exactly what CW issues for the same card, expiry and service code.      *)
THEOREM OnlyIssuedCvvsPass ==
  ASSUME CardholderTraffic PROVE Spec => []CvvAcceptedIfIssued
PROOF
  <1>1. HInv(CardholderData) => CvvAcceptedIfIssued
    <2> SUFFICES ASSUME HInv(CardholderData), NEW c \in Conns,
                        Decided(c, {"CY"}), trace[c] # <<>>
                 PROVE  code[c] = "00" <=>
                          req[c].cvv = Datum("cvv", trace[c][1][req[c].key], "CVV1",
                                       <<req[c].pan, req[c].expiry, req[c].service>>, 3)
      BY DEF CvvAcceptedIfIssued
    <2> DEFINE r == req[c]
               b == trace[c][1]
               of == read_expiry_service(r)
               call == Call("verify_card_validation_data", <<r.key>>, "CVV1", of,
                            r.cvv, <<>>, 0)
               made == Datum("cvv", b[r.key], "CVV1", of, 3)
    <2>1. code[c] # "none" /\ r.cmd = "CY" /\ ~faulted[c]
      BY DEF Decided
    <2>2. Program(r) = CardProgram(r)
      BY <2>1, PinOrCard, AnsweredCardholder
    <2>3. CardProgram(r).calls # <<>>
      BY <2>1, <2>2, NoCall
    <2>4. CardProgram(r).calls = CY(r).calls
      BY <2>1, CardDispatch, Zenon
    <2>5. CvvGuard(r) /\ Program(r).calls = <<call>>
      BY <2>2, <2>3, <2>4, CvvPlans, Zenon
    <2>6. r.key \in Mapped
      BY <2>5 DEF CvvGuard
    <2>7. of = <<r.pan, r.expiry, r.service>>
      BY DEF read_expiry_service
    <2> HIDE DEF call, of
    <2>8. /\ Keyed(b)
          /\ \/ code[c] = "00" /\ Passes(call, b, Nothing, out[c])
             \/ code[c] = "01" /\ Mismatches(call, b, Nothing)
             \/ code[c] = "41" /\ Rejects(call, b, Nothing)
      BY <2>1, <2>5, OneCall
    <2> HIDE DEF b
    <2>9. /\ Passes(call, b, Nothing, out[c]) => r.cvv = made
          /\ Mismatches(call, b, Nothing) \/ Rejects(call, b, Nothing) => r.cvv # made
      BY <2>6, <2>8, CvvAnswers, Zenon DEF call
    <2> HIDE DEF made
    <2>10. code[c] = "00" <=> r.cvv = made
      BY <2>8, <2>9
    <2> QED BY <2>7, <2>10, Zenon DEF made, b
  <1> QED BY <1>1, CardholdersExplained, PTL

-------------------------------------------------------------------------------
(* An answered PIN command: its frame and its plan.                        *)
LEMMA PinCalled ==
  ASSUME CardholderTraffic, HInv(CardholderData), NEW c \in Conns, code[c] # "none",
         req[c].cmd \in Checks \cup Changes \cup {"CC", "CA"},
         (code[c] = "00" /\ req[c].cmd \notin Checks) \/ trace[c] # <<>>
  PROVE  /\ \E hold \in SUBSET CardholderData : PinFrame(req[c], hold)
         /\ Program(req[c]) = PinProgram(req[c]) /\ PinProgram(req[c]).calls # <<>>
PROOF
  <1> DEFINE r == req[c]
  <1>1. /\ \E hold \in SUBSET CardholderData : PinFrame(r, hold)
        /\ Program(r) = PinProgram(r)
    <2>1. r.cmd \notin CardCommands
      BY PinOrCard
    <2> QED BY <2>1, AnsweredCardholder, Zenon
  <1>2. PinProgram(r).calls # <<>>
    <2>1. CASE code[c] = "00" /\ r.cmd \notin Checks
      <3>1. PinProgram(r).refusal = "none"
        BY <1>1, <2>1, OkNotRefused
      <3> QED BY <2>1, <3>1, CardholderCalls
    <2>2. CASE trace[c] # <<>>
      BY <1>1, <2>2, NoCall
    <2> QED BY <2>1, <2>2
  <1> QED BY <1>1, <1>2

(* PinAcceptedIfRight, for every traffic of cardholders: however many      *)
(* PINs, accounts and keys there are, the PIN verifications answer 00      *)
(* exactly if the block and the reference value are of one PIN.            *)
THEOREM OnlyTheRightPinPasses ==
  ASSUME CardholderTraffic PROVE Spec => []PinAcceptedIfRight
PROOF
  <1>1. HInv(CardholderData) => PinAcceptedIfRight
    <2> SUFFICES ASSUME HInv(CardholderData), NEW c \in Conns,
                        Decided(c, Checks), trace[c] # <<>>
                 PROVE  code[c] = "00" <=>
                          /\ Holds(req[c], req[c].block, trace[c][1][req[c].key],
                                   PinOf(req[c].block))
                          /\ RefersTo(req[c], req[c].ref, trace[c][1][req[c].key2],
                                      PinOf(req[c].block))
                          /\ req[c].cmd = "CK" => req[c].block.alg = "ISO0"
      BY DEF PinAcceptedIfRight
    <2> DEFINE r == req[c]
               b == trace[c][1]
               call == PinCheck(r)
    <2>1. code[c] # "none" /\ r.cmd \in Checks /\ ~faulted[c]
      BY DEF Decided
    <2>2. /\ \E hold \in SUBSET CardholderData : PinFrame(r, hold)
          /\ Program(r) = PinProgram(r) /\ PinProgram(r).calls # <<>>
      BY <2>1, PinCalled
    <2>3. PICK hold \in SUBSET CardholderData : PinFrame(r, hold)
      BY <2>2
    <2>4. Program(r).calls = <<call>> /\ r.wire /\ KeysGuard(r)
      <3>1. r.cmd \notin Changes
        BY <2>1 DEF Checks, Changes
      <3> QED BY <3>1, <2>1, <2>2, PinShape
    <2> HIDE DEF call
    <2>5. /\ Keyed(b)
          /\ \/ code[c] = "00" /\ Passes(call, b, Nothing, out[c])
             \/ code[c] = "01" /\ Mismatches(call, b, Nothing)
             \/ code[c] = "41" /\ Rejects(call, b, Nothing)
      BY <2>1, <2>4, OneCall
    <2>6. RightRef(r, b) <=>
            /\ Holds(r, r.block, trace[c][1][r.key], PinOf(r.block))
            /\ RefersTo(r, r.ref, trace[c][1][r.key2], PinOf(r.block))
            /\ r.cmd = "CK" => r.block.alg = "ISO0"
      <3> DEFINE k == trace[c][1][r.key]
                 fits(fmt) == InBlock(r.block, k, fmt, HostBinding(r))
      <3>1. \A fmt : fits(fmt) => r.block.alg = fmt
        BY DEF InBlock, PinBlock, Datum
      <3>2. r.cmd = "CK" => HostFormat(r) = r.block.alg
        BY DEF HostFormat
      <3>3. fits(CallFormat(r)) <=> fits(HostFormat(r)) /\ (r.cmd = "CK" => r.block.alg = "ISO0")
        <4> HIDE DEF fits
        <4> QED BY <3>1, <3>2, Zenon DEF CallFormat
      <3>4. Holds(r, r.block, k, PinOf(r.block)) <=> fits(HostFormat(r))
        BY Zenon DEF InBlock, Holds
      <3>5. RightRef(r, b) <=>
              /\ fits(CallFormat(r))
              /\ RefersTo(r, r.ref, trace[c][1][r.key2], PinOf(r.block))
        BY Zenon DEF RightRef, RefersTo
      <3> HIDE DEF fits, k
      <3> QED BY <3>3, <3>4, <3>5, Zenon DEF k
    <2> HIDE DEF b
    <2>7. /\ Passes(call, b, Nothing, out[c]) => RightRef(r, b)
          /\ Mismatches(call, b, Nothing) \/ Rejects(call, b, Nothing) => ~RightRef(r, b)
      BY <2>1, <2>3, <2>4, <2>5, PinCheckAnswers DEF call
    <2>8. code[c] = "00" <=> RightRef(r, b)
      BY <2>5, <2>7
    <2> QED BY <2>6, <2>8
  <1> QED BY <1>1, CardholdersExplained, PTL

(* PinChangeIsRight, for every traffic of cardholders: DU and CU release   *)
(* the value of the new PIN only after the current one was found right,    *)
(* each under the keys that the aliases named when the call was made.      *)
THEOREM OnlyRightPinsAreChanged ==
  ASSUME CardholderTraffic PROVE Spec => []PinChangeIsRight
PROOF
  <1>1. HInv(CardholderData) => PinChangeIsRight
    <2> SUFFICES ASSUME HInv(CardholderData), NEW c \in Conns,
                        Answered(c, Changes, "00")
                 PROVE  /\ Holds(req[c], req[c].block, trace[c][1][req[c].key],
                                 PinOf(req[c].block))
                        /\ RefersTo(req[c], req[c].ref, trace[c][1][req[c].key2],
                                    PinOf(req[c].block))
                        /\ Holds(req[c], req[c].newBlock, trace[c][2][req[c].key],
                                 PinOf(req[c].newBlock))
                        /\ RefersTo(req[c], out[c], trace[c][2][req[c].key2],
                                    PinOf(req[c].newBlock))
                        /\ out[c].kind = req[c].ref.kind
                        /\ out[c].len = IF req[c].cmd = "DU" THEN 12 ELSE 4
                        /\ req[c].key2 \notin Aliases => out[c].key = req[c].ref.key
      BY DEF PinChangeIsRight
    <2> DEFINE r == req[c]
               b == trace[c][1]
               e == trace[c][2]
               call == PinCheck(r)
               next == PinMake(r)
    <2>1. code[c] = "00" /\ code[c] # "none" /\ r.cmd \in Changes
      BY DEF Answered
    <2>2. /\ \E hold \in SUBSET CardholderData : PinFrame(r, hold)
          /\ Program(r) = PinProgram(r) /\ PinProgram(r).calls # <<>>
      <3>1. r.cmd \notin Checks
        BY <2>1 DEF Checks, Changes
      <3> QED BY <2>1, <3>1, PinCalled
    <2>3. PICK hold \in SUBSET CardholderData : PinFrame(r, hold)
      BY <2>2
    <2>4. Program(r).calls = <<call, next>> /\ r.wire /\ KeysGuard(r)
      BY <2>1, <2>2, PinShape
    <2> HIDE DEF call, next
    <2>5. /\ Keyed(b) /\ Keyed(e)
          /\ \A x \in Mapped \ Aliases : b[x] = e[x]
          /\ \E m : Passes(call, b, Nothing, m) /\ Passes(next, e, m, out[c])
      BY <2>1, <2>4, TwoCalls
    <2> HIDE DEF b, e
    <2>6. PICK m : Passes(call, b, Nothing, m) /\ Passes(next, e, m, out[c])
      BY <2>5
    <2>7. RightRef(r, b)
      BY <2>1, <2>3, <2>4, <2>5, <2>6, PinCheckAnswers DEF call
    <2>8. /\ InBlock(r.newBlock, e[r.key], CallFormat(r), HostBinding(r))
          /\ out[c].kind = r.ref.kind /\ out[c].key = e[r.key2]
          /\ out[c].of = Append(HostValue(r), PinOf(r.newBlock))
          /\ out[c].len = IF r.cmd = "DU" THEN 12 ELSE 4
      <3>1. NewRef(r, e, out[c])
        BY <2>1, <2>3, <2>4, <2>5, <2>6, PinMakeAnswers DEF next
      <3> QED BY <3>1, Zenon DEF NewRef
    <2>9. ASSUME r.key2 \notin Aliases PROVE out[c].key = r.ref.key
      <3>1. b[r.key2] = e[r.key2]
        BY <2>4, <2>5, <2>9 DEF KeysGuard
      <3>2. r.ref.key = b[r.key2]
        BY <2>7 DEF RightRef
      <3> QED BY <3>1, <3>2, <2>8
    <2>10. CallFormat(r) = HostFormat(r)
      BY <2>1 DEF CallFormat, Changes
    <2>11. /\ Holds(r, r.block, b[r.key], PinOf(r.block))
           /\ RefersTo(r, r.ref, b[r.key2], PinOf(r.block))
      BY <2>7, <2>10, Zenon DEF RightRef, InBlock, Holds, RefersTo
    <2>12. /\ Holds(r, r.newBlock, e[r.key], PinOf(r.newBlock))
           /\ RefersTo(r, out[c], e[r.key2], PinOf(r.newBlock))
      BY <2>8, <2>10, Zenon DEF InBlock, Holds, RefersTo
    <2> QED BY <2>8, <2>9, <2>11, <2>12 DEF b, e
  <1> QED BY <1>1, CardholdersExplained, PTL

(* TranslationKeepsPin, for every traffic of cardholders: CC and CA leave  *)
(* the PIN in a block of the format and under the key that were asked for. *)
THEOREM TranslatedPinsAreKept ==
  ASSUME CardholderTraffic PROVE Spec => []TranslationKeepsPin
PROOF
  <1>1. HInv(CardholderData) => TranslationKeepsPin
    <2> SUFFICES ASSUME HInv(CardholderData), NEW c \in Conns,
                        Answered(c, {"CC", "CA"}, "00"),
                        Holds(req[c], req[c].block, trace[c][1][req[c].key],
                              PinOf(req[c].block))
                 PROVE  out[c] = PinBlock(trace[c][1][req[c].key2],
                                          map_pin_block_format[req[c].fmt2],
                                          <<req[c].acct>>, PinOf(req[c].block), 16)
      BY DEF TranslationKeepsPin
    <2> DEFINE r == req[c]
               b == trace[c][1]
    <2>1. code[c] = "00" /\ code[c] # "none" /\ r.cmd \in {"CC", "CA"}
      BY DEF Answered
    <2>2. /\ \E hold \in SUBSET CardholderData : PinFrame(r, hold)
          /\ Program(r) = PinProgram(r) /\ PinProgram(r).calls # <<>>
      <3>1. r.cmd \notin Checks
        BY <2>1 DEF Checks
      <3> QED BY <2>1, <3>1, PinCalled
    <2>3. PICK hold \in SUBSET CardholderData : PinFrame(r, hold)
      BY <2>2
    <2>4. PICK call :
            /\ PinProgram(r).calls = <<call>>
            /\ \A d, prev, o :
                 Keyed(d) /\ Passes(call, d, prev, o) =>
                   /\ InBlock(r.block, d[r.key], CallFormat(r), HostBinding(r)) =>
                        o = PinBlock(d[r.key2], map_pin_block_format[r.fmt2], <<r.acct>>,
                                     PinOf(r.block), 16)
                   /\ o \in CardholderData
      BY <2>1, <2>2, <2>3, TranslateAnswers, Zenon
    <2>5. Keyed(b) /\ Passes(call, b, Nothing, out[c])
      BY <2>1, <2>2, <2>4, OneCall
    <2>6. InBlock(r.block, b[r.key], CallFormat(r), HostBinding(r))
      <3>1. CallFormat(r) = HostFormat(r)
        BY <2>1 DEF CallFormat
      <3> QED BY <3>1, Zenon DEF Holds, InBlock
    <2> HIDE DEF b
    <2>7. out[c] = PinBlock(b[r.key2], map_pin_block_format[r.fmt2], <<r.acct>>,
                            PinOf(r.block), 16)
      BY <2>4, <2>5, <2>6, Zenon
    <2> QED BY <2>7 DEF b
  <1> QED BY <1>1, CardholdersExplained, PTL

(* TypeOK, for every traffic of cardholders.                               *)
THEOREM CardholderTypes ==
  ASSUME CardholderTraffic PROVE Spec => []TypeOK
PROOF BY CardholdersServed, TypesAreKept

===============================================================================
