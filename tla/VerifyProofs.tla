----------------------------- MODULE VerifyProofs -----------------------------
(* What a passing report of --verify-only means, for every set of mappings,*)
(* configurations, keys and files, and for any number of changes.          *)
EXTENDS Verify, FramingProofs

Up(b) == IF b \in 97 .. 122 THEN b - 32 ELSE b

(* to_ascii_uppercase works on each byte by itself.                        *)
LEMMA UpperSeq ==
  ASSUME NEW s \in Seq(Bytes)
  PROVE  /\ to_ascii_uppercase(s) \in Seq(Bytes)
         /\ Len(to_ascii_uppercase(s)) = Len(s)
         /\ \A i \in 1 .. Len(s) : to_ascii_uppercase(s)[i] = Up(s[i])
<1> DEFINE u == to_ascii_uppercase(s)
<1>1. DOMAIN s = 1 .. Len(s) /\ Len(s) \in Nat /\ \A i \in 1 .. Len(s) : s[i] \in Bytes
  OBVIOUS
<1>2. u = [i \in 1 .. Len(s) |-> Up(s[i])]
  BY <1>1 DEF to_ascii_uppercase, Up
<1>3. \A i \in 1 .. Len(s) : Up(s[i]) \in Bytes
  BY <1>1 DEF Up, Bytes, Radix
<1>4. u \in Seq(Bytes) /\ Len(u) = Len(s)
  BY <1>1, <1>2, <1>3
<1> QED BY <1>1, <1>2, <1>4

(* The same for the six digits that are compared.                          *)
LEMMA UpperOfSix ==
  ASSUME NEW s \in Seq(Bytes), Len(s) >= 6
  PROVE  /\ to_ascii_uppercase(SubSeq(s, 1, 6)) \in Seq(Bytes)
         /\ Len(to_ascii_uppercase(SubSeq(s, 1, 6))) = 6
         /\ \A i \in 1 .. 6 : to_ascii_uppercase(SubSeq(s, 1, 6))[i] = Up(s[i])
<1> DEFINE t == SubSeq(s, 1, 6)
<1>1. t \in Seq(Bytes) /\ Len(t) = 6 /\ \A i \in 1 .. 6 : t[i] = s[i]
  OBVIOUS
<1> HIDE DEF t
<1>2. /\ to_ascii_uppercase(t) \in Seq(Bytes)
      /\ Len(to_ascii_uppercase(t)) = Len(t)
      /\ \A i \in 1 .. Len(t) : to_ascii_uppercase(t)[i] = Up(t[i])
  BY <1>1, UpperSeq, Zenon
<1>3. \A i \in 1 .. 6 : to_ascii_uppercase(t)[i] = Up(s[i])
  BY <1>1, <1>2, Zenon
<1> QED BY <1>1, <1>2, <1>3 DEF t

(* Two values agree in six digits if these are the same letters.           *)
LEMMA SixAgree ==
  ASSUME NEW s \in Seq(Bytes), NEW t \in Seq(Bytes), Len(s) >= 6, Len(t) >= 6
  PROVE  (to_ascii_uppercase(SubSeq(s, 1, 6)) = to_ascii_uppercase(SubSeq(t, 1, 6)))
           <=> (\A i \in 1 .. 6 : Up(s[i]) = Up(t[i]))
<1> DEFINE a == to_ascii_uppercase(SubSeq(s, 1, 6))
           b == to_ascii_uppercase(SubSeq(t, 1, 6))
<1>1. a \in Seq(Bytes) /\ Len(a) = 6 /\ \A i \in 1 .. 6 : a[i] = Up(s[i])
  BY UpperOfSix
<1>2. b \in Seq(Bytes) /\ Len(b) = 6 /\ \A i \in 1 .. 6 : b[i] = Up(t[i])
  BY UpperOfSix
<1> HIDE DEF a, b
<1>3. ASSUME \A i \in 1 .. 6 : Up(s[i]) = Up(t[i]) PROVE a = b
  BY <1>1, <1>2, <1>3, SeqEqual
<1>4. ASSUME a = b PROVE \A i \in 1 .. 6 : Up(s[i]) = Up(t[i])
  BY <1>1, <1>2, <1>4
<1> QED BY <1>3, <1>4 DEF a, b

(* parse_bv takes the field that an HSM prints for a check value and       *)
(* keeps its first six digits.                                             *)
LEMMA PrintedField ==
  ASSUME NEW s \in Seq(Bytes), Printed(s)
  PROVE  /\ Len(s) >= 6 /\ KcvField(s).tag = "Kcv"
         /\ KcvField(s).kcv \in Seq(Bytes) /\ Len(KcvField(s).kcv) >= 6
         /\ \A i \in 1 .. 6 : KcvField(s).kcv[i] = Up(s[i])
<1>1. PICK n \in {6, 16} :
        /\ n <= Len(s) /\ trim_end(s) = SubSeq(s, 1, n)
        /\ \A i \in 1 .. n : to_ascii_uppercase(s)[i] \in HexDigits
  BY DEF Printed
<1> DEFINE t == SubSeq(s, 1, n)
           u == to_ascii_uppercase(t)
<1>2. n \in Nat /\ Len(s) \in Nat /\ n >= 6 /\ n <= Len(s)
  BY <1>1
<1>3. t \in Seq(Bytes) /\ Len(t) = n /\ \A i \in 1 .. n : t[i] = s[i]
  BY <1>2
<1> HIDE DEF t
<1>4. u \in Seq(Bytes) /\ Len(u) = n /\ \A i \in 1 .. n : u[i] = Up(s[i])
  BY <1>3, UpperSeq
<1>5. \A i \in 1 .. n : to_ascii_uppercase(s)[i] = Up(s[i])
  BY <1>2, UpperSeq
<1>6. u = to_ascii_uppercase(trim_end(s))
  BY <1>1 DEF t
<1> HIDE DEF u
<1>7. DOMAIN u = 1 .. n
  BY <1>4
<1>8. KcvField(s) = BvParse("Kcv", u)
  BY <1>1, <1>4, <1>5, <1>6, <1>7 DEF KcvField
<1> QED BY <1>2, <1>4, <1>8 DEF BvParse

(* Letters in upper case stay as they are.                                 *)
LEMMA UpTwice ==
  ASSUME NEW b \in Bytes PROVE Up(Up(b)) = Up(b)
BY DEF Up, Bytes, Radix

(* hsm_probe.rs: the digits that are compared are those of the key.        *)
LEMMA MatchIsSameKey ==
  ASSUME NEW apc \in Seq(Bytes), Len(apc) = 6, NEW s \in Seq(Bytes), Printed(s)
  PROVE  kcv_matches(apc, KcvField(s).kcv) <=> SameKey(apc, s)
<1> DEFINE k == KcvField(s).kcv
<1>1. Len(s) >= 6 /\ k \in Seq(Bytes) /\ Len(k) >= 6 /\ \A i \in 1 .. 6 : k[i] = Up(s[i])
  BY PrintedField
<1> HIDE DEF k
<1>2. Len(k) \in Nat /\ Len(apc) >= 6
  BY <1>1
<1> DEFINE short == IF Len(apc) < Len(k) THEN Len(apc) ELSE Len(k)
           n == IF short < 6 THEN short ELSE 6
<1>3. n = 6 /\ n > 0
  BY <1>1, <1>2
<1>4. kcv_matches(apc, k)
        <=> (to_ascii_uppercase(SubSeq(apc, 1, 6)) = to_ascii_uppercase(SubSeq(k, 1, 6)))
  BY <1>3, Zenon DEF kcv_matches
<1>5. (to_ascii_uppercase(SubSeq(apc, 1, 6)) = to_ascii_uppercase(SubSeq(k, 1, 6)))
        <=> (\A i \in 1 .. 6 : Up(apc[i]) = Up(k[i]))
  BY <1>1, <1>2, SixAgree, Zenon
<1>6. ASSUME NEW i \in 1 .. 6 PROVE Up(k[i]) = Up(s[i])
  <2>1. s[i] \in Bytes /\ k[i] = Up(s[i])
    BY <1>1
  <2> QED BY <2>1, UpTwice, Zenon
<1>7. SameKey(apc, s) <=> (\A i \in 1 .. 6 : Up(apc[i]) = Up(s[i]))
  BY <1>1, <1>2, SixAgree, Zenon DEF SameKey
<1>8. (\A i \in 1 .. 6 : Up(apc[i]) = Up(k[i])) <=> (\A i \in 1 .. 6 : Up(apc[i]) = Up(s[i]))
  BY <1>6, Zenon
<1> QED BY <1>4, <1>5, <1>7, <1>8, Zenon DEF k

-------------------------------------------------------------------------------
(* What parse_bv makes of the replies.                                     *)
LEMMA ProbeBytes ==
  /\ PROBE_HEADER \in Pairs /\ response_code(BU) \in Pairs /\ response_code(BU) = BV
  /\ <<48, 48>> \in Pairs /\ response_code(<<67, 65>>) \in Pairs
  /\ CodeOk \in Pairs /\ CodeDisabled \in Pairs /\ CodeParity \in Pairs
  /\ <<48>> \in Seq(Bytes) /\ << >> \in Seq(Bytes) /\ Len(<< >>) = 0
BY DEF PROBE_HEADER, BU, BV, CodeOk, CodeDisabled, CodeParity, response_code,
       Pairs, Bytes, Radix

(* The codes and headers that parse_bv tells apart are different.          *)
LEMMA ProbeBytesDiffer ==
  /\ <<48, 48>> # PROBE_HEADER /\ response_code(<<67, 65>>) # BV
  /\ CodeDisabled # CodeOk /\ CodeParity # CodeOk /\ CodeParity # CodeDisabled
<1>1. <<48, 48>>[1] = 48 /\ PROBE_HEADER[1] = 80
  BY DEF PROBE_HEADER
<1>2. response_code(<<67, 65>>)[1] = 67 /\ BV[1] = 66
  BY DEF response_code, BV
<1>3. CodeOk[1] = 48 /\ CodeDisabled[1] = 54 /\ CodeParity[1] = 49
  BY DEF CodeOk, CodeDisabled, CodeParity
<1> QED BY <1>1, <1>2, <1>3

(* split_at_checked: the error code and what follows it.                   *)
LEMMA PairAndRest ==
  ASSUME NEW e \in Pairs, NEW p \in Seq(Bytes)
  PROVE  /\ Len(e \o p) = 2 + Len(p) /\ Len(p) \in Nat
         /\ SubSeq(e \o p, 1, 2) = e
         /\ SubSeq(e \o p, 3, Len(e \o p)) = p
<1> DEFINE u == e \o p
<1>1. Follows(e, p, u)
  BY PairThen
<1> HIDE DEF u
<1>2. /\ u \in Seq(Bytes) /\ Len(u) = 2 + Len(p) /\ Len(p) \in Nat
      /\ u[1] = e[1] /\ u[2] = e[2] /\ \A i \in 1 .. Len(p) : u[2 + i] = p[i]
  BY <1>1 DEF Follows
<1>3. e \in Seq(Bytes) /\ Len(e) = 2
  BY DEF Pairs
<1>4. SubSeq(u, 1, 2) = e
  <2>1. SubSeq(u, 1, 2) \in Seq(Bytes) /\ Len(SubSeq(u, 1, 2)) = 2
    BY <1>2
  <2>2. SubSeq(u, 1, 2)[1] = u[1] /\ SubSeq(u, 1, 2)[2] = u[2]
    BY <1>2
  <2>3. \A i \in 1 .. 2 : SubSeq(u, 1, 2)[i] = e[i]
    BY <1>2, <2>2
  <2> QED BY <1>3, <2>1, <2>3, SeqEqual
<1>5. SubSeq(u, 3, Len(u)) = p
  <2> DEFINE r == SubSeq(u, 3, Len(u))
  <2>1. r \in Seq(Bytes) /\ Len(r) = Len(p)
    BY <1>2
  <2>2. ASSUME NEW i \in 1 .. Len(p) PROVE r[i] = p[i]
    <3>1. r[i] = u[3 + i - 1] /\ 3 + i - 1 = 2 + i
      BY <1>2
    <3> QED BY <1>2, <3>1
  <2> HIDE DEF r
  <2>3. r = p
    BY <2>1, <2>2, SeqEqual
  <2> QED BY <2>3 DEF r
<1> QED BY <1>2, <1>4, <1>5 DEF u

(* A whole reply with these parts, and bytes after it.                     *)
LEMMA ReplyParsed ==
  ASSUME NEW h \in Pairs, NEW c \in Pairs, NEW e \in Pairs, NEW p \in Seq(Bytes),
         NEW x \in Seq(Bytes), 6 + Len(p) < Radix * Radix
  PROVE  LET bv == parse_bv(frame_response(h, c, e, p) \o x)
         IN /\ (h # PROBE_HEADER \/ c # BV) => bv = BvParse("Malformed", << >>)
            /\ h = PROBE_HEADER /\ c = BV =>
                 /\ e = CodeOk => bv = KcvField(p)
                 /\ e = CodeDisabled => bv = BvParse("Disabled", << >>)
                 /\ e \notin {CodeOk, CodeDisabled} => bv = BvParse("Error", << >>)
<1> DEFINE buf == frame_response(h, c, e, p) \o x
           q == e \o p
<1>1. Len(q) = 2 + Len(p) /\ Len(p) \in Nat
  BY PairAndRest, Zenon
<1>11. SubSeq(q, 1, 2) = e /\ SubSeq(q, 3, Len(q)) = p
  BY PairAndRest, Zenon
<1>3. Parses(buf) /\ parse(buf) = [header |-> h, code |-> c, payload |-> q]
  BY ResponseRoundTrip
<1> HIDE DEF q, buf
<1>4. parse(buf).header = h /\ parse(buf).code = c /\ parse(buf).payload = q
  BY <1>3
<1>5. ~(Len(parse(buf).payload) < 2)
  BY <1>1, <1>4
<1>6. parse_bv(buf) =
        IF h # PROBE_HEADER \/ c # BV THEN BvParse("Malformed", << >>)
        ELSE IF SubSeq(q, 1, 2) # CodeOk
             THEN BvParse(IF SubSeq(q, 1, 2) = CodeDisabled THEN "Disabled" ELSE "Error", << >>)
             ELSE KcvField(SubSeq(q, 3, Len(q)))
  BY <1>3, <1>4, <1>5 DEF parse_bv
<1>7. CodeDisabled # CodeOk
  BY ProbeBytesDiffer
<1> QED BY <1>11, <1>6, <1>7 DEF buf

Nothing == << >>

(* The empty payload of frame_error fits.                                  *)
LEMMA NothingIsSmall == Nothing \in Seq(Bytes) /\ 6 + Len(Nothing) < Radix * Radix
BY DEF Nothing, Radix

(* The reply of the HSM itself, with or without a byte after it.           *)
LEMMA OwnReply ==
  ASSUME NEW l \in Labels, NEW type \in KeyTypes, NEW x \in Seq(Bytes)
  PROVE  parse_bv(Says(l, type) \o x) =
           IF type \in {"FF", TypeCode[l]} THEN KcvField(LmkKcv[l])
           ELSE BvParse("Error", << >>)
<1>1. Nothing \in Seq(Bytes) /\ 6 + Len(Nothing) < Radix * Radix
  BY NothingIsSmall, ProbeBytes
<1>2. LmkKcv[l] \in Seq(Bytes) /\ 6 + Len(LmkKcv[l]) < Radix * Radix
  BY CheckValueAssumption
<1>3. CASE type \in {"FF", TypeCode[l]}
  <2>1. Says(l, type) = frame_response(PROBE_HEADER, BV, CodeOk, LmkKcv[l])
    BY <1>3, ProbeBytes DEF Says
  <2>2. BV \in Pairs
    BY ProbeBytes
  <2>3. parse_bv(frame_response(PROBE_HEADER, BV, CodeOk, LmkKcv[l]) \o x) = KcvField(LmkKcv[l])
    BY <1>1, <1>2, <2>2, ProbeBytes, ReplyParsed
  <2> QED BY <1>3, <2>1, <2>3
<1>4. CASE type \notin {"FF", TypeCode[l]}
  <2>1. Says(l, type) = frame_response(PROBE_HEADER, BV, CodeParity, Nothing)
    BY <1>4, ProbeBytes DEF Says, frame_error, Nothing
  <2>2. BV \in Pairs
    BY ProbeBytes
  <2>3. parse_bv(frame_response(PROBE_HEADER, BV, CodeParity, Nothing) \o x)
          = BvParse("Error", << >>)
    BY <1>1, <2>2, ProbeBytes, ProbeBytesDiffer, ReplyParsed
  <2> QED BY <1>4, <2>1, <2>3
<1> QED BY <1>3, <1>4

(* A frame is a sequence of bytes, also with nothing after it.             *)
LEMMA NothingAfter ==
  ASSUME NEW h \in Pairs, NEW c \in Pairs, NEW e \in Pairs, NEW p \in Seq(Bytes)
  PROVE  /\ frame_response(h, c, e, p) \in Seq(Bytes)
         /\ frame_response(h, c, e, p) \o Nothing = frame_response(h, c, e, p)
<1>1. h \in Seq(Bytes) /\ c \in Seq(Bytes) /\ e \in Seq(Bytes)
  BY DEF Pairs
<1> DEFINE body == h \o (c \o (e \o p))
<1>2. body \in Seq(Bytes)
  BY <1>1
<1> HIDE DEF body
<1>3. to_be_bytes(Len(body)) \in Seq(Bytes)
  <2>1. ASSUME NEW n \in Nat
        PROVE  (n \div Radix) % Radix \in Bytes /\ n % Radix \in Bytes
    BY DEF Bytes, Radix
  <2>2. Len(body) \in Nat
    BY <1>2
  <2> QED BY <2>1, <2>2 DEF to_be_bytes
<1>4. frame_response(h, c, e, p) = to_be_bytes(Len(body)) \o body
  BY DEF frame_response, body
<1>5. frame_response(h, c, e, p) \in Seq(Bytes)
  BY <1>2, <1>3, <1>4
<1> QED BY <1>5, ConcatEmptySeq DEF Nothing

(* So is what the HSM says.                                                *)
LEMMA SaysIsBytes ==
  ASSUME NEW l \in Labels, NEW type \in KeyTypes
  PROVE  Says(l, type) \in Seq(Bytes) /\ Says(l, type) \o Nothing = Says(l, type)
<1>1. LmkKcv[l] \in Seq(Bytes)
  BY CheckValueAssumption
<1>2. CASE type \in {"FF", TypeCode[l]}
  BY <1>1, <1>2, ProbeBytes, NothingAfter DEF Says
<1>3. CASE type \notin {"FF", TypeCode[l]}
  <2>1. Says(l, type) = frame_response(PROBE_HEADER, response_code(BU), CodeParity, Nothing)
    BY <1>3 DEF Says, frame_error, Nothing
  <2> QED BY <2>1, NothingIsSmall, ProbeBytes, NothingAfter
<1> QED BY <1>2, <1>3

(* Whatever an exchange returns, the check value that is taken from it is  *)
(* the one that the HSM prints for this label; and the HSM's own reply is  *)
(* taken for what it is.                                                   *)
LEMMA HeardOutcome ==
  ASSUME NEW l \in Labels, NEW type \in KeyTypes, NEW resp \in Heard[l][type]
  PROVE  /\ parse_bv(resp).tag = "Kcv" => parse_bv(resp) = KcvField(LmkKcv[l])
         /\ resp \in {Says(l, type), Says(l, type) \o <<48>>} =>
              parse_bv(resp).tag =
                IF type \in {"FF", TypeCode[l]} THEN "Kcv" ELSE "Error"
<1> DEFINE own == {Says(l, type), Says(l, type) \o <<48>>}
           silent == frame_error(PROBE_HEADER, BU, CodeDisabled)
           cuts == {cut \in {SubSeq(Says(l, type), 1, n) : n \in 0 .. Len(Says(l, type))} :
                      ~is_response_complete(cut)}
<1>1. resp \in own \/ resp = silent \/ resp \in cuts \/ resp \in Strays
  <2>1. resp \in Replies(l, type)
    BY DEF Heard
  <2> QED BY <2>1, Zenon DEF Replies
<1>2. ASSUME resp \in own
      PROVE  parse_bv(resp) = IF type \in {"FF", TypeCode[l]} THEN KcvField(LmkKcv[l])
                              ELSE BvParse("Error", << >>)
  <2>1. resp = Says(l, type) \o Nothing \/ resp = Says(l, type) \o <<48>>
    BY <1>2, SaysIsBytes
  <2>2. PICK x \in Seq(Bytes) : resp = Says(l, type) \o x
    BY <2>1, NothingIsSmall, ProbeBytes, Zenon
  <2> QED BY <2>2, OwnReply, Zenon
<1>3. KcvField(LmkKcv[l]).tag = "Kcv" /\ BvParse("Error", << >>).tag = "Error"
  BY CheckValueAssumption, PrintedField DEF BvParse
<1>4. ASSUME resp = silent PROVE parse_bv(resp).tag # "Kcv"
  <2>1. silent = frame_response(PROBE_HEADER, BV, CodeDisabled, Nothing)
    BY ProbeBytes DEF frame_error, Nothing
  <2>2. BV \in Pairs /\ Nothing \in Seq(Bytes) /\ 6 + Len(Nothing) < Radix * Radix
    BY NothingIsSmall, ProbeBytes
  <2>3. resp = frame_response(PROBE_HEADER, BV, CodeDisabled, Nothing) \o Nothing
    BY <1>4, <2>1, <2>2, ProbeBytes, NothingAfter
  <2>4. parse_bv(resp) = BvParse("Disabled", << >>)
    BY <2>2, <2>3, ProbeBytes, ProbeBytesDiffer, ReplyParsed
  <2> QED BY <2>4 DEF BvParse
<1>5. ASSUME resp \in cuts PROVE parse_bv(resp).tag # "Kcv"
  <2>1. PICK n \in 0 .. Len(Says(l, type)) : resp = SubSeq(Says(l, type), 1, n)
    BY <1>5
  <2>2. resp \in Seq(Bytes) /\ ~is_response_complete(resp)
    BY <1>5, <2>1, SaysIsBytes
  <2>3. ~Parses(resp)
    BY <2>2, CutDoesNotParse
  <2> QED BY <2>3 DEF parse_bv, BvParse
<1>6. ASSUME resp \in Strays PROVE parse_bv(resp).tag # "Kcv"
  <2>1. PICK k \in Labels :
          \/ resp = frame_response(<<48, 48>>, response_code(BU), CodeOk, LmkKcv[k])
          \/ resp = frame_response(PROBE_HEADER, response_code(<<67, 65>>), CodeOk, LmkKcv[k])
    BY <1>6 DEF Strays
  <2>2. LmkKcv[k] \in Seq(Bytes) /\ 6 + Len(LmkKcv[k]) < Radix * Radix /\ Nothing \in Seq(Bytes)
    BY CheckValueAssumption, NothingIsSmall
  <2>3. PICK h \in Pairs, c \in Pairs :
          /\ resp = frame_response(h, c, CodeOk, LmkKcv[k])
          /\ h # PROBE_HEADER \/ c # BV
    BY <2>1, ProbeBytes, ProbeBytesDiffer, Zenon
  <2>4. parse_bv(frame_response(h, c, CodeOk, LmkKcv[k]) \o Nothing) = BvParse("Malformed", << >>)
    <3>1. CodeOk \in Pairs
      BY ProbeBytes
    <3> QED BY <2>2, <2>3, <3>1, ReplyParsed, Zenon
  <2>5. parse_bv(resp) = BvParse("Malformed", << >>)
    <3>1. CodeOk \in Pairs
      BY ProbeBytes
    <3>2. resp \o Nothing = resp
      BY <2>2, <2>3, <3>1, NothingAfter, Zenon
    <3> QED BY <2>3, <2>4, <3>2, Zenon
  <2> QED BY <2>5 DEF BvParse
<1> QED BY <1>1, <1>2, <1>3, <1>4, <1>5, <1>6

-------------------------------------------------------------------------------
(* The inductive invariant, in layers.                                     *)
Named == ListenFiles \cup ForwardFiles
BadTags == {"NotFound", "WrongState", "Disabled"}
Tags == BadTags \cup {"none", "ApiError", "Ok"}
Ended == {"done", "up", "refused"}

World ==
  /\ cfg \in Configs /\ svc \in [Identifiers -> Keys]
  /\ files \in [Named -> FileStates]
  /\ per_arn_checked \in [Identifiers -> [tag : Tags, kcv : Seq(Bytes)]]

(* What a lookup says of the key, as long as nobody touches it.            *)
LookupOk ==
  \A i \in Identifiers :
    LET check == per_arn_checked[i]
    IN /\ check.tag = "none" => check = NotChecked
       /\ check.tag = "ApiError" => check = ApiError
       /\ check.tag = "Ok" =>
            /\ Len(check.kcv) = 6
            /\ i \in touched \/ (Usable(svc[i]) /\ svc[i].kcv = check.kcv)
       /\ check.tag \in BadTags => i \in touched \/ ~Usable(svc[i])

WarnCause(l, d) ==
  \/ l \in d \/ Form[l] = "label"
  \/ Form[l] = "variant" /\ TypeCode[l] \notin {"00", "01", "02", "03"}

(* What a line says of the lookup that it was written from.                *)
LineOk ==
  \A l \in cfg.labels :
    LET check == per_arn_checked[Mapping[l]]
    IN /\ line[l] \in {"pass", "checked", "warn"} => check.tag = "Ok"
       /\ line[l] = "checked" => SameKey(check.kcv, LmkKcv[l])
       /\ line[l] = "pass" => ~hsm
       /\ line[l] = "warn" => WarnCause(l, disturbed)
       /\ line[l] = "fail" =>
            \/ check.tag \in BadTags \cup {"ApiError"}
            \/ check.tag = "Ok" /\ probed /\ ~SameKey(check.kcv, LmkKcv[l])

(* The candidates before the present one were refused by the HSM itself.   *)
ProbeOk ==
  pc = "probe" =>
    /\ hsm /\ per_arn_checked[Mapping[cur]].tag = "Ok"
    /\ \/ cur \in disturbed
       \/ \A j \in 1 .. cand - 1 : bu_candidates(cur)[j] \notin {"FF", TypeCode[cur]}

(* A leg that is not there any more has left its trace in the report.      *)
StageOk ==
  /\ pc \in {"creds", "scan"} =>
       ~hsm /\ errors = {} /\ \A l \in cfg.labels : line[l] = "none"
  /\ hsm => probed
  /\ pc \notin {"creds", "scan"} /\ probed /\ ~hsm =>
       "credentials" \in errors \/ "discover.tls" \in errors \/ "hsm" \in warnings
  /\ pc \in Ended =>
       "credentials" \in errors \/ \A l \in cfg.labels : line[l] # "none"

FilesOk ==
  /\ \A f \in errors \cap Named : f \in touched \/ files[f] = "missing"
  /\ "discover.tls" \in errors =>
       HalfPair \/ \E f \in ForwardFiles : f \in touched \/ files[f] # "good"
  /\ pc \notin {"creds", "scan"} /\ probed =>
       \/ "credentials" \in errors \/ "discover.tls" \in errors
       \/ ~HalfPair /\ \A f \in ForwardFiles : f \in touched \/ files[f] = "good"
  /\ pc \in Ended =>
       \/ "credentials" \in errors
       \/ \A f \in Named : f \in touched \/ files[f] # "missing" \/ f \in errors
  /\ refusal = "tls" =>
       errors # {} \/ \E f \in ListenFiles : f \in touched \/ files[f] = "bad"
  /\ pc = "up" => cfg.vendor = "thales_payshield"
  /\ refusal = "tls" => pc = "refused"

IInv == World /\ TypeOK /\ LookupOk /\ LineOk /\ ProbeOk /\ StageOk /\ FilesOk

-------------------------------------------------------------------------------
(* The candidates of each form of a label.                                 *)
LEMMA Candidates ==
  ASSUME NEW l \in Labels
  PROVE  /\ Len(bu_candidates(l)) \in Nat
         /\ DOMAIN bu_candidates(l) = 1 .. Len(bu_candidates(l))
         /\ \A j \in DOMAIN bu_candidates(l) : bu_candidates(l)[j] \in KeyTypes
         /\ (Form[l] = "label") => bu_candidates(l) = << >>
         /\ (Form[l] = "block") => Len(bu_candidates(l)) = 1 /\ bu_candidates(l)[1] = "FF"
         /\ (Form[l] = "variant") =>
              /\ Len(bu_candidates(l)) = 4
              /\ bu_candidates(l)[1] = "01" /\ bu_candidates(l)[2] = "02"
              /\ bu_candidates(l)[3] = "03" /\ bu_candidates(l)[4] = "00"
<1>1. CASE Form[l] = "block"
  BY <1>1 DEF bu_candidates, KeyTypes
<1>2. CASE Form[l] = "variant"
  BY <1>2 DEF bu_candidates, KeyTypes
<1>3. CASE Form[l] = "label"
  BY <1>3 DEF bu_candidates, KeyTypes
<1> QED BY <1>1, <1>2, <1>3, ConfigAssumption

(* Names of files are not the other names of errors.                       *)
LEMMA FileNames ==
  ASSUME cfg \in Configs
  PROVE  "credentials" \notin Named /\ "discover.tls" \notin Named /\ "pair" \notin Named
<1>1. ListenFiles \subseteq {"cert", "key", "ca"}
  BY DEF ListenFiles
<1>2. ForwardFiles \subseteq {"hsm_ca", "hsm_cert", "hsm_key"}
  BY ConfigAssumption DEF ForwardFiles
<1> QED BY <1>1, <1>2 DEF Named

(* Before anything has been looked at.                                     *)
LEMMA InitIInv == Init => IInv
<1> SUFFICES ASSUME Init PROVE IInv
  OBVIOUS
<1> USE DEF Init
<1>1. World
  <2>1. PICK d \in Damages : files = [f \in Named |-> IF f \in DOMAIN d THEN d[f] ELSE "good"]
    BY DEF Named
  <2>2. \A f \in DOMAIN d : d[f] \in FileStates
    BY ConfigAssumption
  <2>3. files \in [Named -> FileStates]
    BY <2>1, <2>2 DEF FileStates
  <2>4. NotChecked \in [tag : Tags, kcv : Seq(Bytes)]
    BY ProbeBytes DEF NotChecked, KeyCheck, Tags
  <2>5. per_arn_checked \in [Identifiers -> [tag : Tags, kcv : Seq(Bytes)]]
    BY <2>4
  <2> QED BY <2>3, <2>5 DEF World
<1>2. TypeOK
  BY DEF TypeOK
<1>3. LookupOk
  BY DEF LookupOk, NotChecked, KeyCheck, BadTags
<1>4. LineOk
  BY DEF LineOk
<1>5. ProbeOk
  BY DEF ProbeOk
<1>6. StageOk
  BY DEF StageOk, Ended
<1>7. FilesOk
  BY DEF FilesOk, Ended
<1> QED BY <1>1, <1>2, <1>3, <1>4, <1>5, <1>6, <1>7 DEF IInv

-------------------------------------------------------------------------------
(* What depends on the configuration alone.                                *)
LEMMA SameConfig ==
  ASSUME cfg' = cfg
  PROVE  /\ ListenFiles' = ListenFiles /\ ForwardFiles' = ForwardFiles
         /\ Named' = Named /\ HalfPair' = HalfPair /\ probed' = probed
BY DEF ListenFiles, ForwardFiles, Named, HalfPair, probed

(* Every label of the configuration has an identifier.                     *)
LEMMA LabelFacts ==
  ASSUME World, NEW l \in cfg.labels
  PROVE  l \in Labels /\ l # NoLabel /\ Mapping[l] \in Identifiers
BY ConfigAssumption DEF World, Identifiers

(* Without credentials the report has its error and no lines.              *)
LEMMA CredentialsStep ==
  ASSUME IInv, NEW b \in BOOLEAN, Credentials(b)
  PROVE  IInv'
<1> USE DEF Credentials, worldVars, IInv
<1>0. /\ ListenFiles' = ListenFiles /\ ForwardFiles' = ForwardFiles
      /\ Named' = Named /\ HalfPair' = HalfPair /\ probed' = probed
  BY SameConfig
<1>1. World'
  BY <1>0 DEF World
<1>2. TypeOK'
  BY DEF TypeOK
<1>3. LookupOk'
  BY DEF LookupOk
<1>4. LineOk'
  BY <1>0 DEF LineOk, WarnCause
<1>5. ProbeOk'
  BY DEF ProbeOk
<1>6. StageOk'
  BY <1>0 DEF StageOk, Ended
<1>7. FilesOk'
  <2>1. "credentials" \notin Named
    BY FileNames DEF World
  <2> QED BY <1>0, <2>1 DEF FilesOk, StageOk, Ended, TypeOK
<1> QED BY <1>1, <1>2, <1>3, <1>4, <1>5, <1>6, <1>7

(* hsm_probe_target: no leg without an error or a warning.                 *)
LEMMA ScanStep ==
  ASSUME IInv, NEW b \in BOOLEAN, Scan(b)
  PROVE  IInv'
<1> USE DEF Scan, worldVars, IInv
<1>0. /\ ListenFiles' = ListenFiles /\ ForwardFiles' = ForwardFiles
      /\ Named' = Named /\ HalfPair' = HalfPair /\ probed' = probed
  BY SameConfig
<1>1. World'
  BY <1>0 DEF World
<1>2. TypeOK'
  BY DEF TypeOK, probed, from_discover
<1>3. LookupOk'
  BY DEF LookupOk
<1>4. LineOk'
  BY <1>0 DEF LineOk, WarnCause, StageOk
<1>5. ProbeOk'
  BY DEF ProbeOk
<1>6. StageOk'
  BY <1>0 DEF StageOk, Ended
<1>7. FilesOk'
  <2>1. "discover.tls" \notin Named
    BY FileNames DEF World
  <2> QED BY <1>0, <2>1 DEF FilesOk, StageOk, Ended, TypeOK, from_discover
<1> QED BY <1>1, <1>2, <1>3, <1>4, <1>5, <1>6, <1>7

(* Judge, for a lookup of now or of before.                                *)
LEMMA JudgeStep ==
  ASSUME IInv, pc = "keys", NEW l \in cfg.labels, line[l] = "none",
         Judge(l, per_arn_checked'[Mapping[l]]),
         World', LookupOk', per_arn_checked'[Mapping[l]].tag # "none",
         \A i \in Identifiers :
           per_arn_checked[i].tag # "none" => per_arn_checked'[i] = per_arn_checked[i],
         UNCHANGED <<cfg, hsm, errors, warnings, worldVars, registry, refusal>>
  PROVE  IInv'
<1> DEFINE check == per_arn_checked'[Mapping[l]]
           probing == check.tag = "Ok" /\ hsm /\ bu_candidates(l) # << >>
<1>0. /\ ListenFiles' = ListenFiles /\ ForwardFiles' = ForwardFiles
      /\ Named' = Named /\ HalfPair' = HalfPair /\ probed' = probed
  BY SameConfig
<1>1. l \in Labels /\ l # NoLabel /\ Mapping[l] \in Identifiers
  BY LabelFacts DEF IInv
<1>2. check \in [tag : Tags, kcv : Seq(Bytes)] /\ check.tag \in Tags
  BY <1>1 DEF World
<1>3. \A m \in cfg.labels : line[m] # "none" =>
        per_arn_checked'[Mapping[m]] = per_arn_checked[Mapping[m]]
  BY LabelFacts DEF IInv, LineOk, BadTags, TypeOK
<1>4. line' \in [cfg.labels -> {"none", "pass", "checked", "warn", "fail"}]
  BY DEF IInv, TypeOK, Judge
<1>5. CASE probing
  <2>1. pc' = "probe" /\ cur' = l /\ cand' = 1 /\ line' = line
    BY <1>5 DEF Judge
  <2>2. TypeOK'
    <3>1. 1 \in DOMAIN bu_candidates(l)
      <4>1. Form[l] \in {"block", "variant", "label"}
        BY <1>1, ConfigAssumption
      <4>2. Form[l] # "label"
        BY <1>1, <1>5, Candidates, Zenon
      <4>3. Len(bu_candidates(l)) \in {1, 4}
        BY <1>1, <4>1, <4>2, Candidates
      <4> QED BY <1>1, <4>3, Candidates
    <3> QED BY <1>1, <2>1, <3>1 DEF IInv, TypeOK, bu_candidates
  <2>3. LineOk'
    BY <1>0, <1>3, <2>1 DEF IInv, LineOk, WarnCause, worldVars
  <2>4. ProbeOk'
    <3>1. 1 .. 1 - 1 = {}
      OBVIOUS
    <3> QED BY <1>5, <2>1, <3>1 DEF ProbeOk
  <2>5. StageOk'
    BY <1>0, <2>1 DEF IInv, StageOk, Ended
  <2>6. FilesOk'
    BY <1>0, <2>1 DEF IInv, FilesOk, Ended, worldVars
  <2> QED BY <2>2, <2>3, <2>4, <2>5, <2>6 DEF IInv
<1>6. CASE ~probing
  <2>1. /\ pc' = "keys" /\ cur' = NoLabel /\ cand' = 0
        /\ line' = [line EXCEPT ![l] = IF check.tag # "Ok" THEN "fail"
                                       ELSE IF hsm THEN "warn" ELSE "pass"]
    BY <1>6 DEF Judge
  <2>2. TypeOK'
    BY <1>4, <2>1 DEF IInv, TypeOK
  <2>3. LineOk'
    <3> SUFFICES ASSUME NEW m \in cfg.labels
                 PROVE  LET c == per_arn_checked'[Mapping[m]]
                        IN /\ line'[m] \in {"pass", "checked", "warn"} => c.tag = "Ok"
                           /\ line'[m] = "checked" => SameKey(c.kcv, LmkKcv[m])
                           /\ line'[m] = "pass" => ~hsm
                           /\ line'[m] = "warn" => WarnCause(m, disturbed)
                           /\ line'[m] = "fail" =>
                                \/ c.tag \in BadTags \cup {"ApiError"}
                                \/ c.tag = "Ok" /\ probed /\ ~SameKey(c.kcv, LmkKcv[m])
      BY <1>0 DEF LineOk, WarnCause, worldVars
    <3>1. CASE m = l
      <4>1. line'[l] = IF check.tag # "Ok" THEN "fail" ELSE IF hsm THEN "warn" ELSE "pass"
        BY <2>1 DEF IInv, TypeOK
      <4>2. check.tag = "Ok" /\ hsm => WarnCause(l, disturbed)
        <5>1. Form[l] \in {"block", "variant", "label"}
          BY <1>1, ConfigAssumption
        <5>2. ASSUME bu_candidates(l) = << >> PROVE Form[l] = "label"
          <6>1. Len(bu_candidates(l)) = 0
            BY <5>2
          <6> QED BY <1>1, <5>1, <6>1, Candidates
        <5> QED BY <1>6, <5>2 DEF WarnCause
      <4>3. check.tag # "Ok" => check.tag \in BadTags \cup {"ApiError"}
        BY <1>2 DEF Tags
      <4> QED BY <3>1, <4>1, <4>2, <4>3
    <3>2. CASE m # l
      <4>1. line'[m] = line[m]
        BY <2>1, <3>2 DEF IInv, TypeOK
      <4>2. line[m] # "none" => per_arn_checked'[Mapping[m]] = per_arn_checked[Mapping[m]]
        BY <1>3
      <4> QED BY <4>1, <4>2 DEF IInv, LineOk
    <3> QED BY <3>1, <3>2
  <2>4. ProbeOk'
    BY <2>1 DEF ProbeOk
  <2>5. StageOk'
    BY <1>0, <2>1 DEF IInv, StageOk, Ended
  <2>6. FilesOk'
    BY <1>0, <2>1 DEF IInv, FilesOk, Ended, worldVars
  <2> QED BY <2>2, <2>3, <2>4, <2>5, <2>6 DEF IInv
<1> QED BY <1>5, <1>6

(* check_one_key says Ok exactly of a usable key.                          *)
LEMMA CheckFacts ==
  ASSUME NEW key \in Keys
  PROVE  /\ check_one_key(key) \in [tag : Tags, kcv : Seq(Bytes)]
         /\ check_one_key(key).tag \in BadTags \cup {"Ok"}
         /\ check_one_key(key).tag = "Ok" =>
              Usable(key) /\ check_one_key(key).kcv = key.kcv /\ Len(key.kcv) = 6
         /\ check_one_key(key).tag \in BadTags => ~Usable(key)
<1>1. key.kcv \in Seq(Bytes) /\ (Usable(key) => Len(key.kcv) = 6) /\ << >> \in Seq(Bytes)
  BY CheckValueAssumption, ProbeBytes
<1>2. CASE key.state = "missing"
  BY <1>1, <1>2 DEF check_one_key, KeyCheck, Tags, BadTags, Usable
<1>3. CASE key.state \notin {"missing", "CREATE_COMPLETE"}
  BY <1>1, <1>3 DEF check_one_key, KeyCheck, Tags, BadTags, Usable
<1>4. CASE key.state = "CREATE_COMPLETE" /\ ~key.enabled
  BY <1>1, <1>4 DEF check_one_key, KeyCheck, Tags, BadTags, Usable
<1>5. CASE key.state = "CREATE_COMPLETE" /\ key.enabled
  BY <1>1, <1>5 DEF check_one_key, KeyCheck, Tags, BadTags, Usable
<1> QED BY <1>2, <1>3, <1>4, <1>5

(* A lookup is right about the key, and the line about the lookup.         *)
LEMMA FetchKeyStep ==
  ASSUME IInv, NEW l \in cfg.labels, NEW check, FetchKey(l, check)
  PROVE  IInv'
<1> DEFINE i == Mapping[l]
<1>0. /\ ListenFiles' = ListenFiles /\ ForwardFiles' = ForwardFiles
      /\ Named' = Named /\ HalfPair' = HalfPair /\ probed' = probed
  BY SameConfig DEF FetchKey
<1>1. i \in Identifiers
  BY LabelFacts DEF IInv
<1>2. svc[i] \in Keys
  BY <1>1 DEF IInv, World
<1>3. /\ per_arn_checked' = [per_arn_checked EXCEPT ![i] = check]
      /\ check \in {check_one_key(svc[i]), ApiError}
      /\ svc' = svc /\ touched' = touched /\ cfg' = cfg /\ files' = files
      /\ per_arn_checked[i] = NotChecked
  BY DEF FetchKey, worldVars
<1>4. /\ check \in [tag : Tags, kcv : Seq(Bytes)] /\ check.tag # "none"
      /\ check.tag = "ApiError" => check = ApiError
      /\ check.tag = "Ok" => Len(check.kcv) = 6 /\ Usable(svc[i]) /\ svc[i].kcv = check.kcv
      /\ check.tag \in BadTags => ~Usable(svc[i])
  <2>1. CASE check = ApiError
    BY <2>1, ProbeBytes DEF ApiError, KeyCheck, Tags, BadTags
  <2>2. CASE check = check_one_key(svc[i])
    BY <1>2, <2>2, CheckFacts DEF BadTags
  <2> QED BY <1>3, <2>1, <2>2
<1>5. World'
  BY <1>0, <1>3, <1>4 DEF IInv, World
<1>6. per_arn_checked'[i] = check /\ \A j \in Identifiers : j # i =>
        per_arn_checked'[j] = per_arn_checked[j]
  BY <1>1, <1>3 DEF IInv, World
<1>7. LookupOk'
  <2> SUFFICES ASSUME NEW j \in Identifiers
               PROVE  LET c == per_arn_checked'[j]
                      IN /\ c.tag = "none" => c = NotChecked
                         /\ c.tag = "ApiError" => c = ApiError
                         /\ c.tag = "Ok" =>
                              /\ Len(c.kcv) = 6
                              /\ j \in touched \/ (Usable(svc[j]) /\ svc[j].kcv = c.kcv)
                         /\ c.tag \in BadTags => j \in touched \/ ~Usable(svc[j])
    BY <1>3 DEF LookupOk
  <2>1. CASE j = i
    BY <1>4, <1>6, <2>1
  <2>2. CASE j # i
    BY <1>6, <2>2 DEF IInv, LookupOk
  <2> QED BY <2>1, <2>2
<1>8. \A j \in Identifiers :
        per_arn_checked[j].tag # "none" => per_arn_checked'[j] = per_arn_checked[j]
  BY <1>3, <1>6 DEF NotChecked, KeyCheck
<1>9. Judge(l, per_arn_checked'[Mapping[l]]) /\ per_arn_checked'[Mapping[l]].tag # "none"
  BY <1>4, <1>6 DEF FetchKey
<1> QED BY <1>5, <1>7, <1>8, <1>9, JudgeStep DEF FetchKey

(* A lookup for another label is as good.                                  *)
LEMMA ReuseKeyStep ==
  ASSUME IInv, NEW l \in cfg.labels, ReuseKey(l)
  PROVE  IInv'
<1>0. /\ ListenFiles' = ListenFiles /\ ForwardFiles' = ForwardFiles
      /\ Named' = Named /\ HalfPair' = HalfPair /\ probed' = probed
  BY SameConfig DEF ReuseKey
<1>1. Mapping[l] \in Identifiers
  BY LabelFacts DEF IInv
<1>2. World' /\ LookupOk'
  BY <1>0 DEF IInv, World, LookupOk, ReuseKey, worldVars
<1>3. per_arn_checked'[Mapping[l]].tag # "none"
  BY <1>1 DEF IInv, LookupOk, ReuseKey
<1>4. Judge(l, per_arn_checked'[Mapping[l]])
  BY DEF ReuseKey
<1> QED BY <1>2, <1>3, <1>4, JudgeStep DEF ReuseKey

(* The line of the probed label is written, in a way that is justified.    *)
LEMMA ReportStep ==
  ASSUME IInv, pc = "probe", NEW verdict \in {"pass", "checked", "warn", "fail"},
         Report(verdict), hsm' \in BOOLEAN, hsm' => hsm, disturbed \subseteq disturbed',
         (~hsm') <=> verdict = "pass", warnings \subseteq warnings',
         verdict = "pass" => "hsm" \in warnings',
         LET check == per_arn_checked[Mapping[cur]]
         IN /\ verdict = "checked" => SameKey(check.kcv, LmkKcv[cur])
            /\ verdict = "fail" => ~SameKey(check.kcv, LmkKcv[cur])
            /\ verdict = "warn" => WarnCause(cur, disturbed'),
         UNCHANGED <<cfg, per_arn_checked, errors, files, svc, touched, changes,
                     registry, refusal>>
  PROVE  IInv'
<1>0. /\ ListenFiles' = ListenFiles /\ ForwardFiles' = ForwardFiles
      /\ Named' = Named /\ HalfPair' = HalfPair /\ probed' = probed
  BY SameConfig
<1>1. cur \in cfg.labels /\ line \in [cfg.labels -> {"none", "pass", "checked", "warn", "fail"}]
  BY DEF IInv, TypeOK
<1>2. hsm /\ probed /\ per_arn_checked[Mapping[cur]].tag = "Ok"
  BY DEF IInv, ProbeOk, StageOk
<1>3. /\ pc' = "keys" /\ cur' = NoLabel /\ cand' = 0
      /\ line' = [line EXCEPT ![cur] = verdict]
  BY DEF Report
<1>4. /\ line' \in [cfg.labels -> {"none", "pass", "checked", "warn", "fail"}]
      /\ line'[cur] = verdict /\ \A m \in cfg.labels : m # cur => line'[m] = line[m]
  BY <1>1, <1>3
<1>5. World' /\ LookupOk'
  BY <1>0 DEF IInv, World, LookupOk
<1>6. TypeOK'
  BY <1>3, <1>4 DEF TypeOK
<1>7. LineOk'
  <2> SUFFICES ASSUME NEW m \in cfg.labels
               PROVE  LET c == per_arn_checked[Mapping[m]]
                      IN /\ line'[m] \in {"pass", "checked", "warn"} => c.tag = "Ok"
                         /\ line'[m] = "checked" => SameKey(c.kcv, LmkKcv[m])
                         /\ line'[m] = "pass" => ~hsm'
                         /\ line'[m] = "warn" => WarnCause(m, disturbed')
                         /\ line'[m] = "fail" =>
                              \/ c.tag \in BadTags \cup {"ApiError"}
                              \/ c.tag = "Ok" /\ probed /\ ~SameKey(c.kcv, LmkKcv[m])
    BY <1>0 DEF LineOk, WarnCause
  <2>1. CASE m = cur
    BY <1>2, <1>4, <2>1
  <2>2. CASE m # cur
    <3>1. line'[m] = line[m]
      BY <1>4, <2>2
    <3>2. WarnCause(m, disturbed) => WarnCause(m, disturbed')
      BY DEF WarnCause
    <3> QED BY <1>2, <3>1, <3>2 DEF IInv, LineOk
  <2> QED BY <2>1, <2>2
<1>8. ProbeOk'
  BY <1>3 DEF ProbeOk
<1>9. StageOk'
  BY <1>0, <1>2, <1>3 DEF IInv, StageOk, Ended
<1>10. FilesOk'
  BY <1>0, <1>3 DEF IInv, FilesOk, Ended
<1> QED BY <1>5, <1>6, <1>7, <1>8, <1>9, <1>10 DEF IInv

(* The HSM is given up: the warning stands for all labels after it.        *)
LEMMA GiveUpStep ==
  ASSUME IInv, pc = "probe", GiveUp, disturbed \subseteq disturbed',
         UNCHANGED <<cfg, per_arn_checked, errors, files, svc, touched, changes,
                     registry, refusal>>
  PROVE  IInv'
<1>1. Report("pass") /\ hsm' = FALSE /\ warnings' = warnings \cup {"hsm"}
  BY DEF GiveUp
<1> QED BY <1>1, ReportStep

(* Whatever comes as a reply, the line is right about the HSM's key.       *)
LEMMA ProbeAnsweredStep ==
  ASSUME IInv, NEW resp, ProbeAnswered(resp)
  PROVE  IInv'
<1> DEFINE type == bu_candidates(cur)[cand]
           bv == parse_bv(resp)
           apc == per_arn_checked[Mapping[cur]].kcv
           own == {Says(cur, type), Says(cur, type) \o <<48>>}
<1>1. /\ pc = "probe" /\ resp \in Heard[cur][type]
      /\ disturbed' = IF resp \in own THEN disturbed ELSE disturbed \cup {cur}
      /\ UNCHANGED <<cfg, per_arn_checked, errors, files, svc, touched, changes,
                     registry, refusal>>
  BY DEF ProbeAnswered
<1>2. disturbed \subseteq disturbed'
  BY <1>1
<1>3. /\ cur \in cfg.labels /\ cand \in DOMAIN bu_candidates(cur)
      /\ per_arn_checked[Mapping[cur]].tag = "Ok" /\ hsm
  BY <1>1 DEF IInv, TypeOK, ProbeOk
<1>4. cur \in Labels /\ Mapping[cur] \in Identifiers /\ cur # NoLabel
  BY <1>3, LabelFacts DEF IInv
<1>5. type \in KeyTypes
  BY <1>3, <1>4, Candidates
<1>6. apc \in Seq(Bytes) /\ Len(apc) = 6
  BY <1>3, <1>4 DEF IInv, World, LookupOk
<1>7. /\ bv.tag = "Kcv" => bv = KcvField(LmkKcv[cur])
      /\ resp \in own => bv.tag = IF type \in {"FF", TypeCode[cur]} THEN "Kcv" ELSE "Error"
  BY <1>1, <1>4, <1>5, HeardOutcome
<1>8. LmkKcv[cur] \in Seq(Bytes) /\ Printed(LmkKcv[cur])
  BY <1>4, CheckValueAssumption
<1> HIDE DEF bv, type, apc, own
<1>9. CASE bv.tag = "Kcv" /\ Report(IF kcv_matches(apc, bv.kcv) THEN "checked" ELSE "fail")
           /\ UNCHANGED <<hsm, warnings>>
  <2>1. kcv_matches(apc, bv.kcv) <=> SameKey(apc, LmkKcv[cur])
    BY <1>6, <1>7, <1>8, <1>9, MatchIsSameKey
  <2>2. CASE kcv_matches(apc, bv.kcv)
    <3>1. Report("checked") /\ SameKey(per_arn_checked[Mapping[cur]].kcv, LmkKcv[cur])
      BY <1>9, <2>1, <2>2 DEF apc
    <3> QED BY <1>1, <1>2, <1>3, <1>9, <3>1, ReportStep
  <2>3. CASE ~kcv_matches(apc, bv.kcv)
    <3>1. Report("fail") /\ ~SameKey(per_arn_checked[Mapping[cur]].kcv, LmkKcv[cur])
      BY <1>9, <2>1, <2>3 DEF apc
    <3> QED BY <1>1, <1>2, <1>3, <1>9, <3>1, ReportStep
  <2> QED BY <2>2, <2>3
<1>10. CASE bv.tag = "Disabled" /\ GiveUp
  BY <1>1, <1>2, <1>10, GiveUpStep
<1>11. CASE bv.tag = "Malformed" /\ Report("warn") /\ UNCHANGED <<hsm, warnings>>
  <2>1. cur \in disturbed'
    BY <1>1, <1>7, <1>11
  <2>2. WarnCause(cur, disturbed')
    BY <2>1 DEF WarnCause
  <2> QED BY <1>1, <1>2, <1>3, <1>11, <2>2, ReportStep
<1>12. CASE bv.tag = "Error" /\ NextCandidate /\ UNCHANGED <<hsm, warnings>>
  <2>1. cur \in disturbed' \/ \A j \in 1 .. cand : bu_candidates(cur)[j] \notin {"FF", TypeCode[cur]}
    <3> SUFFICES ASSUME cur \notin disturbed'
                 PROVE  \A j \in 1 .. cand : bu_candidates(cur)[j] \notin {"FF", TypeCode[cur]}
      OBVIOUS
    <3>1. resp \in own /\ cur \notin disturbed
      BY <1>1
    <3>2. type \notin {"FF", TypeCode[cur]}
      BY <1>7, <1>12, <3>1
    <3>3. \A j \in 1 .. cand - 1 : bu_candidates(cur)[j] \notin {"FF", TypeCode[cur]}
      BY <1>1, <3>1 DEF IInv, ProbeOk
    <3>4. cand \in Nat /\ cand >= 1
      BY <1>3, <1>4, Candidates
    <3> QED BY <3>2, <3>3, <3>4 DEF type
  <2>2. CASE cand < Len(bu_candidates(cur)) /\ cand' = cand + 1 /\ UNCHANGED <<pc, cur, line>>
    <3>0. /\ ListenFiles' = ListenFiles /\ ForwardFiles' = ForwardFiles
          /\ Named' = Named /\ HalfPair' = HalfPair /\ probed' = probed
      BY <1>1, SameConfig
    <3>1. World' /\ LookupOk'
      BY <1>1, <3>0 DEF IInv, World, LookupOk
    <3>2. TypeOK'
      <4>1. cand' \in DOMAIN bu_candidates(cur)
        BY <1>3, <1>4, <2>2, Candidates
      <4> QED BY <1>1, <1>12, <2>2, <4>1 DEF IInv, TypeOK, bu_candidates
    <3>3. LineOk'
      <4>1. \A l \in cfg.labels : WarnCause(l, disturbed) => WarnCause(l, disturbed')
        BY <1>2 DEF WarnCause
      <4> QED BY <1>1, <1>12, <2>2, <3>0, <4>1 DEF IInv, LineOk
    <3>4. ProbeOk'
      <4>1. cand' - 1 = cand /\ cand' = cand + 1 /\ cur' = cur /\ hsm' = hsm
        BY <1>3, <1>4, <1>12, <2>2, Candidates
      <4>2. bu_candidates(cur)' = bu_candidates(cur)
        BY <4>1 DEF bu_candidates
      <4> QED BY <1>1, <1>3, <2>1, <4>1, <4>2 DEF ProbeOk
    <3>5. StageOk'
      BY <1>1, <1>12, <2>2, <3>0 DEF IInv, StageOk, Ended
    <3>6. FilesOk'
      BY <1>1, <2>2, <3>0 DEF IInv, FilesOk, Ended
    <3> QED BY <3>1, <3>2, <3>3, <3>4, <3>5, <3>6 DEF IInv
  <2>3. CASE cand = Len(bu_candidates(cur)) /\ Report("warn")
    <3>1. \/ cur \in disturbed' \/ Form[cur] = "label"
          \/ Form[cur] = "variant" /\ TypeCode[cur] \notin {"00", "01", "02", "03"}
      <4>1. Form[cur] \in {"block", "variant", "label"}
        BY <1>4, ConfigAssumption
      <4>2. ASSUME cur \notin disturbed', Form[cur] = "block" PROVE FALSE
        BY <1>4, <2>1, <2>3, <4>2, Candidates
      <4>3. ASSUME cur \notin disturbed', Form[cur] = "variant"
            PROVE  TypeCode[cur] \notin {"00", "01", "02", "03"}
        <5>1. cand = 4
          BY <1>4, <2>3, <4>3, Candidates
        <5>2. \A j \in 1 .. 4 : bu_candidates(cur)[j] # TypeCode[cur]
          BY <2>1, <4>3, <5>1
        <5> QED BY <1>4, <4>3, <5>2, Candidates
      <4> QED BY <4>1, <4>2, <4>3, Zenon
    <3>2. WarnCause(cur, disturbed')
      BY <3>1 DEF WarnCause
    <3> QED BY <1>1, <1>2, <1>3, <1>12, <2>3, <3>2, ReportStep
  <2> QED BY <1>12, <2>2, <2>3 DEF NextCandidate
<1> QED BY <1>9, <1>10, <1>11, <1>12 DEF ProbeAnswered, bv, apc

(* A file that is missing is in the report.                                *)
LEMMA CheckFilesStep ==
  ASSUME IInv, CheckFiles
  PROVE  IInv'
<1> USE DEF CheckFiles, worldVars, IInv
<1>0. /\ ListenFiles' = ListenFiles /\ ForwardFiles' = ForwardFiles
      /\ Named' = Named /\ HalfPair' = HalfPair /\ probed' = probed
  BY SameConfig
<1>1. World' /\ LookupOk' /\ TypeOK'
  BY <1>0 DEF World, LookupOk, TypeOK
<1>2. LineOk'
  BY <1>0 DEF LineOk
<1>3. ProbeOk'
  BY DEF ProbeOk
<1>4. StageOk'
  BY <1>0 DEF StageOk, Ended
<1>5. FilesOk'
  <2>1. "credentials" \notin Named /\ "discover.tls" \notin Named /\ "pair" \notin Named
    BY FileNames DEF World
  <2>2. FileErrors = {f \in Named : files[f] = "missing"} \cup (IF HalfPair THEN {"pair"} ELSE {})
    BY DEF FileErrors, Named
  <2>3. /\ errors' = errors \cup FileErrors /\ pc = "keys" /\ pc' = "done"
        /\ files' = files /\ touched' = touched /\ refusal' = refusal /\ cfg' = cfg
    OBVIOUS
  <2>4. "credentials" \notin FileErrors /\ "discover.tls" \notin FileErrors
    BY <2>1, <2>2
  <2>5. \A f \in errors' \cap Named : f \in touched \/ files[f] = "missing"
    BY <2>1, <2>2, <2>3 DEF FilesOk
  <2>6. \A f \in Named : files[f] # "missing" \/ f \in errors'
    BY <2>2, <2>3
  <2>7. refusal # "tls"
    BY <2>3 DEF FilesOk
  <2> HIDE DEF CheckFiles
  <2> QED BY <1>0, <2>3, <2>4, <2>5, <2>6, <2>7 DEF FilesOk, Ended
<1> QED BY <1>1, <1>2, <1>3, <1>4, <1>5

(* The start of the server, or its refusal.                                *)
LEMMA StartStep ==
  ASSUME IInv, Start \/ \E why \in {"vendor", "tls", "bind"} : StartRefused(why)
  PROVE  IInv'
<1> USE DEF IInv
<1>1. /\ pc = "done"
      /\ UNCHANGED <<cfg, hsm, cur, cand, per_arn_checked, line, errors, warnings, worldVars>>
      /\ \/ pc' = "up" /\ refusal' = refusal /\ cfg.vendor = "thales_payshield"
         \/ pc' = "refused" /\ (refusal' = "tls" => ~build_tls_config)
  BY DEF Start, StartRefused
<1>0. /\ ListenFiles' = ListenFiles /\ ForwardFiles' = ForwardFiles
      /\ Named' = Named /\ HalfPair' = HalfPair /\ probed' = probed
  BY <1>1, SameConfig
<1>2. World' /\ LookupOk' /\ TypeOK'
  BY <1>0, <1>1 DEF World, LookupOk, TypeOK, worldVars
<1>3. LineOk'
  BY <1>0, <1>1 DEF LineOk, worldVars
<1>4. ProbeOk'
  BY <1>1 DEF ProbeOk
<1>5. StageOk'
  BY <1>0, <1>1 DEF StageOk, Ended
<1>6. FilesOk'
  <2>1. refusal # "tls"
    BY <1>1 DEF FilesOk
  <2>2. ASSUME ~build_tls_config, errors = {}
        PROVE  \E f \in ListenFiles : f \in touched \/ files[f] = "bad"
    <3>1. PICK f \in ListenFiles : files[f] # "good"
      BY <2>2 DEF build_tls_config
    <3>2. f \in Named /\ files[f] \in FileStates
      BY <3>1 DEF World, Named
    <3>3. f \in touched \/ files[f] # "missing"
      BY <1>1, <2>2, <3>2 DEF FilesOk, Ended
    <3> QED BY <3>1, <3>2, <3>3 DEF FileStates
  <2> QED BY <1>0, <1>1, <2>1, <2>2 DEF FilesOk, Ended, worldVars
<1> QED BY <1>2, <1>3, <1>4, <1>5, <1>6

(* An operator changes a key, which is remembered if it was looked up.     *)
LEMMA ChangeKeyStep ==
  ASSUME IInv, NEW i \in Identifiers, NEW key \in Keys, ChangeKey(i, key)
  PROVE  IInv'
<1> USE DEF ChangeKey, runVars, IInv
<1>0. /\ ListenFiles' = ListenFiles /\ ForwardFiles' = ForwardFiles
      /\ Named' = Named /\ HalfPair' = HalfPair /\ probed' = probed
  BY SameConfig
<1>1. World'
  BY <1>0 DEF World
<1>2. LookupOk'
  <2> SUFFICES ASSUME NEW j \in Identifiers
               PROVE  LET c == per_arn_checked[j]
                      IN /\ c.tag = "none" => c = NotChecked
                         /\ c.tag = "ApiError" => c = ApiError
                         /\ c.tag = "Ok" =>
                              /\ Len(c.kcv) = 6
                              /\ j \in touched' \/ (Usable(svc'[j]) /\ svc'[j].kcv = c.kcv)
                         /\ c.tag \in BadTags => j \in touched' \/ ~Usable(svc'[j])
    BY DEF LookupOk
  <2>1. CASE per_arn_checked[j] = NotChecked
    BY <2>1 DEF NotChecked, ApiError, KeyCheck, BadTags
  <2>2. CASE j = i /\ per_arn_checked[j] # NotChecked
    BY <2>2 DEF LookupOk
  <2>3. CASE j # i
    BY <2>3 DEF LookupOk, World
  <2> QED BY <2>1, <2>2, <2>3
<1>3. TypeOK' /\ ProbeOk' /\ StageOk'
  BY <1>0 DEF TypeOK, ProbeOk, StageOk, bu_candidates
<1>4. LineOk'
  BY <1>0 DEF LineOk
<1>5. FilesOk'
  BY <1>0 DEF FilesOk
<1> QED BY <1>1, <1>2, <1>3, <1>4, <1>5

(* An operator changes a file, which is remembered.                        *)
LEMMA ChangeFileStep ==
  ASSUME IInv, NEW f \in DOMAIN files, NEW content \in FileStates, ChangeFile(f, content)
  PROVE  IInv'
<1> USE DEF ChangeFile, runVars, IInv
<1>0. /\ ListenFiles' = ListenFiles /\ ForwardFiles' = ForwardFiles
      /\ Named' = Named /\ HalfPair' = HalfPair /\ probed' = probed
  BY SameConfig
<1>1. f \in Named /\ files' = [files EXCEPT ![f] = content] /\ touched' = touched \cup {f}
  BY DEF World
<1>2. World'
  BY <1>0, <1>1 DEF World
<1>3. LookupOk'
  BY <1>1 DEF LookupOk
<1>4. TypeOK' /\ ProbeOk' /\ StageOk'
  BY <1>0 DEF TypeOK, ProbeOk, StageOk, bu_candidates
<1>5. LineOk'
  BY <1>0 DEF LineOk
<1>6. FilesOk'
  <2>1. \A g \in Named : g \in touched' \/ (files'[g] = files[g] /\ g \notin touched)
    BY <1>1 DEF World
  <2>2. ForwardFiles \subseteq Named /\ ListenFiles \subseteq Named
    BY DEF Named
  <2>3. touched \subseteq touched'
    BY <1>1
  <2>4. pc' = pc /\ errors' = errors /\ refusal' = refusal /\ cfg' = cfg
    OBVIOUS
  <2> HIDE DEF ChangeFile
  <2> QED BY <1>0, <2>1, <2>2, <2>3, <2>4 DEF FilesOk
<1> QED BY <1>2, <1>3, <1>4, <1>5, <1>6

(* Every step keeps the invariant.                                         *)
LEMMA Inductive == IInv /\ [Next]_vars => IInv'
<1> SUFFICES ASSUME IInv, [Next]_vars PROVE IInv'
  OBVIOUS
<1>1. ASSUME NEW b \in BOOLEAN, Credentials(b) PROVE IInv'
  BY <1>1, CredentialsStep
<1>2. ASSUME NEW b \in BOOLEAN, Scan(b) PROVE IInv'
  BY <1>2, ScanStep
<1>3. ASSUME NEW l \in cfg.labels, ReuseKey(l) PROVE IInv'
  BY <1>3, ReuseKeyStep
<1>4. ASSUME NEW l \in cfg.labels, NEW check, FetchKey(l, check) PROVE IInv'
  BY <1>4, FetchKeyStep
<1>5. CASE ProbeUnreachable
  BY <1>5, GiveUpStep DEF ProbeUnreachable, worldVars
<1>6. ASSUME NEW resp, ProbeAnswered(resp) PROVE IInv'
  BY <1>6, ProbeAnsweredStep
<1>7. CASE CheckFiles
  BY <1>7, CheckFilesStep
<1>8. CASE Start \/ \E why \in {"vendor", "tls", "bind"} : StartRefused(why)
  BY <1>8, StartStep
<1>9. ASSUME NEW i \in Identifiers, NEW key \in Keys, ChangeKey(i, key) PROVE IInv'
  BY <1>9, ChangeKeyStep
<1>10. ASSUME NEW f \in DOMAIN files, NEW content \in FileStates, ChangeFile(f, content)
       PROVE  IInv'
  BY <1>10, ChangeFileStep
<1>11. CASE UNCHANGED vars
  <2> USE <1>11 DEF vars, runVars, worldVars
  <2>0. /\ ListenFiles' = ListenFiles /\ ForwardFiles' = ForwardFiles
        /\ Named' = Named /\ HalfPair' = HalfPair /\ probed' = probed
    BY SameConfig
  <2>1. World' /\ LookupOk'
    BY <2>0 DEF IInv, World, LookupOk
  <2>2. TypeOK' /\ ProbeOk' /\ StageOk'
    BY <2>0 DEF IInv, TypeOK, ProbeOk, StageOk, bu_candidates
  <2>3. LineOk'
    BY <2>0 DEF IInv, LineOk
  <2>4. FilesOk'
    BY <2>0 DEF IInv, FilesOk
  <2> QED BY <2>1, <2>2, <2>3, <2>4 DEF IInv
<1> QED BY <1>1, <1>2, <1>3, <1>4, <1>5, <1>6, <1>7, <1>8, <1>9, <1>10, <1>11
        DEF Next, Step

(* It holds throughout.                                                    *)
LEMMA SpecIInv == Spec => []IInv
BY InitIInv, Inductive, PTL DEF Spec

(* The types of run, and where the probe is: hsm_probe.rs never reads past *)
(* the last candidate, and a line is written once.                         *)
THEOREM VerifyTypes == Spec => []TypeOK
<1>1. IInv => TypeOK
  BY DEF IInv
<1> QED BY <1>1, SpecIInv, PTL

(* A passing report of verify.rs means that each mapped key was usable     *)
(* when it was last looked up, also for labels that share one lookup.      *)
THEOREM PassingIsUsable == Spec => []PassMeansUsable
<1>1. IInv => PassMeansUsable
  <2> SUFFICES ASSUME IInv, Passed, NEW l \in cfg.labels, Mapping[l] \notin touched
               PROVE  Usable(svc[Mapping[l]])
    BY DEF PassMeansUsable
  <2>1. Mapping[l] \in Identifiers
    BY LabelFacts DEF IInv
  <2>2. line[l] \notin {"none", "fail"} /\ line[l] \in {"none", "pass", "checked", "warn", "fail"}
    BY DEF IInv, TypeOK, StageOk, Passed, Ended
  <2>3. per_arn_checked[Mapping[l]].tag = "Ok"
    BY <2>2 DEF IInv, LineOk
  <2> QED BY <2>1, <2>3 DEF IInv, LookupOk
<1> QED BY <1>1, SpecIInv, PTL

(* What hsm_probe.rs reads from the wire is compared for the right key: a  *)
(* label that passes without a warning has the check value of the HSM's    *)
(* key, whatever cut or foreign replies came in between.                   *)
THEOREM PassingIsCrossChecked == Spec => []CrossChecked
<1>1. IInv => CrossChecked
  <2> SUFFICES ASSUME IInv, Passed, probed, "hsm" \notin warnings, NEW l \in cfg.labels,
                      line[l] # "warn", Mapping[l] \notin touched
               PROVE  SameKey(svc[Mapping[l]].kcv, LmkKcv[l])
    BY DEF CrossChecked
  <2>1. Mapping[l] \in Identifiers
    BY LabelFacts DEF IInv
  <2>2. hsm
    BY DEF IInv, TypeOK, StageOk, Passed
  <2>3. line[l] = "checked"
    BY <2>2 DEF IInv, TypeOK, StageOk, LineOk, Passed, Ended
  <2>4. /\ per_arn_checked[Mapping[l]].tag = "Ok"
        /\ SameKey(per_arn_checked[Mapping[l]].kcv, LmkKcv[l])
    BY <2>3 DEF IInv, LineOk
  <2>5. svc[Mapping[l]].kcv = per_arn_checked[Mapping[l]].kcv
    BY <2>1, <2>4 DEF IInv, LookupOk
  <2> QED BY <2>4, <2>5
<1> QED BY <1>1, SpecIInv, PTL

(* verify.rs reports nothing without a cause: neither an error for a key   *)
(* that is fine nor a warning for a key that the HSM answered for.         *)
THEOREM ReportsHaveCauses == Spec => []ReportsOnlyForCause
<1>1. IInv => ReportsOnlyForCause
  <2> SUFFICES ASSUME IInv PROVE ReportsOnlyForCause
    OBVIOUS
  <2>1. ASSUME NEW l \in cfg.labels, line[l] = "fail", Mapping[l] \notin touched,
               Usable(svc[Mapping[l]]), per_arn_checked[Mapping[l]] # ApiError
        PROVE  probed /\ ~SameKey(svc[Mapping[l]].kcv, LmkKcv[l])
    <3>1. Mapping[l] \in Identifiers
      BY LabelFacts DEF IInv
    <3>2. per_arn_checked[Mapping[l]].tag \notin BadTags \cup {"ApiError"}
      BY <2>1, <3>1 DEF IInv, LookupOk
    <3>3. /\ per_arn_checked[Mapping[l]].tag = "Ok" /\ probed
          /\ ~SameKey(per_arn_checked[Mapping[l]].kcv, LmkKcv[l])
      BY <2>1, <3>2 DEF IInv, LineOk
    <3>4. svc[Mapping[l]].kcv = per_arn_checked[Mapping[l]].kcv
      BY <2>1, <3>1, <3>3 DEF IInv, LookupOk
    <3> QED BY <3>3, <3>4
  <2>2. ASSUME NEW l \in cfg.labels, line[l] = "warn" PROVE WarnCause(l, disturbed)
    BY <2>2 DEF IInv, LineOk
  <2>3. DOMAIN files = Named
    BY DEF IInv, World
  <2>4. /\ \A f \in errors \cap DOMAIN files : f \in touched \/ files[f] = "missing"
        /\ "discover.tls" \in errors =>
             HalfPair \/ \E f \in ForwardFiles : f \in touched \/ files[f] # "good"
    BY <2>3 DEF IInv, FilesOk
  <2> QED BY <2>1, <2>2, <2>4 DEF ReportsOnlyForCause, WarnCause
<1> QED BY <1>1, SpecIInv, PTL

(* server.rs after a passing verify.rs: a start is refused for a file only *)
(* when its content is bad or it was changed, and the client for the HSM   *)
(* can be built.                                                           *)
THEOREM PassingServes == Spec => []PassedServes
<1>1. IInv => PassedServes
  <2> SUFFICES ASSUME IInv, Passed
               PROVE  /\ refusal = "tls" =>
                           \E f \in ListenFiles : f \in touched \/ files[f] = "bad"
                      /\ pc = "up" => from_discover \/ \E f \in ForwardFiles : f \in touched
    BY DEF PassedServes
  <2>1. errors = {}
    BY DEF Passed
  <2>2. refusal = "tls" => \E f \in ListenFiles : f \in touched \/ files[f] = "bad"
    BY <2>1 DEF IInv, FilesOk
  <2>3. ASSUME pc = "up" PROVE from_discover \/ \E f \in ForwardFiles : f \in touched
    <3>1. CASE cfg.discover = "none"
      BY <3>1 DEF from_discover, ForwardFiles, HalfPair
    <3>2. CASE cfg.discover # "none"
      <4>1. probed
        BY <2>3, <3>2 DEF IInv, FilesOk, probed
      <4>2. ~HalfPair /\ \A f \in ForwardFiles : f \in touched \/ files[f] = "good"
        BY <2>1, <2>3, <4>1 DEF IInv, FilesOk
      <4> QED BY <4>2 DEF from_discover
    <3> QED BY <3>1, <3>2
  <2> QED BY <2>2, <2>3
<1> QED BY <1>1, SpecIInv, PTL

-------------------------------------------------------------------------------
(* Whose command a code is: the place of its handler in the module's list, *)
(* 24 for the stub, which comes after it.                                  *)
OwnerOf(c) ==
  IF c \in {"CA", "CC", "BQ", "G0"} THEN 1
  ELSE IF c \in {"CU", "DU"} THEN 2
  ELSE IF c \in {"CE", "GA"} THEN 3
  ELSE IF c \in {"JA"} THEN 4
  ELSE IF c \in {"CK", "CM", "CO", "CQ"} THEN 5
  ELSE IF c \in {"GO", "GQ", "GS", "GU"} THEN 6
  ELSE IF c \in {"DA", "DC", "EA", "EC"} THEN 7
  ELSE IF c \in {"HE", "HG"} THEN 8
  ELSE IF c \in {"M0", "M2", "M4"} THEN 9
  ELSE IF c \in {"GW"} THEN 10
  ELSE IF c \in {"JU", "KU", "KY"} THEN 11
  ELSE IF c \in {"K2", "KS"} THEN 12
  ELSE IF c \in {"K0"} THEN 13
  ELSE IF c \in {"KQ"} THEN 14
  ELSE IF c \in {"KW"} THEN 15
  ELSE IF c \in {"JS"} THEN 16
  ELSE IF c \in {"LQ", "LS"} THEN 17
  ELSE IF c \in {"C2", "C4", "M6", "M8"} THEN 18
  ELSE IF c \in {"MY"} THEN 19
  ELSE IF c \in {"MA", "MC", "ME", "MK", "MM", "MO", "MU", "MW", "MQ", "MS"} THEN 20
  ELSE IF c \in {"CW", "CY", "NY", "RY"} THEN 21
  ELSE IF c \in {"QY", "PM"} THEN 22
  ELSE IF c \in {"B2"} THEN 23
  ELSE IF c \in StubCodes THEN 24 ELSE 0

(* The codes of each handler, as handlers/thales/mod.rs lists them.        *)
LEMMA CodesOf ==
  /\ ThalesHandlers[1].codes = {"CA", "CC", "BQ", "G0"}
  /\ ThalesHandlers[2].codes = {"CU", "DU"}
  /\ ThalesHandlers[3].codes = {"CE", "GA"}
  /\ ThalesHandlers[4].codes = {"JA"}
  /\ ThalesHandlers[5].codes = {"CK", "CM", "CO", "CQ"}
  /\ ThalesHandlers[6].codes = {"GO", "GQ", "GS", "GU"}
  /\ ThalesHandlers[7].codes = {"DA", "DC", "EA", "EC"}
  /\ ThalesHandlers[8].codes = {"HE", "HG"}
  /\ ThalesHandlers[9].codes = {"M0", "M2", "M4"}
  /\ ThalesHandlers[10].codes = {"GW"}
  /\ ThalesHandlers[11].codes = {"JU", "KU", "KY"}
  /\ ThalesHandlers[12].codes = {"K2", "KS"}
  /\ ThalesHandlers[13].codes = {"K0"}
  /\ ThalesHandlers[14].codes = {"KQ"}
  /\ ThalesHandlers[15].codes = {"KW"}
  /\ ThalesHandlers[16].codes = {"JS"}
  /\ ThalesHandlers[17].codes = {"LQ", "LS"}
  /\ ThalesHandlers[18].codes = {"C2", "C4", "M6", "M8"}
  /\ ThalesHandlers[19].codes = {"MY"}
  /\ ThalesHandlers[20].codes = {"MA", "MC", "ME", "MK", "MM", "MO", "MU", "MW",
                                 "MQ", "MS"}
  /\ ThalesHandlers[21].codes = {"CW", "CY", "NY", "RY"}
  /\ ThalesHandlers[22].codes = {"QY", "PM"}
  /\ ThalesHandlers[23].codes = {"B2"}
BY DEF ThalesHandlers, Handler

(* Each of them has that handler as its only owner.                        *)
LEMMA OwnersAgree ==
  /\ \A c \in {"CA", "CC", "BQ", "G0"} : OwnerOf(c) = 1
  /\ \A c \in {"CU", "DU"} : OwnerOf(c) = 2
  /\ \A c \in {"CE", "GA"} : OwnerOf(c) = 3
  /\ \A c \in {"JA"} : OwnerOf(c) = 4
  /\ \A c \in {"CK", "CM", "CO", "CQ"} : OwnerOf(c) = 5
  /\ \A c \in {"GO", "GQ", "GS", "GU"} : OwnerOf(c) = 6
  /\ \A c \in {"DA", "DC", "EA", "EC"} : OwnerOf(c) = 7
  /\ \A c \in {"HE", "HG"} : OwnerOf(c) = 8
  /\ \A c \in {"M0", "M2", "M4"} : OwnerOf(c) = 9
  /\ \A c \in {"GW"} : OwnerOf(c) = 10
  /\ \A c \in {"JU", "KU", "KY"} : OwnerOf(c) = 11
  /\ \A c \in {"K2", "KS"} : OwnerOf(c) = 12
  /\ \A c \in {"K0"} : OwnerOf(c) = 13
  /\ \A c \in {"KQ"} : OwnerOf(c) = 14
  /\ \A c \in {"KW"} : OwnerOf(c) = 15
  /\ \A c \in {"JS"} : OwnerOf(c) = 16
  /\ \A c \in {"LQ", "LS"} : OwnerOf(c) = 17
  /\ \A c \in {"C2", "C4", "M6", "M8"} : OwnerOf(c) = 18
  /\ \A c \in {"MY"} : OwnerOf(c) = 19
  /\ \A c \in {"MA", "MC", "ME", "MK", "MM", "MO", "MU", "MW", "MQ",
              "MS"} : OwnerOf(c) = 20
  /\ \A c \in {"CW", "CY", "NY", "RY"} : OwnerOf(c) = 21
  /\ \A c \in {"QY", "PM"} : OwnerOf(c) = 22
  /\ \A c \in {"B2"} : OwnerOf(c) = 23
BY DEF OwnerOf

(* The list with the stub at its end, as for_module goes through it.       *)
LEMMA AllHandlers ==
  LET all == Append(ThalesHandlers, NotAvailableHandler) IN
  /\ DOMAIN ThalesHandlers = 1 .. 23 /\ DOMAIN all = 1 .. 24
  /\ \A i \in 1 .. 23 : all[i] = ThalesHandlers[i]
  /\ all[24].codes = StubCodes
<1> DEFINE all == Append(ThalesHandlers, NotAvailableHandler)
<1>1. DOMAIN ThalesHandlers = 1 .. 23 /\ DOMAIN all = 1 .. 24
  BY DEF ThalesHandlers
<1>2. \A i \in 1 .. 23 : all[i] = ThalesHandlers[i]
  BY DEF ThalesHandlers
<1>3. all[24] = NotAvailableHandler
  BY DEF ThalesHandlers
<1>4. NotAvailableHandler.codes = StubCodes
  BY DEF NotAvailableHandler, Handler
<1> HIDE DEF all
<1>5. all[24].codes = StubCodes
  BY <1>3, <1>4
<1> QED BY <1>1, <1>2, <1>5, Zenon DEF all

(* No code is claimed twice, also not by the stub.                         *)
LEMMA OneOwner ==
  LET all == Append(ThalesHandlers, NotAvailableHandler) IN
  \A i \in 1 .. 24 : \A c \in all[i].codes : OwnerOf(c) = i
<1>1. \A c \in StubCodes : OwnerOf(c) = 24
  BY DEF OwnerOf, StubCodes
<1>2. \A i \in 1 .. 23 : \A c \in ThalesHandlers[i].codes : OwnerOf(c) = i
  BY CodesOf, OwnersAgree
<1>3. \A i \in 1 .. 24 : i \in 1 .. 23 \/ i = 24
  OBVIOUS
<1> QED BY <1>1, <1>2, <1>3, AllHandlers

(* So the table sends each code of the module to the handler that has it.  *)
LEMMA Dispatched ==
  \A i \in DOMAIN ThalesHandlers : \A c \in ThalesHandlers[i].codes :
    for_module(ThalesHandlers)[c] = ThalesHandlers[i].name
<1> DEFINE all == Append(ThalesHandlers, NotAvailableHandler)
           claims(c) == {i \in DOMAIN all : c \in all[i].codes}
           last(c) == CHOOSE i \in claims(c) : \A j \in claims(c) : j <= i
<1>1. /\ DOMAIN ThalesHandlers = 1 .. 23 /\ DOMAIN all = 1 .. 24
      /\ \A i \in 1 .. 23 : all[i] = ThalesHandlers[i]
  BY AllHandlers
<1>2. \A i \in 1 .. 24 : \A c \in all[i].codes : OwnerOf(c) = i
  BY OneOwner
<1>3. for_module(ThalesHandlers) =
        [c \in UNION {all[i].codes : i \in DOMAIN all} |-> all[last(c)].name]
  BY Zenon DEF for_module
<1> HIDE DEF all
<1> SUFFICES ASSUME NEW i \in 1 .. 23, NEW c \in ThalesHandlers[i].codes
             PROVE  for_module(ThalesHandlers)[c] = ThalesHandlers[i].name
  BY <1>1
<1>4. i \in 1 .. 24 /\ c \in all[i].codes
  BY <1>1
<1>5. claims(c) = {i}
  BY <1>1, <1>2, <1>4
<1>6. last(c) = i
  <2>1. i <= i
    OBVIOUS
  <2> HIDE DEF claims
  <2> QED BY <1>5, <2>1
<1> HIDE DEF last
<1>7. c \in UNION {all[j].codes : j \in DOMAIN all}
  BY <1>1, <1>4
<1>8. for_module(ThalesHandlers)[c] = all[last(c)].name
  BY <1>3, <1>7
<1> QED BY <1>1, <1>6, <1>8

(* The table is the one that server::run builds when it starts.            *)
Registered == pc = "up" => registry = for_module(ThalesHandlers)

(* StubShadowsNothing: of a server that is up, every code of every handler *)
(* of the module goes to that handler, and none to the stub of noop.rs,    *)
(* whatever was configured and reported before.                            *)
THEOREM NoCommandIsShadowed == Spec => []StubShadowsNothing
<1>1. Init => Registered
  BY DEF Init, Registered
<1>2. ASSUME Registered, [Next]_vars PROVE Registered'
  <2>1. CASE Start
    BY <2>1 DEF Start, Registered
  <2>2. ASSUME pc' = "up" => pc = "up" /\ registry' = registry PROVE Registered'
    BY <1>2, <2>2 DEF Registered
  <2>3. ASSUME NEW b \in BOOLEAN, Credentials(b) \/ Scan(b) PROVE Registered'
    BY <2>2, <2>3 DEF Credentials, Scan
  <2>4. ASSUME NEW l, NEW check, FetchKey(l, check) \/ ReuseKey(l) PROVE Registered'
    BY <2>2, <2>4 DEF FetchKey, ReuseKey, Judge
  <2>5. CASE ProbeUnreachable
    BY <2>2, <2>5 DEF ProbeUnreachable, GiveUp, Report
  <2>6. ASSUME NEW resp, ProbeAnswered(resp) PROVE Registered'
    <3>1. pc' \in {"probe", "keys"}
      BY <2>6, Zenon DEF ProbeAnswered, GiveUp, Report, NextCandidate
    <3> QED BY <2>2, <3>1
  <2>7. CASE CheckFiles
    BY <2>2, <2>7 DEF CheckFiles
  <2>8. ASSUME NEW why, StartRefused(why) PROVE Registered'
    BY <2>2, <2>8 DEF StartRefused
  <2>9. ASSUME NEW i, NEW key, ChangeKey(i, key) PROVE Registered'
    BY <2>2, <2>9 DEF ChangeKey, runVars
  <2>10. ASSUME NEW f, NEW content, ChangeFile(f, content) PROVE Registered'
    BY <2>2, <2>10 DEF ChangeFile, runVars
  <2>11. CASE UNCHANGED vars
    BY <2>2, <2>11 DEF vars, runVars
  <2> QED BY <1>2, <2>1, <2>3, <2>4, <2>5, <2>6, <2>7, <2>8, <2>9, <2>10, <2>11
          DEF Next, Step
<1>3. Registered => StubShadowsNothing
  BY Dispatched DEF Registered, StubShadowsNothing
<1> QED BY <1>1, <1>2, <1>3, PTL DEF Spec

===============================================================================
