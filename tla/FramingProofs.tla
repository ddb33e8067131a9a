---------------------------- MODULE FramingProofs ----------------------------
(* What the framing of responses guarantees, for payloads of every size.   *)
EXTENDS ThalesFraming, SequenceTheorems, TLAPS

Pairs == {s \in Seq(Bytes) : Len(s) = 2}

(* thales.rs: a length of 16 bits is read back as it was written.          *)
LEMMA LengthRoundTrip ==
  ASSUME NEW n \in Nat, n < Radix * Radix
  PROVE  /\ to_be_bytes(n) \in Pairs
         /\ to_be_bytes(n)[1] * Radix + to_be_bytes(n)[2] = n
BY DEF to_be_bytes, Radix, Pairs, Bytes

(* u consists of the pair s and then t.                                    *)
Follows(s, t, u) ==
  /\ u \in Seq(Bytes) /\ Len(u) = 2 + Len(t)
  /\ u[1] = s[1] /\ u[2] = s[2]
  /\ \A i \in 1 .. Len(t) : u[2 + i] = t[i]

(* Two bytes in front of a sequence, position by position.                 *)
LEMMA PairThen ==
  ASSUME NEW s \in Pairs, NEW t \in Seq(Bytes)
  PROVE  Follows(s, t, s \o t)
<1> DEFINE u == s \o t
<1>1. s \in Seq(Bytes) /\ Len(s) = 2
  BY DEF Pairs
<1>2. u \in Seq(Bytes) /\ Len(u) = 2 + Len(t)
  <2>1. u \in Seq(Bytes) /\ Len(u) = Len(s) + Len(t)
    BY <1>1, ConcatProperties, Zenon
  <2> QED BY <1>1, <2>1
<1>3. \A i \in 1 .. Len(u) : u[i] = IF i <= 2 THEN s[i] ELSE t[i - 2]
  BY <1>1, <1>2
<1> HIDE DEF u
<1>4. u[1] = s[1] /\ u[2] = s[2]
  BY <1>2, <1>3
<1>5. ASSUME NEW i \in 1 .. Len(t) PROVE u[2 + i] = t[i]
  <2>1. 2 + i \in 1 .. Len(u) /\ ~(2 + i <= 2) /\ (2 + i) - 2 = i
    BY <1>2
  <2> QED BY <1>3, <2>1
<1>6. Follows(s, t, u)
  BY <1>2, <1>4, <1>5 DEF Follows
<1> QED BY <1>6 DEF u

(* A frame without its payload's contents: what parse looks at.            *)
IsFrame(h, c, q, buf) ==
  /\ buf \in Seq(Bytes)
  /\ Len(buf) >= 6 + Len(q)
  /\ from_be_bytes(buf) = 4 + Len(q)
  /\ buf[3] = h[1] /\ buf[4] = h[2] /\ buf[5] = c[1] /\ buf[6] = c[2]
  /\ \A i \in 1 .. Len(q) : buf[6 + i] = q[i]

(* Where the fields are once length, header and code have been put in      *)
(* front of the payload one after the other.                               *)
LEMMA Positions ==
  ASSUME NEW h, NEW c, NEW q, NEW cq, NEW body, NEW frame, NEW buf, NEW l,
         Len(q) \in Nat, l[1] * Radix + l[2] = 4 + Len(q),
         Follows(c, q, cq), Follows(h, cq, body), Follows(l, body, frame),
         buf \in Seq(Bytes), Len(buf) >= Len(frame),
         \A i \in 1 .. Len(frame) : buf[i] = frame[i]
  PROVE  IsFrame(h, c, q, buf)
<1> DEFINE k == Len(q)
<1>1. k \in Nat /\ Len(cq) = 2 + k /\ Len(body) = 4 + k /\ Len(frame) = 6 + k
  BY DEF Follows
<1>2. cq[1] = c[1] /\ cq[2] = c[2] /\ \A i \in 1 .. k : cq[2 + i] = q[i]
  BY DEF Follows
<1>3. body[1] = h[1] /\ body[2] = h[2] /\ \A i \in 1 .. 2 + k : body[2 + i] = cq[i]
  BY <1>1 DEF Follows
<1>4. frame[1] = l[1] /\ frame[2] = l[2] /\ \A i \in 1 .. 4 + k : frame[2 + i] = body[i]
  BY <1>1 DEF Follows
<1>5. \A i \in 1 .. 6 + k : buf[i] = frame[i]
  BY <1>1
<1> HIDE DEF k
<1>6. buf[1] = l[1] /\ buf[2] = l[2]
  BY <1>1, <1>4, <1>5
<1>7. buf[3] = h[1] /\ buf[4] = h[2]
  <2>1. frame[2 + 1] = body[1] /\ frame[2 + 2] = body[2]
    BY <1>1, <1>4
  <2> QED BY <1>1, <1>3, <1>5, <2>1
<1>8. buf[5] = c[1] /\ buf[6] = c[2]
  <2>1. frame[2 + 3] = body[3] /\ frame[2 + 4] = body[4]
    BY <1>1, <1>4
  <2>2. body[2 + 1] = cq[1] /\ body[2 + 2] = cq[2]
    BY <1>1, <1>3
  <2> QED BY <1>1, <1>2, <1>5, <2>1, <2>2
<1>9. ASSUME NEW i \in 1 .. k PROVE buf[6 + i] = q[i]
  <2>1. 6 + i \in 1 .. 6 + k /\ 4 + i \in 1 .. 4 + k /\ 2 + i \in 1 .. 2 + k
    BY <1>1
  <2>2. 2 + (4 + i) = 6 + i /\ 2 + (2 + i) = 4 + i
    BY <1>1
  <2>3. buf[6 + i] = frame[6 + i]
    BY <1>5, <2>1
  <2>4. frame[2 + (4 + i)] = body[4 + i]
    BY <1>4, <2>1
  <2>5. body[2 + (2 + i)] = cq[2 + i]
    BY <1>3, <2>1
  <2> QED BY <1>2, <2>2, <2>3, <2>4, <2>5
<1>10. from_be_bytes(buf) = 4 + k
  BY <1>6 DEF from_be_bytes, k
<1> QED BY <1>1, <1>7, <1>8, <1>9, <1>10 DEF IsFrame, k

(* frame_response builds such a frame, whatever follows it.                *)
LEMMA FrameThenRest ==
  ASSUME NEW h \in Pairs, NEW c \in Pairs, NEW e \in Pairs, NEW p \in Seq(Bytes),
         NEW x \in Seq(Bytes), 6 + Len(p) < Radix * Radix
  PROVE  IsFrame(h, c, e \o p, frame_response(h, c, e, p) \o x)
<1> DEFINE q == e \o p
           cq == c \o q
           body == h \o cq
           l == to_be_bytes(Len(body))
           frame == l \o body
           buf == frame \o x
<1>1. q \in Seq(Bytes) /\ Len(q) = 2 + Len(p)
  BY PairThen DEF Follows
<1> HIDE DEF q
<1>2. Follows(c, q, cq) /\ cq \in Seq(Bytes) /\ Len(cq) = 4 + Len(p)
  <2>1. Follows(c, q, cq)
    BY <1>1, PairThen
  <2> QED BY <1>1, <2>1 DEF Follows
<1> HIDE DEF cq
<1>3. Follows(h, cq, body) /\ body \in Seq(Bytes) /\ Len(body) = 6 + Len(p)
  <2>1. Follows(h, cq, body)
    BY <1>2, PairThen
  <2> QED BY <1>2, <2>1 DEF Follows
<1> HIDE DEF body
<1>4. l \in Pairs /\ l[1] * Radix + l[2] = 4 + Len(q)
  <2>1. Len(body) \in Nat /\ Len(body) = 4 + Len(q)
    BY <1>1, <1>3
  <2> QED BY <1>3, <2>1, LengthRoundTrip
<1> HIDE DEF l
<1>5. Follows(l, body, frame) /\ frame \in Seq(Bytes)
  <2>1. Follows(l, body, frame)
    BY <1>3, <1>4, PairThen
  <2> QED BY <2>1 DEF Follows
<1> HIDE DEF frame
<1>6. /\ buf \in Seq(Bytes) /\ Len(buf) >= Len(frame)
      /\ \A i \in 1 .. Len(frame) : buf[i] = frame[i]
  BY <1>5, ConcatProperties
<1> HIDE DEF buf
<1>7. IsFrame(h, c, q, buf)
  <2>1. Len(q) \in Nat
    BY <1>1
  <2> QED BY <1>2, <1>3, <1>4, <1>5, <1>6, <2>1, Positions
<1>8. frame_response(h, c, e, p) \o x = buf
  BY DEF frame_response, q, cq, body, l, frame, buf
<1> QED BY <1>7, <1>8 DEF q

(* parse finds the fields of such a frame.                                 *)
LEMMA ParseOfFrame ==
  ASSUME NEW h \in Pairs, NEW c \in Pairs, NEW q \in Seq(Bytes), NEW buf,
         IsFrame(h, c, q, buf)
  PROVE  /\ Parses(buf) /\ frame_len(buf) = 6 + Len(q)
         /\ parse(buf) = [header |-> h, code |-> c, payload |-> q]
<1>1. Len(q) \in Nat /\ Len(buf) \in Nat /\ Len(buf) >= 6 + Len(q)
  BY DEF IsFrame
<1>2. frame_len(buf) = 6 + Len(q)
  BY <1>1 DEF IsFrame, frame_len
<1>3. Parses(buf)
  BY <1>1, <1>2 DEF IsFrame, Parses
<1>4. SubSeq(buf, 3, 4) = h
  <2>1. SubSeq(buf, 3, 4) \in Seq(Bytes) /\ Len(SubSeq(buf, 3, 4)) = 2
    BY <1>1 DEF IsFrame
  <2>2. SubSeq(buf, 3, 4)[1] = buf[3] /\ SubSeq(buf, 3, 4)[2] = buf[4]
    BY <1>1 DEF IsFrame
  <2>3. h \in Seq(Bytes) /\ Len(h) = 2
    BY DEF Pairs
  <2>4. \A i \in 1 .. 2 : SubSeq(buf, 3, 4)[i] = h[i]
    BY <2>2 DEF IsFrame
  <2> QED BY <2>1, <2>3, <2>4, SeqEqual
<1>5. SubSeq(buf, 5, 6) = c
  <2>1. SubSeq(buf, 5, 6) \in Seq(Bytes) /\ Len(SubSeq(buf, 5, 6)) = 2
    BY <1>1 DEF IsFrame
  <2>2. SubSeq(buf, 5, 6)[1] = buf[5] /\ SubSeq(buf, 5, 6)[2] = buf[6]
    BY <1>1 DEF IsFrame
  <2>3. c \in Seq(Bytes) /\ Len(c) = 2
    BY DEF Pairs
  <2>4. \A i \in 1 .. 2 : SubSeq(buf, 5, 6)[i] = c[i]
    BY <2>2 DEF IsFrame
  <2> QED BY <2>1, <2>3, <2>4, SeqEqual
<1>6. SubSeq(buf, 7, 6 + Len(q)) = q
  <2> DEFINE r == SubSeq(buf, 7, 6 + Len(q))
  <2>1. r \in Seq(Bytes) /\ Len(r) = Len(q)
    BY <1>1 DEF IsFrame
  <2>2. ASSUME NEW i \in 1 .. Len(q) PROVE r[i] = q[i]
    <3>1. r[i] = buf[7 + i - 1]
      BY <1>1 DEF IsFrame
    <3>2. 7 + i - 1 = 6 + i
      BY <1>1
    <3> QED BY <3>1, <3>2 DEF IsFrame
  <2> HIDE DEF r
  <2>3. r = q
    BY <2>1, <2>2, SeqEqual
  <2> QED BY <2>3 DEF r
<1> QED BY <1>2, <1>3, <1>4, <1>5, <1>6 DEF parse

(* thales.rs: as long as the body fits the two bytes of the length, a      *)
(* response is read back with its header, its code and all of its payload, *)
(* whatever follows it in the buffer, and what is drained is the frame.    *)
THEOREM ResponseRoundTrip ==
  ASSUME NEW h \in Pairs, NEW c \in Pairs, NEW e \in Pairs, NEW p \in Seq(Bytes),
         NEW x \in Seq(Bytes), 6 + Len(p) < Radix * Radix
  PROVE  LET buf == frame_response(h, c, e, p) \o x
         IN /\ Parses(buf) /\ frame_len(buf) = 8 + Len(p)
            /\ parse(buf) = [header |-> h, code |-> c, payload |-> e \o p]
<1>1. IsFrame(h, c, e \o p, frame_response(h, c, e, p) \o x)
  BY FrameThenRest
<1>2. e \o p \in Seq(Bytes) /\ Len(e \o p) = 2 + Len(p)
  BY PairThen DEF Follows
<1> DEFINE q == e \o p
           buf == frame_response(h, c, e, p) \o x
<1>3. IsFrame(h, c, q, buf) /\ q \in Seq(Bytes) /\ Len(q) = 2 + Len(p)
  BY <1>1, <1>2
<1> HIDE DEF q, buf
<1>4. Parses(buf) /\ frame_len(buf) = 6 + Len(q)
      /\ parse(buf) = [header |-> h, code |-> c, payload |-> q]
  BY <1>3, ParseOfFrame
<1>5. frame_len(buf) = 8 + Len(p)
  BY <1>3, <1>4
<1> QED BY <1>4, <1>5 DEF q, buf

(* hsm_client.rs: what an exchange returns before the reply is complete    *)
(* does not parse.                                                         *)
LEMMA CutDoesNotParse ==
  ASSUME NEW cut \in Seq(Bytes), ~is_response_complete(cut)
  PROVE  ~Parses(cut)
BY DEF is_response_complete, Parses
===============================================================================
