--------------------------- MODULE ForwardLegProofs ---------------------------
(***************************************************************************)
(* Proofs about module ForwardLeg, for any number of concurrent exchanges, *)
(* any response lengths, any chunk size and any cap.                       *)
(***************************************************************************)
EXTENDS ForwardLeg, SequenceTheorems, TLAPS

(* A connection belongs to one exchange for ever.                          *)
Exclusive == \A r, s \in Reqs : link[r] \in Links /\ link[r] = link[s] => r = s

(* Nothing is under way on a connection on which nothing has been asked,   *)
(* and an exchange that has yet to write holds such a connection.          *)
NoResidue ==
  /\ \A k \in Links : asked[k] = NoReq => pipe[k] = <<>>
  /\ \A k \in Links \ used : asked[k] = NoReq
  /\ \A r \in Reqs : link[r] \in Links => link[r] \in used
  /\ \A r \in Reqs : phase[r] \in {"build", "connect"} => link[r] = NoLink
  /\ \A r \in Reqs : phase[r] \in {"tls", "write"} => asked[link[r]] = NoReq

(* What travels on a connection, and what has been read from it, answers   *)
(* the one request that was written on it.                                 *)
Own ==
  /\ \A k \in Links : pipe[k] \in Seq({asked[k]})
  /\ \A r \in Reqs : phase[r] = "read" => asked[link[r]] = r
  /\ NoCrossTalk

IInv == TypeOK /\ Exclusive /\ NoResidue /\ Own /\ CapOnlyOnOversized

-------------------------------------------------------------------------------
(* Initially no exchange holds a connection and nothing has been sent.     *)
THEOREM InitIInv == Init => IInv
<1> SUFFICES ASSUME Init PROVE IInv
  OBVIOUS
<1> USE DEF Init
<1>1. TypeOK
  BY ForwardAssumption DEF TypeOK
<1>2. Exclusive /\ NoResidue
  BY ForwardAssumption DEF Exclusive, NoResidue
<1>3. Own /\ CapOnlyOnOversized
  BY DEF Own, NoCrossTalk, CapOnlyOnOversized
<1> QED
  BY <1>1, <1>2, <1>3 DEF IInv

(* The bytes of one read are a prefix of what is under way; the rest stays.*)
LEMMA CutFacts ==
  ASSUME NEW S, NEW q \in Seq(S), NEW n \in 1 .. Len(q)
  PROVE  /\ SubSeq(q, 1, n) \in Seq(S)
         /\ SubSeq(q, n + 1, Len(q)) \in Seq(S)
         /\ Len(SubSeq(q, 1, n)) = n
<1>1. Len(q) \in Nat /\ n \in Nat /\ n <= Len(q)
  OBVIOUS
<1>2. \A i \in 1 .. Len(q) : q[i] \in S
  OBVIOUS
<1>3. SubSeq(q, 1, n) \in Seq(S)
  BY <1>1, <1>2
<1>4. SubSeq(q, n + 1, Len(q)) \in Seq(S)
  BY <1>1, <1>2
<1>5. Len(SubSeq(q, 1, n)) = n
  BY <1>1
<1> QED
  BY <1>3, <1>4, <1>5

(* A step that reads bytes from the exchange's own connection keeps the    *)
(* bytes of each request together and caps only an oversized frame.        *)
LEMMA ReadStep ==
  ASSUME IInv, NEW r \in Reqs, ReadBytes(r)
  PROVE  IInv'
<1> USE DEF IInv
<1> DEFINE k == link[r]
<1>1. PICK n \in 1 .. Len(pipe[k]) :
        /\ n <= Chunk
        /\ resp' = [resp EXCEPT ![r] = @ \o SubSeq(pipe[k], 1, n)]
        /\ pipe' = [pipe EXCEPT ![k] = SubSeq(@, n + 1, Len(@))]
        /\ \/ /\ Goto(r, "ok")
              /\ UNCHANGED capped
           \/ /\ ~IsResponseComplete(r, Len(resp[r]) + n)
              /\ Len(resp[r]) + n > Cap
              /\ Goto(r, "err")
              /\ capped' = capped \cup {r}
           \/ UNCHANGED <<phase, capped>>
  BY DEF ReadBytes
<1>2. phase[r] = "read" /\ UNCHANGED <<link, used, asked, sent, hungUp, frameLen>>
  BY DEF ReadBytes
<1>3. k \in Links /\ asked[k] = r
  BY <1>2 DEF TypeOK, Own
<1>4. pipe[k] \in Seq({r}) /\ resp[r] \in Seq({r})
  BY <1>3 DEF Own, NoCrossTalk
<1>5. /\ SubSeq(pipe[k], 1, n) \in Seq({r})
      /\ SubSeq(pipe[k], n + 1, Len(pipe[k])) \in Seq({r})
  BY <1>1, <1>4, CutFacts
<1>6. resp[r] \o SubSeq(pipe[k], 1, n) \in Seq({r})
  BY <1>4, <1>5
<1>7. {r} \subseteq Reqs
  OBVIOUS
<1>8. /\ SubSeq(pipe[k], n + 1, Len(pipe[k])) \in Seq(Reqs)
      /\ resp[r] \o SubSeq(pipe[k], 1, n) \in Seq(Reqs)
  BY <1>5, <1>6, <1>7
<1>9. phase' \in [Reqs -> {"build", "connect", "tls", "write", "read", "ok", "err"}]
  BY <1>1 DEF Goto, TypeOK
<1>10. \A s \in Reqs : phase'[s] = phase[s] \/ phase'[s] \in {"ok", "err"}
  BY <1>1 DEF Goto, TypeOK
<1>11. pipe' \in [Links -> Seq(Reqs)] /\ resp' \in [Reqs -> Seq(Reqs)]
  BY <1>1, <1>3, <1>8 DEF TypeOK
<1>12. capped' \subseteq Reqs
  BY <1>1 DEF TypeOK
<1>13. TypeOK'
  BY <1>2, <1>9, <1>10, <1>11, <1>12 DEF TypeOK
<1>14. Exclusive'
  BY <1>2 DEF Exclusive
<1>15. NoResidue'
  <2>1. \A j \in Links : asked[j] = NoReq => pipe'[j] = pipe[j]
    BY <1>1, <1>3, ForwardAssumption DEF TypeOK
  <2> QED
    BY <2>1, <1>2, <1>10 DEF NoResidue
<1>16. Own'
  <2>1. \A j \in Links : pipe'[j] \in Seq({asked[j]})
    BY <1>1, <1>3, <1>5 DEF TypeOK, Own
  <2>2. \A s \in Reqs : resp'[s] \in Seq({s})
    BY <1>1, <1>6 DEF TypeOK, Own, NoCrossTalk
  <2> QED
    BY <2>1, <2>2, <1>2, <1>10 DEF Own, NoCrossTalk
<1>17. CapOnlyOnOversized'
  <2>1. ASSUME ~IsResponseComplete(r, Len(resp[r]) + n), Len(resp[r]) + n > Cap
        PROVE  Cap < frameLen[r]
    <3>1. Len(resp[r]) \in Nat /\ n \in Nat /\ Cap \in Nat
      BY <1>4, ForwardAssumption
    <3>2. frameLen[r] \in Nat \ {0, 1}
      BY ForwardAssumption DEF TypeOK
    <3> QED
      BY <2>1, <3>1, <3>2 DEF IsResponseComplete
  <2> QED
    BY <2>1, <1>1, <1>2 DEF CapOnlyOnOversized
<1> QED
  BY <1>13, <1>14, <1>15, <1>16, <1>17

(* Every step of an exchange and of the HSM preserves the invariant.       *)
THEOREM Invariance == Spec => []IInv
<1>1. ASSUME IInv, [Next]_vars PROVE IInv'
  <2> USE <1>1 DEF IInv
  <2>1. ASSUME NEW r \in Reqs, BuildClient(r) PROVE IInv'
    <3>1. /\ phase[r] = "build" /\ \E p \in {"connect", "err"} : phase' = [phase EXCEPT ![r] = p]
          /\ UNCHANGED <<link, used, asked, pipe, sent, hungUp, frameLen, resp, capped>>
      BY <2>1 DEF BuildClient, Goto, hsmVars
    <3> QED
      BY <3>1 DEF TypeOK, Exclusive, NoResidue, Own, NoCrossTalk, CapOnlyOnOversized
  <2>2. ASSUME NEW r \in Reqs, Connect(r) PROVE IInv'
    <3>1. PICK k \in Links \ used :
            link' = [link EXCEPT ![r] = k] /\ used' = used \cup {k}
      BY <2>2 DEF Connect
    <3>2. /\ phase[r] = "connect"
          /\ \E p \in {"tls", "write"} : phase' = [phase EXCEPT ![r] = p]
          /\ UNCHANGED <<asked, pipe, sent, hungUp, frameLen, resp, capped>>
      BY <2>2 DEF Connect, Goto, hsmVars
    <3>3. TypeOK'
      BY <3>1, <3>2 DEF TypeOK
    <3>4. Exclusive'
      BY <3>1, <3>2 DEF TypeOK, Exclusive, NoResidue
    <3>5. NoResidue'
      BY <3>1, <3>2 DEF TypeOK, NoResidue
    <3>6. Own' /\ CapOnlyOnOversized'
      BY <3>1, <3>2 DEF TypeOK, Own, NoCrossTalk, CapOnlyOnOversized
    <3> QED
      BY <3>3, <3>4, <3>5, <3>6
  <2>3. ASSUME NEW r \in Reqs, TlsHandshake(r) PROVE IInv'
    <3>1. /\ phase[r] = "tls" /\ phase' = [phase EXCEPT ![r] = "write"]
          /\ UNCHANGED <<link, used, asked, pipe, sent, hungUp, frameLen, resp, capped>>
      BY <2>3 DEF TlsHandshake, Goto, hsmVars
    <3> QED
      BY <3>1 DEF TypeOK, Exclusive, NoResidue, Own, NoCrossTalk, CapOnlyOnOversized
  <2>4. ASSUME NEW r \in Reqs, WriteFrame(r) PROVE IInv'
    <3>1. /\ phase[r] = "write" /\ phase' = [phase EXCEPT ![r] = "read"]
          /\ asked' = [asked EXCEPT ![link[r]] = r]
          /\ UNCHANGED <<link, used, pipe, sent, hungUp, frameLen, resp, capped>>
      BY <2>4 DEF WriteFrame, Goto
    <3>2. link[r] \in used /\ used \subseteq Links /\ asked[link[r]] = NoReq
      BY <3>1 DEF TypeOK, NoResidue
    <3>3. pipe[link[r]] = <<>>
      BY <3>2 DEF NoResidue
    <3>4. TypeOK' /\ Exclusive'
      BY <3>1, <3>2 DEF TypeOK, Exclusive
    <3>5. NoResidue'
      BY <3>1, <3>2, <3>3, ForwardAssumption DEF TypeOK, NoResidue, Exclusive
    <3>6. Own'
      <4>1. \A j \in Links : pipe'[j] \in Seq({asked'[j]})
        <5>1. \A j \in Links : j # link[r] => asked'[j] = asked[j]
          BY <3>1 DEF TypeOK
        <5>2. pipe'[link[r]] \in Seq({asked'[link[r]]})
          BY <3>1, <3>3
        <5> QED
          BY <5>1, <5>2, <3>1 DEF Own
      <4>2. \A s \in Reqs : phase'[s] = "read" => asked'[link[s]] = s
        <5> SUFFICES ASSUME NEW s \in Reqs, phase'[s] = "read"
                     PROVE  asked'[link[s]] = s
          OBVIOUS
        <5>1. CASE s = r
          BY <5>1, <3>1, <3>2 DEF TypeOK
        <5>2. CASE s # r
          <6>1. phase[s] = "read" /\ link[s] \in Links /\ asked[link[s]] = s
            BY <5>2, <3>1 DEF TypeOK, Own
          <6>2. link[s] # link[r]
            BY <6>1, <5>2 DEF Exclusive
          <6> QED
            BY <6>1, <6>2, <3>1, <3>2 DEF TypeOK
        <5> QED
          BY <5>1, <5>2
      <4> QED
        BY <4>1, <4>2, <3>1 DEF Own, NoCrossTalk
    <3>7. CapOnlyOnOversized'
      BY <3>1 DEF CapOnlyOnOversized
    <3> QED
      BY <3>4, <3>5, <3>6, <3>7
  <2>5. ASSUME NEW r \in Reqs, AwaitFails(r) PROVE IInv'
    <3>1. /\ phase' = [phase EXCEPT ![r] = "err"]
          /\ UNCHANGED <<link, used, asked, pipe, sent, hungUp, frameLen, resp, capped>>
      BY <2>5 DEF AwaitFails, Goto, hsmVars
    <3> QED
      BY <3>1 DEF TypeOK, Exclusive, NoResidue, Own, NoCrossTalk, CapOnlyOnOversized
  <2>6. ASSUME NEW r \in Reqs, ReadEof(r) PROVE IInv'
    <3>1. /\ phase' = [phase EXCEPT ![r] = "ok"]
          /\ UNCHANGED <<link, used, asked, pipe, sent, hungUp, frameLen, resp, capped>>
      BY <2>6 DEF ReadEof, Goto, hsmVars
    <3> QED
      BY <3>1 DEF TypeOK, Exclusive, NoResidue, Own, NoCrossTalk, CapOnlyOnOversized
  <2>7. ASSUME NEW k \in Links, HsmSends(k) PROVE IInv'
    <3>1. /\ asked[k] \in Reqs
          /\ pipe' = [pipe EXCEPT ![k] = Append(@, asked[k])]
          /\ sent' = [sent EXCEPT ![k] = @ + 1]
          /\ UNCHANGED <<phase, link, used, asked, hungUp, resp, frameLen, capped>>
      BY <2>7 DEF HsmSends
    <3>2. Append(pipe[k], asked[k]) \in Seq({asked[k]}) /\ Append(pipe[k], asked[k]) \in Seq(Reqs)
      BY <3>1 DEF TypeOK, Own
    <3>3. TypeOK'
      BY <3>1, <3>2 DEF TypeOK
    <3>4. Exclusive' /\ NoResidue'
      BY <3>1, ForwardAssumption DEF TypeOK, Exclusive, NoResidue
    <3>5. Own' /\ CapOnlyOnOversized'
      BY <3>1, <3>2 DEF TypeOK, Own, NoCrossTalk, CapOnlyOnOversized
    <3> QED
      BY <3>3, <3>4, <3>5
  <2>8. ASSUME NEW k \in Links, HsmCloses(k) PROVE IInv'
    <3>1. /\ hungUp' = hungUp \cup {k}
          /\ UNCHANGED <<phase, link, used, asked, pipe, sent, resp, frameLen, capped>>
      BY <2>8 DEF HsmCloses
    <3> QED
      BY <3>1 DEF TypeOK, Exclusive, NoResidue, Own, NoCrossTalk, CapOnlyOnOversized
  <2>9. CASE UNCHANGED vars
    BY <2>9 DEF vars, hsmVars, TypeOK, Exclusive, NoResidue, Own, NoCrossTalk, CapOnlyOnOversized
  <2> QED
    BY <1>1, <2>1, <2>2, <2>3, <2>4, <2>5, <2>6, <2>7, <2>8, <2>9, ReadStep
    DEF Next, Exchange
<1> QED
  BY InitIInv, <1>1, PTL DEF Spec

(* The type invariant of the forward leg holds for every instance.         *)
THEOREM TypeCorrect == Spec => []TypeOK
BY Invariance, PTL DEF IInv

(* However many exchanges run at once, are abandoned or answered late, no  *)
(* byte of one command's answer reaches the response of another.           *)
THEOREM ResponsesNeverCross == Spec => []NoCrossTalk
<1>1. IInv => NoCrossTalk
  BY DEF IInv, Own
<1> QED
  BY <1>1, Invariance, PTL

(* MAX_HSM_RESPONSE rejects a response only when its declared frame is     *)
(* longer than the cap.                                                    *)
THEOREM CapSparesFittingResponses == Spec => []CapOnlyOnOversized
BY Invariance, PTL DEF IInv
===============================================================================
