------------------------------ MODULE ForwardLeg ------------------------------
(***************************************************************************)
(* forward.rs and hsm_client.rs: exchanges with the backend HSM.           *)
(* SingleEndpointLeg::exchange builds an HsmClient, opens a connection of  *)
(* its own, optionally wraps it in TLS, writes one frame and reads until   *)
(* the response is complete, the HSM closes, a timer runs out or too much  *)
(* has arrived.  Several connection tasks run exchanges at the same time.  *)
(*                                                                         *)
(* A byte that travels from the HSM is represented by the request it       *)
(* answers, so that a byte of one transaction in the response of another   *)
(* would be seen.  The HSM may be slow, stop, close in the middle of a     *)
(* frame, send more than one frame, or answer after the proxy gave up.     *)
(***************************************************************************)
EXTENDS Naturals, Sequences

CONSTANTS
  Reqs,         \* requests forwarded, one exchange each
  Links,        \* TCP connections to the HSM, each opened at most once
  NoLink,       \* the exchange has no connection
  NoReq,        \* nothing has been written on the connection
  FrameLens,    \* lengths that the length field of a response may declare
  Chunk,        \* size of the read buffer of exchange_with_hsm
  Cap,          \* MAX_HSM_RESPONSE
  MaxSent,      \* bound: bytes the HSM sends on one connection
  Tls           \* is discover.tls configured?

ASSUME ForwardAssumption ==
  /\ NoLink \notin Links
  /\ NoReq \notin Reqs
  /\ FrameLens \subseteq Nat \ {0, 1}
  /\ Chunk \in Nat \ {0}
  /\ Cap \in Nat /\ MaxSent \in Nat
  /\ Tls \in BOOLEAN

VARIABLES
  phase,     \* where each exchange is: "build", "connect", "tls", "write",
             \* "read", and then "ok" or "err"
  link,      \* the connection each exchange holds
  used,      \* connections that have been opened
  asked,     \* the request last written on each connection
  pipe,      \* bytes under way from the HSM on each connection
  sent,      \* number of bytes the HSM has sent on each connection
  hungUp,    \* connections the HSM has closed
  resp,      \* resp: the bytes each exchange has read
  frameLen,  \* length of the frame that the HSM answers each request with
  capped     \* history: exchanges ended by MAX_HSM_RESPONSE

hsmVars == <<asked, pipe, sent, hungUp, frameLen>>
vars == <<phase, link, used, hsmVars, resp, capped>>

Goto(r, p) == phase' = [phase EXCEPT ![r] = p]

Pending(r) == phase[r] \notin {"ok", "err"}

(* protocol.is_response_complete(&resp): the length field is there and so  *)
(* are at least as many bytes as it says.                                  *)
IsResponseComplete(r, n) == 2 <= n /\ frameLen[r] <= n

Init ==
  /\ phase = [r \in Reqs |-> "build"]
  /\ link = [r \in Reqs |-> NoLink]
  /\ used = {}
  /\ asked = [k \in Links |-> NoReq]
  /\ pipe = [k \in Links |-> <<>>]
  /\ sent = [k \in Links |-> 0]
  /\ hungUp = {}
  /\ resp = [r \in Reqs |-> <<>>]
  /\ frameLen \in [Reqs -> FrameLens]
  /\ capped = {}

-------------------------------------------------------------------------------
(* Mutant of BuildClient: the exchange goes on without a connection.       *)
BugBuildSkipsConnect(r) ==
  /\ phase[r] = "build"
  /\ Goto(r, "write")
  /\ UNCHANGED <<link, used, hsmVars, resp, capped>>

(* HsmClient::from_discover: the PEM files are read on every exchange.     *)
BuildClient(r) ==
  /\ phase[r] = "build"
  /\ \/ Goto(r, "connect")
     \/ Tls /\ Goto(r, "err")
  /\ UNCHANGED <<link, used, hsmVars, resp, capped>>

(* Mutant of Connect: a connection that another exchange opened is reused. *)
BugConnectReuses(r) ==
  /\ phase[r] = "connect"
  /\ \E k \in Links :
       /\ k \in used \/ used = {}
       /\ link' = [link EXCEPT ![r] = k]
       /\ used' = used \cup {k}
  /\ Goto(r, IF Tls THEN "tls" ELSE "write")
  /\ UNCHANGED <<hsmVars, resp, capped>>

(* TcpStream::connect: a fresh connection for every exchange.              *)
Connect(r) ==
  /\ phase[r] = "connect"
  /\ \E k \in Links \ used :
       /\ link' = [link EXCEPT ![r] = k]
       /\ used' = used \cup {k}
  /\ Goto(r, IF Tls THEN "tls" ELSE "write")
  /\ UNCHANGED <<hsmVars, resp, capped>>

TlsHandshake(r) ==
  /\ phase[r] = "tls"
  /\ Goto(r, "write")
  /\ UNCHANGED <<link, used, hsmVars, resp, capped>>

WriteFrame(r) ==
  /\ phase[r] = "write"
  /\ asked' = [asked EXCEPT ![link[r]] = r]
  /\ Goto(r, "read")
  /\ UNCHANGED <<link, used, pipe, sent, hungUp, frameLen, resp, capped>>

(* Mutant of AwaitFails: the read of the response is not timed.            *)
BugReadUntimed(r) ==
  /\ phase[r] \in {"connect", "tls", "write"}
  /\ Goto(r, "err")
  /\ UNCHANGED <<link, used, hsmVars, resp, capped>>

(* An await of the exchange fails or its timer runs out (10 s to connect,  *)
(* to shake hands and to write, hsm_read_timeout_secs for each read).      *)
AwaitFails(r) ==
  /\ phase[r] \in {"connect", "tls", "write", "read"}
  /\ Goto(r, "err")
  /\ UNCHANGED <<link, used, hsmVars, resp, capped>>

(* Mutant of ReadBytes: the cap is checked before completeness.            *)
BugReadCapFirst(r) ==
  /\ phase[r] = "read"
  /\ \E n \in 1 .. Len(pipe[link[r]]) :
       LET total == Len(resp[r]) + n IN
       /\ n <= Chunk
       /\ resp' = [resp EXCEPT ![r] = @ \o SubSeq(pipe[link[r]], 1, n)]
       /\ pipe' = [pipe EXCEPT ![link[r]] = SubSeq(@, n + 1, Len(@))]
       /\ \/ /\ total > Cap
             /\ Goto(r, "err")
             /\ capped' = capped \cup {r}
          \/ /\ total <= Cap
             /\ Goto(r, IF IsResponseComplete(r, total) THEN "ok" ELSE "read")
             /\ UNCHANGED capped
  /\ UNCHANGED <<link, used, asked, sent, hungUp, frameLen>>

(* read returns n > 0 bytes: complete, or too long, or read on.            *)
ReadBytes(r) ==
  /\ phase[r] = "read"
  /\ \E n \in 1 .. Len(pipe[link[r]]) :
       LET total == Len(resp[r]) + n IN
       /\ n <= Chunk
       /\ resp' = [resp EXCEPT ![r] = @ \o SubSeq(pipe[link[r]], 1, n)]
       /\ pipe' = [pipe EXCEPT ![link[r]] = SubSeq(@, n + 1, Len(@))]
       /\ \/ /\ IsResponseComplete(r, total)
             /\ Goto(r, "ok")
             /\ UNCHANGED capped
          \/ /\ ~IsResponseComplete(r, total)
             /\ total > Cap
             /\ Goto(r, "err")
             /\ capped' = capped \cup {r}
          \/ /\ ~IsResponseComplete(r, total)
             /\ total <= Cap
             /\ UNCHANGED <<phase, capped>>
  /\ UNCHANGED <<link, used, asked, sent, hungUp, frameLen>>

(* read returns 0: whatever has arrived is the result.                     *)
ReadEof(r) ==
  /\ phase[r] = "read"
  /\ link[r] \in hungUp
  /\ pipe[link[r]] = <<>>
  /\ Goto(r, "ok")
  /\ UNCHANGED <<link, used, hsmVars, resp, capped>>

-------------------------------------------------------------------------------
(* The HSM, which is not part of the repository: it answers the request on *)
(* a connection byte by byte, at any time, and may stop or close anywhere. *)
HsmSends(k) ==
  /\ asked[k] \in Reqs
  /\ k \notin hungUp
  /\ sent[k] < MaxSent
  /\ pipe' = [pipe EXCEPT ![k] = Append(@, asked[k])]
  /\ sent' = [sent EXCEPT ![k] = @ + 1]
  /\ UNCHANGED <<phase, link, used, asked, hungUp, resp, frameLen, capped>>

HsmCloses(k) ==
  /\ k \in used \ hungUp
  /\ hungUp' = hungUp \cup {k}
  /\ UNCHANGED <<phase, link, used, asked, pipe, sent, resp, frameLen, capped>>

Exchange(r) ==
  \/ BuildClient(r) \/ Connect(r) \/ TlsHandshake(r) \/ WriteFrame(r)
  \/ ReadBytes(r) \/ ReadEof(r) \/ AwaitFails(r)

Next ==
  \/ \E r \in Reqs : Exchange(r)
  \/ \E k \in Links : HsmSends(k) \/ HsmCloses(k)

Spec == Init /\ [][Next]_vars

(* Every await of an exchange is timed.  The HSM owes nothing.             *)
FairSpec == Spec /\ \A r \in Reqs : WF_vars(Exchange(r))

-------------------------------------------------------------------------------
(* Every variable of the exchanges has its type, and an exchange that is   *)
(* past connect holds a connection that has been opened.                   *)
TypeOK ==
  /\ phase \in [Reqs -> {"build", "connect", "tls", "write", "read", "ok", "err"}]
  /\ link \in [Reqs -> Links \cup {NoLink}]
  /\ used \subseteq Links
  /\ asked \in [Links -> Reqs \cup {NoReq}]
  /\ pipe \in [Links -> Seq(Reqs)]
  /\ sent \in [Links -> Nat]
  /\ hungUp \subseteq Links
  /\ resp \in [Reqs -> Seq(Reqs)]
  /\ frameLen \in [Reqs -> FrameLens]
  /\ capped \subseteq Reqs
  /\ \A r \in Reqs : phase[r] \in {"tls", "write", "read"} => link[r] \in used

(* The contract of ForwardLeg (Exclusivity, Zero residual, Poison on       *)
(* anomaly): no byte of the HSM's answer to one request ends up in the     *)
(* response of another, whatever was abandoned before or arrives late.     *)
NoCrossTalk == \A r \in Reqs : resp[r] \in Seq({r})

(* The cap never rejects a response whose frame fits it: a complete frame  *)
(* is taken however it is cut up and whatever follows it.                  *)
CapOnlyOnOversized == \A r \in capped : Cap < frameLen[r]

(* Every forwarded command gets its result, whatever the HSM does: the     *)
(* timers bound a silent HSM, the cap bounds one that never completes.     *)
EveryExchangeEnds == \A r \in Reqs : <>(phase[r] \in {"ok", "err"})
===============================================================================
