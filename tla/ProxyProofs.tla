----------------------------- MODULE ProxyProofs ------------------------------
(***************************************************************************)
(* Proofs about module Proxy, for any number of connections, any streams,  *)
(* any limits with the headroom HeadroomAssumption asks for and any        *)
(* configurations.                                                         *)
(***************************************************************************)
EXTENDS Proxy, FiniteSetTheorems, TLAPS

Serving == {"handling", "logging", "forwarding", "writing"}

(* Where each task is in its stream and what it may assume there.  A task  *)
(* that awaits a read has no complete frame in its buffer; one that serves *)
(* a frame still has it there when the await returns.                      *)
Position(c) ==
  /\ head[c] <= Len(Stream[c]) + 1
  /\ Start(c, head[c]) <= rcvd[c]
  /\ rcvd[c] <= Total(c)
  /\ task[c] \in {"backlog", "handshake"} => rcvd[c] = 0 /\ head[c] = 1
  /\ task[c] = "reading" => ~Parses(c)
  /\ task[c] \in Serving => Parses(c)
  /\ Live(c) => Buffered(c) <= Cap

(* What has been served, and what is about to be.                          *)
Served(c) ==
  /\ Len(served[c]) + 1 = head[c]
  /\ WellFormedUpTo(c, head[c] - 1)
  /\ task[c] \in {"logging", "forwarding"} =>
       cfg.discover /\ HeadFrame(c).code \notin Handled
  /\ task[c] = "handling" => HeadFrame(c).code \in Handled
  /\ task[c] = "writing" =>
       /\ reply[c].frame = head[c]
       /\ reply[c].kind \in Host!Outcomes(cfg.discover, HeadFrame(c).code)

Capped(c) ==
  /\ task[c] = "closed"
  /\ head[c] \in DOMAIN Stream[c]
  /\ ~HeadFrame(c).ok

(* The command code a task between the two locks of record is about to     *)
(* write.                                                                  *)
InHand(c, q) == task[c] = "logging" /\ HeadFrame(c).code = q

(* A code not yet claimed in this life has no record under way; a claimed  *)
(* one has at most one, and until it is out the file has none of this life.*)
LogOf(q) ==
  /\ lines[q] <= lives
  /\ q \notin seen => lines[q] < lives /\ q \notin unflushed
  /\ q \in unflushed => lines[q] < lives
  /\ \A c \in Conns : InHand(c, q) =>
       /\ q \in seen
       /\ q \notin unflushed
       /\ lines[q] < lives
       /\ \A d \in Conns : InHand(d, q) => d = c

(* The codes claimed in this life are finitely many, and all that waits in *)
(* the BufWriter is among them.                                            *)
LogBook == IsFiniteSet(seen) /\ unflushed \subseteq seen

IInv ==
  /\ TypeOK
  /\ PermitConservation
  /\ \A c \in Conns : Position(c)
  /\ \A c \in Conns : Served(c)
  /\ \A c \in capped : Capped(c)
  /\ \A q \in Codes : LogOf(q)
  /\ LogBook
  /\ SeenIsNotLost

-------------------------------------------------------------------------------
(* Facts about the streams.                                                *)

(* The offsets of frame k of a stream are natural numbers in order, and a  *)
(* well-formed frame is at most MaxFrame bytes long.                       *)
LEMMA FrameFacts ==
  ASSUME NEW c \in Conns, NEW k \in 1 .. Len(Stream[c])
  PROVE  /\ Stream[c][k] \in Frame
         /\ Start(c, k) \in Nat
         /\ Start(c, k + 1) = Stream[c][k].end
         /\ Start(c, k) < Stream[c][k].end
         /\ Stream[c][k].ok => Stream[c][k].end - Start(c, k) <= MaxFrame
<1>1. Stream[c] \in Seq(Frame) /\ DOMAIN Stream[c] = 1 .. Len(Stream[c])
  BY StreamAssumption
<1>2. Len(Stream[c]) \in Nat
  BY <1>1
<1>3. \A i \in 1 .. Len(Stream[c]) : Stream[c][i] \in Frame /\ Stream[c][i].end \in Nat
  <2>1. \A i \in 1 .. Len(Stream[c]) : Stream[c][i] \in Frame
    BY <1>1
  <2>2. \A f \in Frame : f.end \in Nat
    BY DEF Frame
  <2>3. QED
    BY <2>1, <2>2
<1>4. Start(c, k) \in Nat
  <2>1. CASE k = 1
    BY <2>1 DEF Start
  <2>2. CASE k # 1
    <3>1. k - 1 \in 1 .. Len(Stream[c])
      BY <1>2, <2>2
    <3>2. QED
      BY <2>2, <3>1, <1>3 DEF Start
  <2>3. QED
    BY <2>1, <2>2
<1>5. Start(c, k + 1) = Stream[c][k].end
  <2>1. k + 1 # 1 /\ (k + 1) - 1 = k
    BY <1>2
  <2>2. QED
    BY <2>1 DEF Start
<1>6. QED
  BY <1>1, <1>3, <1>4, <1>5, StreamAssumption

(* The same for a position that may be one past the last frame.            *)
LEMMA StartFacts ==
  ASSUME NEW c \in Conns, NEW k \in 1 .. Len(Stream[c]) + 1
  PROVE  Start(c, k) \in Nat
<1>1. Len(Stream[c]) \in Nat
  BY StreamAssumption
<1>2. CASE k = 1
  BY <1>2 DEF Start
<1>3. CASE k # 1
  <2>1. k - 1 \in 1 .. Len(Stream[c]) /\ (k - 1) + 1 = k
    BY <1>1, <1>3
  <2>2. Start(c, (k - 1) + 1) = Stream[c][k - 1].end /\ Stream[c][k - 1] \in Frame
    BY <2>1, FrameFacts
  <2>3. QED
    BY <2>1, <2>2 DEF Frame
<1>4. QED
  BY <1>2, <1>3

(* The first frame of a stream is not empty, so nothing parses before a    *)
(* byte has been read.                                                     *)
LEMMA FirstFrame ==
  ASSUME NEW c \in Conns, 1 \in DOMAIN Stream[c]
  PROVE  0 < Stream[c][1].end /\ Stream[c][1].end \in Nat
<1>1. 1 \in 1 .. Len(Stream[c])
  BY StreamAssumption
<1>2. QED
  BY <1>1, FrameFacts DEF Start, Frame

(* A frame that parses has a command code.                                 *)
LEMMA ParsedCode ==
  ASSUME NEW c \in Conns, Parses(c)
  PROVE  HeadFrame(c).code \in Codes
<1>1. head[c] \in 1 .. Len(Stream[c])
  BY StreamAssumption DEF Parses
<1>2. HeadFrame(c) \in Frame
  BY <1>1, FrameFacts DEF HeadFrame
<1>3. QED
  BY <1>2 DEF Frame

-------------------------------------------------------------------------------
(* The permits.                                                            *)

(* The live tasks are finitely many, so they can be counted.               *)
LEMMA LiveIsFinite ==
  /\ IsFiniteSet(LiveConns)
  /\ Cardinality(LiveConns) \in Nat
<1>1. LiveConns \subseteq Conns
  BY DEF LiveConns
<1>2. QED
  BY <1>1, ConnsAssumption, FS_Subset, FS_CardinalityType

(* A freshly started server satisfies the inductive invariant: all permits *)
(* are free and nothing has been read, served or logged.                   *)
THEOREM InitIInv == Init => IInv
<1> SUFFICES ASSUME Init
             PROVE  IInv
  OBVIOUS
<1>1. TypeOK
  BY LimitsAssumption DEF Init, TypeOK, TaskStates
<1>2. LiveConns = {}
  BY DEF Init, LiveConns, Live
<1>3. PermitConservation
  BY <1>2, FS_EmptySet, LimitsAssumption DEF Init, PermitConservation
<1>4. ASSUME NEW c \in Conns
      PROVE  Position(c) /\ Served(c)
  <2>1. Len(Stream[c]) \in Nat
    BY StreamAssumption
  <2>2. Total(c) \in Nat
    BY <2>1, StartFacts DEF Total
  <2>3. head[c] = 1 /\ rcvd[c] = 0 /\ task[c] = "backlog" /\ served[c] = <<>>
    BY DEF Init
  <2>4. Start(c, head[c]) = 0
    BY <2>3 DEF Start
  <2>5. Position(c)
    BY <2>1, <2>2, <2>3, <2>4 DEF Position, Live, Serving
  <2>6. Served(c)
    BY <2>3 DEF Served, WellFormedUpTo
  <2>7. QED
    BY <2>5, <2>6
<1>5. \A c \in capped : Capped(c)
  BY DEF Init
<1>6. \A q \in Codes : LogOf(q)
  BY DEF Init, LogOf, InHand
<1>7. SeenIsNotLost
  BY DEF Init, SeenIsNotLost
<1>8. LogBook
  BY FS_EmptySet DEF Init, LogBook
<1>9. QED
  BY <1>1, <1>3, <1>4, <1>5, <1>6, <1>7, <1>8 DEF IInv


(* What all steps of a connection task have in common: the task is live,   *)
(* it touches no other connection, and it gives its permit back exactly    *)
(* when it ends.                                                           *)
LEMMA TaskShape ==
  ASSUME TypeOK, NEW c \in Conns, Task(c)
  PROVE  /\ Live(c)
         /\ UNCHANGED <<cfg, acceptor, lives>>
         /\ \/ /\ task' = [task EXCEPT ![c] = "closed"]
               /\ permits' = permits + 1
               /\ UNCHANGED <<head, reply, served, logVars>>
            \/ /\ \E pc \in TaskStates \ {"backlog", "closed"} :
                    task' = [task EXCEPT ![c] = pc]
               /\ permits' = permits
               /\ capped' = capped
         /\ \A d \in Conns \ {c} :
              /\ rcvd'[d] = rcvd[d]
              /\ head'[d] = head[d]
              /\ reply'[d] = reply[d]
              /\ served'[d] = served[d]
<1> USE DEF Live, Exit, Goto, TaskStates, listenVars, logVars
<1>1. CASE HandshakeOk(c) \/ HandshakeFails(c)
  BY <1>1 DEF HandshakeOk, HandshakeFails
<1>2. CASE Read(c)
  BY <1>2 DEF Read, TypeOK
<1>3. CASE ReadEnds(c) \/ ReadIdle(c)
  BY <1>3 DEF ReadEnds, ReadIdle
<1>4. CASE ParseNone(c) \/ DispatchHandled(c)
  BY <1>4 DEF ParseNone, DispatchHandled
<1>5. CASE DispatchForward(c)
  BY <1>5 DEF DispatchForward
<1>6. CASE DispatchUnknown(c)
  BY <1>6 DEF DispatchUnknown, TypeOK
<1>7. CASE LogRecord(c)
  BY <1>7 DEF LogRecord
<1>8. CASE HandlerReturns(c) \/ HandlerPanics(c)
  BY <1>8 DEF HandlerReturns, HandlerPanics, TypeOK
<1>9. CASE ForwardReturns(c)
  BY <1>9 DEF ForwardReturns, TypeOK
<1>10. CASE WriteOk(c)
  BY <1>10 DEF WriteOk, TypeOK
<1>11. CASE WriteFails(c)
  BY <1>11 DEF WriteFails
<1>12. QED
  BY <1>1, <1>2, <1>3, <1>4, <1>5, <1>6, <1>7, <1>8, <1>9, <1>10, <1>11 DEF Task

(* Every step keeps the sum of free permits, live tasks and the permit in  *)
(* the hands of the accept loop.                                           *)
LEMMA PermitStep ==
  ASSUME TypeOK, PermitConservation, [Next]_vars
  PROVE  PermitConservation'
<1> USE DEF PermitConservation
<1>0. /\ IsFiniteSet(LiveConns)
      /\ Cardinality(LiveConns) \in Nat
      /\ permits \in Nat
  BY LiveIsFinite, LimitsAssumption DEF TypeOK
<1>1. CASE AcquirePermit
  <2>1. LiveConns' = LiveConns
    BY <1>1 DEF AcquirePermit, connVars, LiveConns, Live
  <2>2. QED
    BY <1>0, <1>1, <2>1 DEF AcquirePermit
<1>2. ASSUME NEW c \in Conns, AcceptOk(c)
      PROVE  PermitConservation'
  <2>1. LiveConns' = LiveConns \cup {c} /\ c \notin LiveConns
    BY <1>2 DEF AcceptOk, Goto, LiveConns, Live, TypeOK
  <2>2. Cardinality(LiveConns') = Cardinality(LiveConns) + 1
    BY <1>0, <2>1, FS_AddElement
  <2>3. QED
    BY <1>0, <1>2, <2>2 DEF AcceptOk
<1>3. CASE AcceptError
  <2>1. LiveConns' = LiveConns
    BY <1>3 DEF AcceptError, connVars, LiveConns, Live
  <2>2. QED
    BY <1>0, <1>3, <2>1 DEF AcceptError
<1>4. CASE BackoffElapsed
  <2>1. LiveConns' = LiveConns
    BY <1>4 DEF BackoffElapsed, connVars, LiveConns, Live
  <2>2. QED
    BY <1>0, <1>4, <2>1 DEF BackoffElapsed
<1>5. ASSUME NEW c \in Conns, Task(c)
      PROVE  PermitConservation'
  <2>0. c \in LiveConns /\ acceptor' = acceptor
    BY <1>5, TaskShape DEF LiveConns
  <2>1. CASE task' = [task EXCEPT ![c] = "closed"] /\ permits' = permits + 1
    <3>1. LiveConns' = LiveConns \ {c}
      BY <2>1 DEF LiveConns, Live, TypeOK
    <3>2. Cardinality(LiveConns') = Cardinality(LiveConns) - 1
      BY <1>0, <2>0, <3>1, FS_RemoveElement
    <3>3. QED
      BY <1>0, <2>0, <2>1, <3>2
  <2>2. CASE /\ \E pc \in TaskStates \ {"backlog", "closed"} :
                   task' = [task EXCEPT ![c] = pc]
             /\ permits' = permits
    <3>1. LiveConns' = LiveConns
      BY <2>0, <2>2 DEF LiveConns, Live, TypeOK
    <3>2. QED
      BY <2>0, <2>2, <3>1
  <2>3. QED
    BY <1>5, <2>1, <2>2, TaskShape
<1>6. CASE Restart
  <2>1. LiveConns' = {}
    BY <1>6 DEF Restart, LiveConns, Live
  <2>2. QED
    BY <1>6, <2>1, FS_EmptySet, LimitsAssumption DEF Restart
<1>7. CASE UNCHANGED vars
  <2>1. LiveConns' = LiveConns
    BY <1>7 DEF vars, connVars, LiveConns, Live
  <2>2. QED
    BY <1>7, <2>1 DEF vars, listenVars
<1>8. QED
  BY <1>1, <1>2, <1>3, <1>4, <1>5, <1>6, <1>7 DEF Next, Listener


-------------------------------------------------------------------------------
(* Type correctness.                                                       *)

(* Every step keeps the types.  The upper bound of the permits comes from  *)
(* their conservation, and the length of a read keeps rcvd natural.        *)
LEMMA TypeStep ==
  ASSUME IInv, [Next]_vars
  PROVE  TypeOK'
<1> USE DEF TypeOK
<1>0. TypeOK /\ PermitConservation /\ PermitConservation'
  BY PermitStep DEF IInv
<1>1. permits' \in Nat => permits' \in 0 .. MaxConnections
  <2>1. Cardinality(LiveConns') \in Nat
    <3>1. LiveConns' \subseteq Conns
      BY DEF LiveConns
    <3>2. QED
      BY <3>1, ConnsAssumption, FS_Subset, FS_CardinalityType
  <2>2. QED
    BY <1>0, <2>1, LimitsAssumption DEF PermitConservation
<1>2. CASE Listener
  <2>1. permits' \in Nat
    BY <1>0, <1>2, LimitsAssumption
    DEF Listener, AcquirePermit, AcceptOk, AcceptError, BackoffElapsed
  <2>2. QED
    BY <1>0, <1>1, <1>2, <2>1
    DEF Listener, AcquirePermit, AcceptOk, AcceptError, BackoffElapsed,
        Goto, connVars, logVars, TaskStates
<1>3. ASSUME NEW c \in Conns, Task(c)
      PROVE  TypeOK'
  <2>0. permits' \in 0 .. MaxConnections
    BY <1>0, <1>1, <1>3, TaskShape, LimitsAssumption
  <2> USE DEF Exit, Goto, TaskStates, Replies, Kinds, listenVars, logVars
  <2>1. CASE HandshakeOk(c) \/ HandshakeFails(c)
    BY <1>0, <2>0, <2>1 DEF HandshakeOk, HandshakeFails
  <2>2. CASE Read(c)
    <3>1. PICK n \in 1 .. ReadChunk :
            /\ rcvd' = [rcvd EXCEPT ![c] = @ + n]
            /\ IF Buffered(c) + n > Cap
                 THEN Exit(c) /\ capped' = capped \cup {c}
                 ELSE Goto(c, "parsing") /\ UNCHANGED <<permits, capped>>
      BY <2>2 DEF Read
    <3>2. rcvd' \in [Conns -> Nat]
      BY <1>0, <3>1, LimitsAssumption
    <3>3. UNCHANGED <<cfg, acceptor, head, reply, served, logVars, lives>>
      BY <2>2 DEF Read
    <3>4. task' \in [Conns -> TaskStates] /\ capped' \subseteq Conns
      BY <1>0, <3>1
    <3>5. QED
      BY <1>0, <2>0, <3>2, <3>3, <3>4
  <2>3. CASE ReadEnds(c) \/ ReadIdle(c)
    BY <1>0, <2>0, <2>3 DEF ReadEnds, ReadIdle
  <2>4. CASE ParseNone(c) \/ DispatchHandled(c)
    BY <1>0, <2>0, <2>4 DEF ParseNone, DispatchHandled
  <2>5. CASE DispatchForward(c)
    <3>1. HeadFrame(c).code \in Codes
      BY <2>5, ParsedCode DEF DispatchForward
    <3>2. QED
      BY <1>0, <2>0, <2>5, <3>1 DEF DispatchForward
  <2>6. CASE DispatchUnknown(c)
    BY <1>0, <2>0, <2>6 DEF DispatchUnknown
  <2>7. CASE LogRecord(c)
    <3>1. HeadFrame(c).code \in Codes
      <4>1. Parses(c)
        BY <2>7 DEF LogRecord, IInv, Position, Serving
      <4>2. QED
        BY <4>1, ParsedCode
    <3>2. unflushed' \subseteq Codes /\ refused' \subseteq Codes /\ lines' \in [Codes -> Nat]
      BY <1>0, <2>7, <3>1 DEF LogRecord
    <3>3. QED
      BY <1>0, <2>0, <2>7, <3>2 DEF LogRecord
  <2>8. CASE HandlerReturns(c)
    BY <1>0, <2>0, <2>8 DEF HandlerReturns
  <2>8a. CASE HandlerPanics(c)
    BY <1>0, <2>0, <2>8a DEF HandlerPanics
  <2>9. CASE ForwardReturns(c)
    BY <1>0, <2>0, <2>9 DEF ForwardReturns
  <2>10. CASE WriteOk(c)
    <3>1. reply[c] \in Replies
      <4>1. reply[c] # NoReply
        BY <2>10 DEF WriteOk, IInv, Served, NoReply, TypeOK
      <4>2. QED
        BY <1>0, <4>1
    <3>2. QED
      BY <1>0, <2>0, <2>10, <3>1 DEF WriteOk
  <2>11. CASE WriteFails(c)
    BY <1>0, <2>0, <2>11 DEF WriteFails
  <2>12. QED
    BY <1>3, <2>1, <2>2, <2>3, <2>4, <2>5, <2>6, <2>7, <2>8, <2>8a,
       <2>9, <2>10, <2>11 DEF Task
<1>4. CASE Restart
  BY <1>0, <1>4, LimitsAssumption DEF Restart, TaskStates
<1>5. CASE UNCHANGED vars
  BY <1>0, <1>5 DEF vars, listenVars, connVars, logVars
<1>6. QED
  BY <1>2, <1>3, <1>4, <1>5 DEF Next


-------------------------------------------------------------------------------
(* The buffer.                                                             *)

(* A step that leaves a connection alone leaves its position alone.        *)
LEMMA PositionFrame ==
  ASSUME NEW d \in Conns, Position(d),
         task'[d] = task[d], rcvd'[d] = rcvd[d], head'[d] = head[d]
  PROVE  Position(d)'
BY DEF Position, Parses, HeadFrame, Buffered, Live

(* A task that ends, or is killed, keeps its position.                     *)
LEMMA PositionOfClosed ==
  ASSUME NEW d \in Conns, Position(d),
         task'[d] = "closed", rcvd'[d] = rcvd[d], head'[d] = head[d]
  PROVE  Position(d)'
BY DEF Position, Live, Serving

(* A read on a buffer without a complete frame: if the pending frame is    *)
(* well-formed, the bytes buffered afterwards are within the cap.          *)
LEMMA ReadWithinCap ==
  ASSUME TypeOK, NEW c \in Conns, Position(c), task[c] = "reading",
         NEW n \in 1 .. ReadChunk, rcvd[c] + n <= Total(c)
  PROVE  /\ head[c] \in DOMAIN Stream[c]
         /\ HeadFrame(c).ok => Buffered(c) + n <= Cap
<1>1. /\ Len(Stream[c]) \in Nat
      /\ DOMAIN Stream[c] = 1 .. Len(Stream[c])
      /\ head[c] \in 1 .. Len(Stream[c]) + 1
      /\ rcvd[c] \in Nat
      /\ n \in Nat \ {0}
  BY StreamAssumption, LimitsAssumption DEF TypeOK, Position
<1>2. Start(c, head[c]) <= rcvd[c] /\ Start(c, head[c]) \in Nat
  BY <1>1, StartFacts DEF Position
<1>3. head[c] \in 1 .. Len(Stream[c])
  <2>1. CASE head[c] = Len(Stream[c]) + 1
    <3>1. Total(c) \in Nat /\ Total(c) <= rcvd[c]
      BY <1>2, <2>1 DEF Total
    <3>2. QED
      BY <1>1, <3>1
  <2>2. QED
    BY <1>1, <2>1
<1>4. ASSUME HeadFrame(c).ok
      PROVE  Buffered(c) + n <= Cap
  <2>1. ~(HeadFrame(c).end <= rcvd[c])
    BY <1>1, <1>3, <1>4 DEF Position, Parses
  <2>2. /\ HeadFrame(c).end \in Nat
        /\ HeadFrame(c).end - Start(c, head[c]) <= MaxFrame
    BY <1>3, <1>4, FrameFacts DEF HeadFrame, Frame
  <2>3. Buffered(c) <= MaxFrame - 1
    BY <1>1, <1>2, <2>1, <2>2, StreamAssumption DEF Buffered
  <2>4. QED
    BY <1>1, <1>2, <2>3, HeadroomAssumption, LimitsAssumption, StreamAssumption
    DEF Buffered
<1>5. QED
  BY <1>1, <1>3, <1>4

(* Every step keeps each task where its buffer says it is: a read leaves   *)
(* at most the cap, a drain stops at the start of the next frame, and an   *)
(* await returns to the frame that it left.                                *)
LEMMA PositionStep ==
  ASSUME IInv, [Next]_vars, NEW d \in Conns
  PROVE  Position(d)'
<1>0. TypeOK /\ Position(d)
  BY DEF IInv
<1>1. CASE AcquirePermit \/ AcceptError \/ BackoffElapsed \/ UNCHANGED vars
  BY <1>0, <1>1, PositionFrame
  DEF AcquirePermit, AcceptError, BackoffElapsed, vars, connVars
<1>2. ASSUME NEW c \in Conns, AcceptOk(c)
      PROVE  Position(d)'
  <2>1. CASE d # c
    BY <1>0, <1>2, <2>1, PositionFrame DEF AcceptOk, Goto, TypeOK
  <2>2. CASE d = c
    <3>1. /\ rcvd'[c] = 0 /\ head'[c] = 1
          /\ task'[c] \in {"handshake", "reading"}
          /\ head[c] = 1 /\ rcvd[c] = 0
      BY <1>0, <1>2, <2>2 DEF AcceptOk, Goto, TypeOK, Position
    <3>2. ~Parses(c)'
      BY <3>1, FirstFrame DEF Parses, HeadFrame
    <3>3. Buffered(c)' = 0 /\ Start(c, head[c]) = 0
      BY <3>1 DEF Buffered, Start
    <3>4. QED
      BY <1>0, <2>2, <3>1, <3>2, <3>3, LimitsAssumption
      DEF Position, Serving, Live, Buffered
  <2>3. QED
    BY <2>1, <2>2
<1>3. ASSUME NEW c \in Conns, Task(c)
      PROVE  Position(d)'
  <2>1. CASE d # c
    BY <1>0, <1>3, <2>1, TaskShape, PositionFrame DEF TypeOK
  <2>2. CASE d = c
    <3>1. Position(c)
      BY <1>0, <2>2
    <3>2. CASE Read(c)
      <4>1. PICK n \in 1 .. ReadChunk :
              /\ rcvd[c] + n <= Total(c)
              /\ rcvd' = [rcvd EXCEPT ![c] = @ + n]
              /\ IF Buffered(c) + n > Cap
                   THEN Exit(c) /\ capped' = capped \cup {c}
                   ELSE Goto(c, "parsing") /\ UNCHANGED <<permits, capped>>
        BY <3>2 DEF Read
      <4>2. /\ head' = head /\ rcvd'[c] = rcvd[c] + n /\ n \in Nat
            /\ rcvd[c] \in Nat /\ head[c] \in 1 .. Len(Stream[c]) + 1
        BY <1>0, <3>1, <3>2, <4>1, StreamAssumption, LimitsAssumption
        DEF Read, TypeOK, Position
      <4>3. Start(c, head[c]) \in Nat
        BY <4>2, StartFacts
      <4>4. Buffered(c)' = Buffered(c) + n
        BY <4>2, <4>3 DEF Buffered
      <4>5. task'[c] = "closed" \/ (task'[c] = "parsing" /\ ~(Buffered(c) + n > Cap))
        BY <1>0, <4>1 DEF Exit, Goto, TypeOK
      <4>6. Start(c, head[c]) <= rcvd'[c] /\ rcvd'[c] <= Total(c)
        BY <3>1, <4>1, <4>2, <4>3 DEF Position
      <4>7. Live(c)' => Buffered(c)' <= Cap
        BY <4>2, <4>3, <4>4, <4>5, LimitsAssumption DEF Live, Buffered
      <4>8. QED
        BY <2>2, <3>1, <4>2, <4>5, <4>6, <4>7 DEF Position, Serving
    <3>3. CASE HandshakeOk(c)
      <4>1. /\ rcvd'[c] = 0 /\ head'[c] = 1 /\ task'[c] = "reading"
            /\ rcvd[c] = 0 /\ head[c] = 1
        BY <1>0, <3>1, <3>3 DEF HandshakeOk, Goto, TypeOK, Position
      <4>2. ~Parses(c)'
        BY <4>1, FirstFrame DEF Parses, HeadFrame
      <4>3. Buffered(c)' = 0 /\ Start(c, head[c]) = 0
        BY <4>1 DEF Buffered, Start
      <4>4. QED
        BY <2>2, <3>1, <4>1, <4>2, <4>3, LimitsAssumption
        DEF Position, Serving, Live, Buffered
    <3>4. CASE HandshakeFails(c) \/ ReadEnds(c) \/ ReadIdle(c)
               \/ HandlerPanics(c) \/ WriteFails(c)
      BY <1>0, <2>2, <3>1, <3>4, PositionOfClosed
      DEF HandshakeFails, ReadEnds, ReadIdle, HandlerPanics, WriteFails,
          Exit, Goto, TypeOK
    <3>5. CASE ParseNone(c)
      <4>1. /\ rcvd' = rcvd /\ head' = head /\ task'[c] = "reading"
            /\ task[c] = "parsing" /\ ~Parses(c)
        BY <1>0, <3>5 DEF ParseNone, Goto, TypeOK
      <4>2. QED
        BY <2>2, <3>1, <4>1
        DEF Position, Serving, Live, Buffered, Parses, HeadFrame
    <3>6. CASE DispatchHandled(c) \/ DispatchForward(c) \/ DispatchUnknown(c)
               \/ LogRecord(c) \/ HandlerReturns(c) \/ ForwardReturns(c)
      <4>1. /\ rcvd' = rcvd /\ head' = head /\ task'[c] \in Serving
            /\ task[c] \in Serving \cup {"parsing"} /\ Parses(c)
        BY <1>0, <3>1, <3>6
        DEF DispatchHandled, DispatchForward, DispatchUnknown, LogRecord,
            HandlerReturns, ForwardReturns, Goto, TypeOK, Position, Serving
      <4>2. QED
        BY <2>2, <3>1, <4>1
        DEF Position, Serving, Live, Buffered, Parses, HeadFrame
    <3>7. CASE WriteOk(c)
      <4>1. /\ rcvd' = rcvd /\ head'[c] = head[c] + 1 /\ task'[c] = "parsing"
            /\ task[c] = "writing" /\ Parses(c) /\ rcvd[c] \in Nat
        BY <1>0, <3>1, <3>7 DEF WriteOk, Goto, TypeOK, Position, Serving
      <4>2. head[c] \in 1 .. Len(Stream[c]) /\ Len(Stream[c]) \in Nat
        BY <4>1, StreamAssumption DEF Parses
      <4>3. /\ Start(c, head[c] + 1) = HeadFrame(c).end
            /\ HeadFrame(c).end \in Nat
            /\ Start(c, head[c]) \in Nat
            /\ Start(c, head[c]) < HeadFrame(c).end
            /\ HeadFrame(c).end <= rcvd[c]
        BY <4>1, <4>2, FrameFacts DEF HeadFrame, Frame, Parses
      <4>4. Buffered(c) <= Cap
        BY <3>1, <4>1 DEF Position, Live
      <4>5. Buffered(c)' <= Cap
        BY <4>1, <4>3, <4>4, LimitsAssumption DEF Buffered
      <4>6. QED
        BY <2>2, <3>1, <4>1, <4>2, <4>3, <4>5 DEF Position, Serving
    <3>8. QED
      BY <1>3, <3>2, <3>3, <3>4, <3>5, <3>6, <3>7 DEF Task
  <2>3. QED
    BY <2>1, <2>2
<1>4. CASE Restart
  <2>1. rcvd' = rcvd /\ head' = head
        /\ task'[d] = IF Live(d) THEN "closed" ELSE task[d]
    BY <1>4 DEF Restart
  <2>2. QED
    BY <1>0, <2>1, PositionFrame, PositionOfClosed
<1>5. QED
  BY <1>1, <1>2, <1>3, <1>4 DEF Next, Listener


-------------------------------------------------------------------------------
(* What became of the frames.                                              *)

(* A step that leaves what a connection was served, and does not bring it  *)
(* to a state in which it serves a frame, keeps Served.                    *)
LEMMA ServedFrame ==
  ASSUME NEW d \in Conns, Served(d), cfg' = cfg,
         head'[d] = head[d], served'[d] = served[d],
         \/ task'[d] = task[d] /\ reply'[d] = reply[d]
         \/ task'[d] \notin Serving
  PROVE  Served(d)'
BY DEF Served, HeadFrame, WellFormedUpTo, Host!Outcomes, Serving

(* Every step keeps the outcomes in step with the frames: a frame is       *)
(* drained exactly when its response is out, by the routing of its code.   *)
LEMMA ServedStep ==
  ASSUME IInv, [Next]_vars, NEW d \in Conns
  PROVE  Served(d)'
<1>0. TypeOK /\ Position(d) /\ Served(d)
  BY DEF IInv
<1>1. CASE AcquirePermit \/ AcceptError \/ BackoffElapsed \/ UNCHANGED vars
  BY <1>0, <1>1, ServedFrame
  DEF AcquirePermit, AcceptError, BackoffElapsed, vars, connVars
<1>2. ASSUME NEW c \in Conns, AcceptOk(c)
      PROVE  Served(d)'
  BY <1>0, <1>2, ServedFrame DEF AcceptOk, Goto, TypeOK, Serving
<1>3. ASSUME NEW c \in Conns, Task(c)
      PROVE  Served(d)'
  <2>1. CASE d # c
    BY <1>0, <1>3, <2>1, TaskShape, ServedFrame DEF TypeOK
  <2>2. CASE d = c
    <3>0. cfg' = cfg
      BY <1>0, <1>3, TaskShape
    <3>1. CASE HandshakeOk(c) \/ HandshakeFails(c) \/ ReadEnds(c) \/ ReadIdle(c)
               \/ ParseNone(c) \/ HandlerPanics(c) \/ WriteFails(c)
      BY <1>0, <2>2, <3>0, <3>1, ServedFrame
      DEF HandshakeOk, HandshakeFails, ReadEnds, ReadIdle, ParseNone,
          HandlerPanics, WriteFails, Exit, Goto, TypeOK, Serving
    <3>2. CASE Read(c)
      <4>1. head' = head /\ served' = served /\ task'[c] \in {"closed", "parsing"}
        BY <1>0, <3>2 DEF Read, Exit, Goto, TypeOK
      <4>2. QED
        BY <1>0, <2>2, <3>0, <4>1, ServedFrame DEF Serving
    <3>3. CASE DispatchHandled(c) \/ DispatchForward(c) \/ LogRecord(c)
      BY <1>0, <2>2, <3>0, <3>3
      DEF DispatchHandled, DispatchForward, LogRecord, Goto, TypeOK,
          Served, HeadFrame, WellFormedUpTo
    <3>4. CASE DispatchUnknown(c) \/ HandlerReturns(c) \/ ForwardReturns(c)
      <4>1. /\ head' = head /\ served' = served /\ task'[c] = "writing"
            /\ reply'[c].frame = head[c]
            /\ reply'[c].kind \in Host!Outcomes(cfg.discover, HeadFrame(c).code)
        BY <1>0, <2>2, <3>4
        DEF DispatchUnknown, HandlerReturns, ForwardReturns, Goto, TypeOK,
            Served, Host!Outcomes
      <4>2. QED
        BY <1>0, <2>2, <3>0, <4>1 DEF Served, HeadFrame, WellFormedUpTo
    <3>5. CASE WriteOk(c)
      <4>1. /\ head'[c] = head[c] + 1 /\ task'[c] = "parsing"
            /\ served'[c] = Append(served[c], reply[c])
            /\ served[c] \in Seq(Replies) /\ Parses(c)
            /\ head[c] \in Nat \ {0}
        BY <1>0, <2>2, <3>5 DEF WriteOk, Goto, TypeOK, Position, Serving
      <4>2. Len(served'[c]) = Len(served[c]) + 1 /\ Len(served[c]) \in Nat
        BY <4>1
      <4>3. WellFormedUpTo(c, head[c])
        BY <1>0, <2>2, <4>1 DEF Served, WellFormedUpTo, Parses, HeadFrame
      <4>4. QED
        BY <1>0, <2>2, <4>1, <4>2, <4>3 DEF Served, WellFormedUpTo
    <3>6. QED
      BY <1>3, <3>1, <3>2, <3>3, <3>4, <3>5 DEF Task
  <2>3. QED
    BY <2>1, <2>2
<1>4. CASE Restart
  BY <1>0, <1>4, ServedFrame DEF Restart, Serving
<1>5. QED
  BY <1>1, <1>2, <1>3, <1>4 DEF Next, Listener

-------------------------------------------------------------------------------
(* The accumulation cap.                                                   *)

(* A connection that the cap closes is at a malformed frame, and stays     *)
(* there.                                                                  *)
LEMMA CappedStep ==
  ASSUME IInv, [Next]_vars, NEW d \in capped'
  PROVE  Capped(d)'
<1>0. TypeOK /\ capped \subseteq Conns /\ \A c \in capped : Capped(c)
  BY DEF IInv, TypeOK
<1>1. CASE Listener \/ Restart \/ UNCHANGED vars
  BY <1>0, <1>1
  DEF Listener, AcquirePermit, AcceptOk, AcceptError, BackoffElapsed, Restart,
      Goto, Capped, HeadFrame, Live, vars, connVars, TypeOK
<1>2. ASSUME NEW c \in Conns, Task(c)
      PROVE  Capped(d)'
  <2>1. c \notin capped
    BY <1>0, <1>2, TaskShape DEF Capped, Live
  <2>2. ASSUME d \in capped
        PROVE  Capped(d)'
    <3>1. d # c /\ d \in Conns /\ Capped(d)
      BY <1>0, <2>1, <2>2
    <3>2. task'[d] = task[d] /\ head'[d] = head[d]
      BY <1>0, <1>2, <3>1, TaskShape DEF TypeOK
    <3>3. QED
      BY <3>1, <3>2 DEF Capped, HeadFrame
  <2>3. CASE Read(c)
    <3>1. PICK n \in 1 .. ReadChunk :
            /\ rcvd[c] + n <= Total(c)
            /\ IF Buffered(c) + n > Cap
                 THEN Exit(c) /\ capped' = capped \cup {c}
                 ELSE Goto(c, "parsing") /\ UNCHANGED <<permits, capped>>
      BY <2>3 DEF Read
    <3>2. ASSUME d \notin capped
          PROVE  Capped(d)'
      <4>1. d = c /\ Buffered(c) + n > Cap /\ Exit(c)
        BY <3>1, <3>2
      <4>2. task[c] = "reading" /\ head' = head /\ Position(c)
        BY <2>3 DEF Read, IInv
      <4>3. head[c] \in DOMAIN Stream[c] /\ (HeadFrame(c).ok => Buffered(c) + n <= Cap)
        BY <1>0, <3>1, <4>2, ReadWithinCap
      <4>4. Buffered(c) + n \in Int /\ Cap \in Int
        <5>1. head[c] \in 1 .. Len(Stream[c]) + 1
          BY <1>0, <4>2, StreamAssumption DEF TypeOK, Position
        <5>2. Start(c, head[c]) \in Nat
          BY <5>1, StartFacts
        <5>3. QED
          BY <1>0, <5>2, LimitsAssumption DEF Buffered, TypeOK
      <4>5. ~HeadFrame(c).ok
        BY <4>1, <4>3, <4>4
      <4>6. QED
        BY <1>0, <4>1, <4>2, <4>3, <4>5 DEF Capped, HeadFrame, Exit, Goto, TypeOK
    <3>3. QED
      BY <2>2, <3>2
  <2>4. CASE capped' = capped
    BY <2>2, <2>4
  <2>5. QED
    BY <1>2, <2>3, <2>4
    DEF Task, HandshakeOk, HandshakeFails, ReadEnds, ReadIdle, ParseNone,
        DispatchHandled, DispatchForward, DispatchUnknown, LogRecord,
        HandlerReturns, HandlerPanics, ForwardReturns, WriteOk, WriteFails
<1>3. QED
  BY <1>1, <1>2 DEF Next


-------------------------------------------------------------------------------
(* The discovery log.                                                      *)

(* A task between the two locks has a code in hand.                        *)
LEMMA InHandCode ==
  ASSUME IInv, NEW c \in Conns, LogRecord(c)
  PROVE  HeadFrame(c).code \in Codes
<1>1. Parses(c)
  BY DEF LogRecord, IInv, Position, Serving
<1>2. QED
  BY <1>1, ParsedCode

(* What writeln and flush do to the records: a record that was waiting or  *)
(* in hand goes out once, waits, or, if it is the one in hand and the      *)
(* BufWriter is full, is refused; no other record is touched.              *)
LEMMA LogRecordFacts ==
  ASSUME TypeOK, NEW c \in Conns, LogRecord(c), NEW q \in Codes,
         HeadFrame(c).code \notin unflushed
  PROVE  /\ \/ /\ lines'[q] = lines[q] + 1
               /\ q \notin unflushed'
               /\ q \in unflushed \cup {HeadFrame(c).code}
            \/ /\ lines'[q] = lines[q]
               /\ q \in unflushed' => q \in unflushed \cup {HeadFrame(c).code}
         /\ q \in unflushed => lines'[q] = lines[q] + 1 \/ q \in unflushed'
         /\ q = HeadFrame(c).code =>
              lines'[q] = lines[q] + 1 \/ q \in unflushed' \/ q \in refused'
         /\ unflushed' \subseteq unflushed \cup {HeadFrame(c).code}
         /\ refused \subseteq refused'
         /\ refused' # refused => Cardinality(unflushed) >= LogRoom
<1> DEFINE code == HeadFrame(c).code
           full == Cardinality(unflushed) >= LogRoom
           taken(early) == ~full \/ early = unflushed
           held(early) == (unflushed \ early) \cup (IF taken(early) THEN {code} ELSE {})
<1>1. PICK early \in SUBSET unflushed :
        /\ ~full => early = {}
        /\ refused' = IF taken(early) THEN refused ELSE refused \cup {code}
        /\ \E out \in SUBSET held(early) :
             /\ unflushed' = held(early) \ out
             /\ lines' = [p \in Codes |->
                            IF p \in early \cup out THEN lines[p] + 1 ELSE lines[p]]
  BY DEF LogRecord
<1>2. PICK out \in SUBSET held(early) :
        /\ unflushed' = held(early) \ out
        /\ lines' = [p \in Codes |->
                       IF p \in early \cup out THEN lines[p] + 1 ELSE lines[p]]
  BY <1>1
<1>3. early \cap held(early) = {}
  OBVIOUS
<1>4. held(early) \subseteq unflushed \cup {code}
  OBVIOUS
<1>5. CASE q \in early \cup out
  BY <1>1, <1>2, <1>3, <1>4, <1>5
<1>6. CASE q \notin early \cup out
  BY <1>1, <1>2, <1>3, <1>4, <1>6
<1>7. QED
  BY <1>5, <1>6

(* Steps that leave the log alone and bring no task between the two locks  *)
(* of record keep what is known of a code.                                 *)
LEMMA LogFrame ==
  ASSUME NEW q \in Codes, LogOf(q), UNCHANGED <<logVars, lives>>,
         \A c \in Conns : InHand(c, q)' = InHand(c, q)
  PROVE  LogOf(q)'
BY DEF LogOf, logVars

(* Every step keeps what is known of each command code in the log: the     *)
(* insertion into `seen` under its lock makes one task the only writer.    *)
LEMMA LogStep ==
  ASSUME IInv, [Next]_vars, NEW q \in Codes
  PROVE  LogOf(q)'
<1>0. TypeOK /\ LogOf(q)
  BY DEF IInv
<1> USE DEF InHand, HeadFrame
<1>1. CASE Listener \/ UNCHANGED vars
  BY <1>0, <1>1, LogFrame
  DEF Listener, AcquirePermit, AcceptOk, AcceptError, BackoffElapsed, Goto,
      TypeOK, vars, connVars
<1>2. ASSUME NEW c \in Conns, Task(c)
      PROVE  LogOf(q)'
  <2>0. lives' = lives /\ \A d \in Conns \ {c} : InHand(d, q)' = InHand(d, q)
    BY <1>0, <1>2, TaskShape DEF TypeOK
  <2>1. CASE DispatchForward(c) /\ seen' = seen
    <3>1. task' = [task EXCEPT ![c] = "forwarding"] /\ task[c] = "parsing"
      BY <1>0, <2>1 DEF DispatchForward, Goto
    <3>2. \A d \in Conns : InHand(d, q)' = InHand(d, q)
      BY <1>0, <2>0, <3>1 DEF TypeOK
    <3>3. QED
      BY <1>0, <2>0, <2>1, <3>2, LogFrame DEF DispatchForward, logVars
  <2>2. CASE DispatchForward(c) /\ seen' # seen
    <3>1. /\ HeadFrame(c).code \notin seen
          /\ seen' = seen \cup {HeadFrame(c).code}
          /\ head' = head /\ unflushed' = unflushed /\ lines' = lines
          /\ task[c] = "parsing"
      BY <2>2 DEF DispatchForward
    <3>2. CASE q = HeadFrame(c).code
      <4>1. /\ q \notin seen /\ q \in seen' /\ q \notin unflushed'
            /\ lines'[q] < lives'
        BY <1>0, <2>0, <3>1, <3>2 DEF LogOf
      <4>2. \A d \in Conns : ~InHand(d, q)
        BY <1>0, <4>1 DEF LogOf
      <4>3. \A d \in Conns : InHand(d, q)' => d = c
        BY <2>0, <4>2
      <4>4. lines'[q] \in Nat /\ lives' \in Nat
        BY <1>0, <2>0, <3>1, LimitsAssumption DEF TypeOK
      <4>5. QED
        BY <4>1, <4>3, <4>4 DEF LogOf
    <3>3. CASE q # HeadFrame(c).code
      <4>1. \A d \in Conns : InHand(d, q)' = InHand(d, q)
        BY <2>0, <3>1, <3>3
      <4>2. (q \in seen') = (q \in seen)
        BY <3>1, <3>3
      <4>3. QED
        BY <1>0, <2>0, <3>1, <4>1, <4>2 DEF LogOf
    <3>4. QED
      BY <3>2, <3>3
  <2>3. CASE LogRecord(c)
    <3>1. /\ task[c] = "logging" /\ task'[c] = "forwarding"
          /\ seen' = seen /\ head' = head
      BY <1>0, <2>3 DEF LogRecord, Goto, TypeOK
    <3>2. lines[q] \in Nat /\ lives \in Nat
      BY <1>0, LimitsAssumption DEF TypeOK
    <3>3. CASE q = HeadFrame(c).code
      <4>1. q \in seen /\ q \notin unflushed /\ lines[q] < lives
        BY <1>0, <3>1, <3>3 DEF LogOf
      <4>2. \A d \in Conns : ~InHand(d, q)'
        BY <1>0, <2>0, <3>1, <3>3 DEF LogOf
      <4>3. \/ lines'[q] = lines[q] + 1 /\ q \notin unflushed'
            \/ lines'[q] = lines[q]
        BY <1>0, <2>3, <3>3, <4>1, LogRecordFacts
      <4>4. QED
        BY <2>0, <3>1, <3>2, <4>1, <4>2, <4>3 DEF LogOf
    <3>4. CASE q # HeadFrame(c).code
      <4>1. \A d \in Conns : InHand(d, q)' = InHand(d, q)
        BY <2>0, <3>1, <3>4
      <4>0. HeadFrame(c).code \notin unflushed
        <5>1. HeadFrame(c).code \in Codes
          BY <2>3, InHandCode
        <5>2. LogOf(HeadFrame(c).code)
          BY <5>1 DEF IInv
        <5>3. QED
          BY <3>1, <5>2 DEF LogOf
      <4>2. \/ /\ q \in unflushed /\ q \notin unflushed'
               /\ lines'[q] = lines[q] + 1
            \/ /\ q \in unflushed' => q \in unflushed
               /\ lines'[q] = lines[q]
        BY <1>0, <2>3, <3>4, <4>0, LogRecordFacts
      <4>3. QED
        BY <1>0, <2>0, <3>1, <3>2, <4>1, <4>2 DEF LogOf
    <3>5. QED
      BY <3>3, <3>4
  <2>4. CASE logVars' = logVars /\ task[c] # "logging" /\ task'[c] # "logging"
    <3>1. \A d \in Conns : InHand(d, q)' = InHand(d, q)
      BY <2>0, <2>4
    <3>2. QED
      BY <1>0, <2>0, <2>4, <3>1, LogFrame
  <2>5. DispatchForward(c) \/ LogRecord(c)
        \/ (logVars' = logVars /\ task[c] # "logging" /\ task'[c] # "logging")
    BY <1>0, <1>2
    DEF Task, HandshakeOk, HandshakeFails, Read, ReadEnds, ReadIdle, ParseNone,
        DispatchHandled, DispatchUnknown, HandlerReturns, HandlerPanics,
        ForwardReturns, WriteOk, WriteFails, Exit, Goto, TypeOK
  <2>6. QED
    BY <2>1, <2>2, <2>3, <2>4, <2>5
<1>3. CASE Restart
  <2>1. /\ lives' = lives + 1 /\ lines' = lines /\ seen' = {} /\ unflushed' = {}
        /\ \A c \in Conns : task'[c] # "logging"
    BY <1>3 DEF Restart, Live
  <2>2. lines[q] \in Nat /\ lives \in Nat /\ lines[q] <= lives
    BY <1>0, LimitsAssumption DEF TypeOK, LogOf
  <2>3. QED
    BY <2>1, <2>2 DEF LogOf
<1>4. QED
  BY <1>1, <1>2, <1>3 DEF Next

(* Every step keeps the set of claimed codes finite and the BufWriter      *)
(* within it.                                                              *)
LEMMA BookStep ==
  ASSUME IInv, [Next]_vars
  PROVE  LogBook'
<1>0. TypeOK /\ LogBook
  BY DEF IInv
<1> USE DEF LogBook
<1>1. CASE Listener \/ UNCHANGED vars
  BY <1>0, <1>1
  DEF Listener, AcquirePermit, AcceptOk, AcceptError, BackoffElapsed, vars, logVars
<1>2. ASSUME NEW c \in Conns, Task(c)
      PROVE  LogBook'
  <2>1. CASE DispatchForward(c)
    <3>1. unflushed' = unflushed /\ (seen' = seen \/ seen' = seen \cup {HeadFrame(c).code})
      BY <2>1 DEF DispatchForward
    <3>2. QED
      BY <1>0, <3>1, FS_AddElement
  <2>2. CASE LogRecord(c)
    <3>1. LogOf(HeadFrame(c).code) /\ HeadFrame(c).code \in Codes
      BY <2>2, InHandCode DEF IInv
    <3>2. HeadFrame(c).code \in seen /\ HeadFrame(c).code \notin unflushed
      BY <2>2, <3>1 DEF LogOf, InHand, LogRecord
    <3>3. seen' = seen /\ unflushed' \subseteq unflushed \cup {HeadFrame(c).code}
      BY <1>0, <2>2, <3>1, <3>2, LogRecordFacts DEF LogRecord
    <3>4. QED
      BY <1>0, <3>2, <3>3
  <2>3. CASE logVars' = logVars
    BY <1>0, <2>3 DEF logVars
  <2>4. DispatchForward(c) \/ LogRecord(c) \/ logVars' = logVars
    BY <1>2
    DEF Task, HandshakeOk, HandshakeFails, Read, ReadEnds, ReadIdle, ParseNone,
        DispatchHandled, DispatchUnknown, HandlerReturns, HandlerPanics,
        ForwardReturns, WriteOk, WriteFails
  <2>5. QED
    BY <2>1, <2>2, <2>3, <2>4
<1>3. CASE Restart
  BY <1>3, FS_EmptySet DEF Restart
<1>4. QED
  BY <1>1, <1>2, <1>3 DEF Next

(* No step of a running process loses the record of a claimed code, unless *)
(* the BufWriter is full of the records of other claimed codes.            *)
LEMMA SeenStep ==
  ASSUME IInv, [Next]_vars
  PROVE  SeenIsNotLost'
<1>0. TypeOK /\ SeenIsNotLost /\ LogBook
  BY DEF IInv
<1>1. CASE Listener \/ UNCHANGED vars
  <2>1. /\ UNCHANGED <<head, seen, unflushed, refused, lines>>
        /\ \A d \in Conns : task[d] = "logging" => task'[d] = "logging"
    BY <1>0, <1>1
    DEF Listener, AcquirePermit, AcceptOk, AcceptError, BackoffElapsed, Goto,
        TypeOK, vars, connVars, logVars
  <2>2. QED
    BY <1>0, <2>1 DEF SeenIsNotLost, HeadFrame
<1>2. ASSUME NEW c \in Conns, Task(c)
      PROVE  SeenIsNotLost'
  <2>0. \A d \in Conns \ {c} : task'[d] = task[d] /\ head'[d] = head[d]
    BY <1>0, <1>2, TaskShape DEF TypeOK
  <2>1. CASE DispatchForward(c)
    <3>1. /\ head' = head /\ unflushed' = unflushed /\ lines' = lines
          /\ refused' = refused /\ task[c] = "parsing"
          /\ \/ seen' = seen
             \/ /\ seen' = seen \cup {HeadFrame(c).code}
                /\ task'[c] = "logging"
      BY <1>0, <2>1 DEF DispatchForward, Goto, TypeOK
    <3>2. refused' # {} => Cardinality(seen') > LogRoom
      <4>1. IsFiniteSet(seen') /\ seen \subseteq seen'
        BY <1>0, <3>1, FS_AddElement DEF LogBook
      <4>2. Cardinality(seen) <= Cardinality(seen')
            /\ Cardinality(seen) \in Nat /\ Cardinality(seen') \in Nat
        BY <1>0, <4>1, FS_Subset, FS_CardinalityType DEF LogBook
      <4>3. QED
        BY <1>0, <3>1, <4>2, LimitsAssumption DEF SeenIsNotLost
    <3>3. QED
      BY <1>0, <2>0, <3>1, <3>2 DEF SeenIsNotLost, HeadFrame
  <2>2. CASE LogRecord(c)
    <3>1. seen' = seen /\ head' = head
      BY <2>2 DEF LogRecord
    <3>2. /\ HeadFrame(c).code \in Codes
          /\ HeadFrame(c).code \in seen
          /\ HeadFrame(c).code \notin unflushed
      <4>1. LogOf(HeadFrame(c).code) /\ HeadFrame(c).code \in Codes
        BY <2>2, InHandCode DEF IInv
      <4>2. QED
        BY <2>2, <4>1 DEF LogOf, InHand, LogRecord
    <3>3. ASSUME NEW q \in seen, q \notin refused'
          PROVE  \/ lines'[q] > 0
                 \/ q \in unflushed'
                 \/ \E d \in Conns : task'[d] = "logging" /\ Stream[d][head'[d]].code = q
      <4>1. lines[q] \in Nat /\ q \in Codes
        BY <1>0 DEF TypeOK
      <4>2. q \notin refused
        BY <1>0, <2>2, <3>2, <3>3, <4>1, LogRecordFacts
      <4>3. \/ lines'[q] = lines[q] + 1
            \/ lines'[q] = lines[q]
        BY <1>0, <2>2, <3>2, <4>1, LogRecordFacts
      <4>4. q \in unflushed \/ q = HeadFrame(c).code =>
              lines'[q] = lines[q] + 1 \/ q \in unflushed'
        BY <1>0, <2>2, <3>2, <3>3, <4>1, LogRecordFacts
      <4>5. CASE lines[q] > 0
        BY <4>1, <4>3, <4>5
      <4>6. CASE q \in unflushed \/ q = HeadFrame(c).code
        BY <4>1, <4>4, <4>6
      <4>7. CASE \E d \in Conns \ {c} : task[d] = "logging" /\ HeadFrame(d).code = q
        BY <2>0, <4>7 DEF HeadFrame
      <4>8. QED
        BY <1>0, <4>2, <4>5, <4>6, <4>7 DEF SeenIsNotLost
    <3>4. refused' # {} => Cardinality(seen) > LogRoom
      <4>1. CASE refused' = refused
        BY <1>0, <4>1 DEF SeenIsNotLost
      <4>2. CASE refused' # refused
        <5>1. Cardinality(unflushed) >= LogRoom
          BY <1>0, <2>2, <3>2, <4>2, LogRecordFacts
        <5>2. IsFiniteSet(unflushed) /\ unflushed \cup {HeadFrame(c).code} \subseteq seen
          BY <1>0, <3>2, FS_Subset DEF LogBook
        <5>3. /\ IsFiniteSet(unflushed \cup {HeadFrame(c).code})
              /\ Cardinality(unflushed \cup {HeadFrame(c).code})
                   = Cardinality(unflushed) + 1
          BY <3>2, <5>2, FS_AddElement
        <5>4. Cardinality(unflushed \cup {HeadFrame(c).code}) <= Cardinality(seen)
          BY <1>0, <5>2, FS_Subset DEF LogBook
        <5>5. Cardinality(unflushed) \in Nat /\ Cardinality(seen) \in Nat
          BY <1>0, <5>2, FS_CardinalityType DEF LogBook
        <5>6. QED
          BY <5>1, <5>3, <5>4, <5>5, LimitsAssumption
      <4>3. QED
        BY <4>1, <4>2
    <3>5. QED
      BY <3>1, <3>3, <3>4 DEF SeenIsNotLost, HeadFrame
  <2>3. CASE logVars' = logVars /\ task[c] # "logging" /\ task'[c] # "logging"
    BY <1>0, <2>0, <2>3 DEF SeenIsNotLost, HeadFrame, logVars
  <2>4. DispatchForward(c) \/ LogRecord(c)
        \/ (logVars' = logVars /\ task[c] # "logging" /\ task'[c] # "logging")
    BY <1>0, <1>2
    DEF Task, HandshakeOk, HandshakeFails, Read, ReadEnds, ReadIdle, ParseNone,
        DispatchHandled, DispatchUnknown, HandlerReturns, HandlerPanics,
        ForwardReturns, WriteOk, WriteFails, Exit, Goto, TypeOK
  <2>5. QED
    BY <2>1, <2>2, <2>3, <2>4
<1>3. CASE Restart
  BY <1>3 DEF Restart, SeenIsNotLost
<1>4. QED
  BY <1>1, <1>2, <1>3 DEF Next

-------------------------------------------------------------------------------
(* The theorems.                                                           *)

(* The inductive invariant holds in every reachable state of the server.   *)
THEOREM Invariance == Spec => []IInv
<1>1. IInv /\ [Next]_vars => IInv'
  <2> SUFFICES ASSUME IInv, [Next]_vars
               PROVE  IInv'
    OBVIOUS
  <2>1. TypeOK' /\ PermitConservation'
    BY TypeStep, PermitStep DEF IInv
  <2>2. \A c \in Conns : Position(c)' /\ Served(c)'
    BY PositionStep, ServedStep
  <2>3. \A c \in capped' : Capped(c)'
    BY CappedStep
  <2>4. \A q \in Codes : LogOf(q)'
    BY LogStep
  <2>5. QED
    BY <2>1, <2>2, <2>3, <2>4, BookStep, SeenStep DEF IInv
<1>2. QED
  BY InitIInv, <1>1, PTL DEF Spec

(* Type correctness of the server, for every value of the constants.       *)
THEOREM TypeCorrect == Spec => []TypeOK
BY Invariance, PTL DEF IInv

(* No path out of a connection task, and no failed accept, leaks or mints  *)
(* a permit of the connection semaphore.                                   *)
THEOREM PermitsConserved == Spec => []PermitConservation
BY Invariance, PTL DEF IInv

(* The accumulation cap only ever closes a connection on a malformed       *)
(* frame, for every segmentation of every stream.                          *)
THEOREM CapSparesValidTraffic == Spec => []CapOnlyOnMalformed
<1>1. IInv => CapOnlyOnMalformed
  BY DEF IInv, CapOnlyOnMalformed, Capped
<1>2. QED
  BY Invariance, <1>1, PTL

(* No live connection buffers more than the accumulation cap.              *)
THEOREM BuffersBounded == Spec => []BufferBounded
<1>1. IInv => BufferBounded
  BY DEF IInv, BufferBounded, Position
<1>2. QED
  BY Invariance, <1>1, PTL

(* One life of the process writes a command code to the discovery log at   *)
(* most once, however its tasks interleave and whatever flushes fail.      *)
THEOREM LogWritesOnce == Spec => []LoggedOncePerLife
<1>1. IInv => LoggedOncePerLife
  BY DEF IInv, LoggedOncePerLife, LogOf
<1>2. QED
  BY Invariance, <1>1, PTL

(* A claimed code is in the file, in the BufWriter or in a task's hands,   *)
(* unless a full BufWriter has refused its record; that takes more claimed *)
(* codes than the BufWriter has room for.                                  *)
THEOREM LogLosesOnlyOverflow == Spec => []SeenIsNotLost
BY Invariance, PTL DEF IInv


-------------------------------------------------------------------------------
(* Refinement of the abstract session.                                     *)

(* The instance has its own copy of the operators of FiniteSets.           *)
LEMMA HostCardinality ==
  ASSUME NEW S
  PROVE  Host!Cardinality(S) = Cardinality(S)
BY Zenon DEF Host!Cardinality, Cardinality

(* The open connections of the abstract session are the live tasks.        *)
LEMMA OpenIsLive ==
  ASSUME TypeOK
  PROVE  Host!OpenConns = LiveConns
BY DEF Host!OpenConns, LiveConns, Live, connStates, ConnState, TypeOK, TaskStates

(* An initial state of the server is an initial state of the session.      *)
LEMMA RefinesInit ==
  ASSUME Init
  PROVE  Host!HostInit
<1>1. cfg.discover \in BOOLEAN
  BY LimitsAssumption DEF Init
<1>2. QED
  BY <1>1 DEF Init, Host!HostInit, connStates, ConnState

(* Every step of the server is a step of the abstract session or leaves    *)
(* it as it is.                                                            *)
LEMMA RefinesStep ==
  ASSUME IInv, [Next]_vars
  PROVE  [Host!HostNext]_(Host!hostVars)
<1>0. TypeOK /\ PermitConservation
  BY DEF IInv
<1> USE DEF Host!hostVars
<1>1. CASE AcquirePermit \/ AcceptError \/ BackoffElapsed \/ UNCHANGED vars
  BY <1>1
  DEF AcquirePermit, AcceptError, BackoffElapsed, vars, connVars, connStates, ConnState
<1>2. ASSUME NEW c \in Conns, AcceptOk(c)
      PROVE  Host!Open(c)
  <2>1. Cardinality(Host!OpenConns) < MaxConnections
    BY <1>0, <1>2, OpenIsLive, LiveIsFinite, LimitsAssumption
    DEF PermitConservation, AcceptOk, TypeOK
  <2>2. /\ connStates[c] = "new"
        /\ connStates' = [connStates EXCEPT ![c] = "open"]
    BY <1>0, <1>2 DEF AcceptOk, Goto, connStates, ConnState, TypeOK
  <2>3. QED
    BY <1>2, <2>1, <2>2, HostCardinality DEF Host!Open, AcceptOk
<1>3. ASSUME NEW c \in Conns, Task(c)
      PROVE  Host!Serve(c) \/ Host!Drop({c}) \/ UNCHANGED Host!hostVars
  <2>0. cfg' = cfg /\ Live(c)
    BY <1>0, <1>3, TaskShape
  <2>1. CASE WriteOk(c)
    <3>1. Parses(c) /\ Served(c) /\ connStates[c] = "open"
      BY <2>1 DEF WriteOk, IInv, Position, Serving, connStates, ConnState
    <3>2. /\ Len(served[c]) + 1 = head[c]
          /\ head[c] \in DOMAIN Stream[c]
          /\ WellFormedUpTo(c, head[c])
      BY <1>0, <3>1 DEF Served, Parses, WellFormedUpTo, HeadFrame, TypeOK
    <3>3. /\ reply[c] = [frame |-> head[c], kind |-> reply[c].kind]
          /\ reply[c].kind \in Host!Outcomes(cfg.discover, Stream[c][head[c]].code)
      <4>1. reply[c].frame = head[c]
            /\ reply[c].kind \in Host!Outcomes(cfg.discover, HeadFrame(c).code)
        BY <2>1, <3>1 DEF WriteOk, Served
      <4>2. reply[c] \in [frame : Nat, kind : Kinds \cup {"none"}]
        BY <1>0 DEF TypeOK, Replies, NoReply
      <4>3. QED
        BY <4>1, <4>2 DEF HeadFrame
    <3>4. connStates' = connStates
      BY <1>0, <2>1 DEF WriteOk, Goto, connStates, ConnState, TypeOK
    <3>5. served' = [served EXCEPT ![c] = Append(@, reply[c])]
      BY <2>1 DEF WriteOk
    <3>6. Host!Serve(c)
      BY <2>0, <3>1, <3>2, <3>3, <3>4, <3>5 DEF Host!Serve, Host!WellFormedUpTo, WellFormedUpTo
    <3>7. QED
      BY <3>6
  <2>2. CASE task' = [task EXCEPT ![c] = "closed"] /\ served' = served
    <3>1. connStates[c] = "open"
      BY <2>0 DEF Live, connStates, ConnState
    <3>2. connStates'
            = [d \in Conns |-> IF d \in {c} THEN "closed"
                               ELSE connStates[d]]
      BY <1>0, <2>2 DEF connStates, ConnState, TypeOK
    <3>3. Host!Drop({c})
      BY <2>0, <2>2, <3>1, <3>2 DEF Host!Drop, Host!OpenConns
    <3>4. QED
      BY <3>3
  <2>3. CASE /\ \E pc \in TaskStates \ {"backlog", "closed"} :
                  task' = [task EXCEPT ![c] = pc]
             /\ served' = served
    <3>1. connStates' = connStates
      BY <1>0, <2>0, <2>3 DEF Live, connStates, ConnState, TypeOK
    <3>2. QED
      BY <2>0, <2>3, <3>1
  <2>4. WriteOk(c) \/ served' = served
    BY <1>3
    DEF Task, HandshakeOk, HandshakeFails, Read, ReadEnds, ReadIdle, ParseNone,
        DispatchHandled, DispatchForward, DispatchUnknown, LogRecord,
        HandlerReturns, HandlerPanics, ForwardReturns, WriteFails
  <2>5. QED
    BY <1>0, <1>3, <2>1, <2>2, <2>3, <2>4, TaskShape
<1>4. CASE Restart
  <2>1. LiveConns \subseteq Host!OpenConns
    BY <1>0, OpenIsLive
  <2>2. connStates'
          = [d \in Conns |-> IF d \in LiveConns THEN "closed"
                             ELSE connStates[d]]
    BY <1>0, <1>4 DEF Restart, connStates, ConnState, LiveConns, Live, TypeOK
  <2>3. Host!Drop(LiveConns)
    BY <1>4, <2>1, <2>2 DEF Host!Drop, Restart
  <2>4. LiveConns \in SUBSET Conns
    BY DEF LiveConns
  <2>5. QED
    BY <2>3, <2>4 DEF Host!HostNext
<1>5. QED
  <2>1. ASSUME NEW c \in Conns
        PROVE  {c} \in SUBSET Conns
    OBVIOUS
  <2>2. QED
    BY <1>1, <1>2, <1>3, <1>4, <2>1 DEF Next, Listener, Host!HostNext

(* The server implements the abstract session: on every connection the     *)
(* frames are served in order, once each, as their routing says, nothing   *)
(* is served on or past a malformed frame, and the number of open          *)
(* connections stays within the limit.                                     *)
THEOREM Refinement == Spec => ImplementsHostSession
<1>1. Init => Host!HostInit
  BY RefinesInit
<1>2. IInv /\ [Next]_vars => [Host!HostNext]_(Host!hostVars)
  BY RefinesStep
<1>3. QED
  BY <1>1, <1>2, Invariance, PTL DEF Spec, Host!HostSpec, ImplementsHostSession

===============================================================================
