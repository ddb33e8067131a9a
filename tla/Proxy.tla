-------------------------------- MODULE Proxy ---------------------------------
(***************************************************************************)
(* server.rs: the accept loop, the connection tasks it spawns, and the     *)
(* discovery log the tasks share.                                          *)
(*                                                                         *)
(* Each connection task is a program counter task[c]:                      *)
(*   "backlog"     the host has connected, the loop has not accepted yet   *)
(*   "handshake"   inside the timed TLS accept                             *)
(*   "reading"     awaiting socket.read                                    *)
(*   "parsing"     at the top of the inner loop                            *)
(*   "handling"    awaiting handler.handle                                 *)
(*   "logging"     in DiscoveryLog::record, between its two locks          *)
(*   "forwarding"  awaiting forward.exchange                               *)
(*   "writing"     awaiting socket.write_all                               *)
(*   "closed"      the task has ended and dropped its permit               *)
(* The bytes in `buf` are those of the host's stream between the start of  *)
(* frame head[c] and offset rcvd[c].                                       *)
(***************************************************************************)
EXTENDS HostStream

CONSTANTS
  Handled,          \* command codes in the registry
  MaxConnections,   \* MAX_CONCURRENT_CONNECTIONS
  Cap,              \* MAX_INBOUND_ACCUMULATION
  ReadChunk,        \* size of read_buf
  LogRoom,          \* records that fit in the BufWriter (8 KiB, all about as long)
  Configs,          \* the configurations considered
  Greedy,           \* hosts that never go quiet, or stop reading their responses
  MaxLives          \* bound: how often the process is started

ASSUME LimitsAssumption ==
  /\ MaxConnections \in Nat \ {0}
  /\ Cap \in Nat /\ ReadChunk \in Nat \ {0}
  /\ LogRoom \in Nat \ {0}
  /\ MaxLives \in Nat \ {0}
  /\ Greedy \subseteq Conns
  /\ Configs \subseteq [tls : BOOLEAN, idle : BOOLEAN,
                        discover : BOOLEAN, log : BOOLEAN]

(* 65_537 + 4_096 - 1 <= 256 KiB: "ample headroom for any real command".   *)
ASSUME HeadroomAssumption == MaxFrame + ReadChunk <= Cap + 1

VARIABLES
  cfg,          \* listen.tls, listen.read_timeout_secs, discover.enabled, log_file
  permits,      \* free permits of the semaphore conn_limit
  acceptor,     \* accept loop: "acquire", "accept" or "backoff"
  task,         \* program counter of each connection task
  rcvd,         \* bytes of the stream read so far
  head,         \* number of the frame at the start of `buf`
  reply,        \* response_bytes
  served,       \* history: what became of each frame that was drained, in order
  capped,       \* history: the connections the accumulation cap has closed
  seen,         \* DiscoveryLog.seen
  unflushed,    \* records in the BufWriter that no flush has written out yet
  refused,      \* history: codes whose record a full BufWriter did not take
  lines,        \* records in the log file, per command code
  lives         \* history: how often the process has been started

listenVars == <<permits, acceptor>>
connVars == <<task, rcvd, head, reply, served, capped>>
logVars == <<seen, unflushed, refused, lines>>
vars == <<cfg, listenVars, connVars, logVars, lives>>

NoReply == [frame |-> 0, kind |-> "none"]

Live(c) == task[c] \notin {"backlog", "closed"}

(* buf.len()                                                               *)
Buffered(c) == rcvd[c] - Start(c, head[c])

HeadFrame(c) == Stream[c][head[c]]

(* protocol.parse(&buf) returns Some: a whole well-formed frame is there.  *)
Parses(c) ==
  /\ head[c] \in DOMAIN Stream[c]
  /\ HeadFrame(c).ok
  /\ HeadFrame(c).end <= rcvd[c]

Goto(c, pc) == task' = [task EXCEPT ![c] = pc]

(* The task returns: the socket is closed and _permit is dropped.          *)
Exit(c) ==
  /\ Goto(c, "closed")
  /\ permits' = permits + 1

-------------------------------------------------------------------------------
Init ==
  /\ cfg \in Configs
  /\ permits = MaxConnections
  /\ acceptor = "acquire"
  /\ task = [c \in Conns |-> "backlog"]
  /\ rcvd = [c \in Conns |-> 0]
  /\ head = [c \in Conns |-> 1]
  /\ reply = [c \in Conns |-> NoReply]
  /\ served = [c \in Conns |-> <<>>]
  /\ capped = {}
  /\ seen = {}
  /\ unflushed = {}
  /\ refused = {}
  /\ lines = [q \in Codes |-> 0]
  /\ lives = 1

-------------------------------------------------------------------------------
(* The accept loop.                                                        *)

(* conn_limit.acquire_owned().await: before accept, not after it.          *)
AcquirePermit ==
  /\ acceptor = "acquire"
  /\ permits > 0
  /\ permits' = permits - 1
  /\ acceptor' = "accept"
  /\ UNCHANGED <<cfg, connVars, logVars, lives>>

(* accept returns a socket; the permit moves into the spawned task.        *)
AcceptOk(c) ==
  /\ acceptor = "accept"
  /\ task[c] = "backlog"
  /\ Goto(c, IF cfg.tls THEN "handshake" ELSE "reading")
  /\ acceptor' = "acquire"
  /\ UNCHANGED <<cfg, permits, rcvd, head, reply, served, capped, logVars, lives>>

(* Mutant of AcceptError: the permit is not released before the back-off.  *)
BugAcceptErrorKeepsPermit ==
  /\ acceptor = "accept"
  /\ acceptor' = "backoff"
  /\ UNCHANGED <<cfg, permits, connVars, logVars, lives>>

(* accept fails (EMFILE, ...): log, drop the permit, sleep 50 ms.          *)
AcceptError ==
  /\ acceptor = "accept"
  /\ permits' = permits + 1
  /\ acceptor' = "backoff"
  /\ UNCHANGED <<cfg, connVars, logVars, lives>>

BackoffElapsed ==
  /\ acceptor = "backoff"
  /\ acceptor' = "acquire"
  /\ UNCHANGED <<cfg, permits, connVars, logVars, lives>>

-------------------------------------------------------------------------------
(* A connection task up to the parsing of a frame.                         *)

HandshakeOk(c) ==
  /\ task[c] = "handshake"
  /\ Goto(c, "reading")
  /\ UNCHANGED <<cfg, listenVars, rcvd, head, reply, served, capped, logVars, lives>>

(* Mutant of HandshakeFails: the permit is released by hand and again when *)
(* it is dropped.                                                          *)
BugHandshakeFailsReleasesTwice(c) ==
  /\ task[c] = "handshake"
  /\ Goto(c, "closed")
  /\ permits' = permits + 2
  /\ UNCHANGED <<cfg, acceptor, rcvd, head, reply, served, capped, logVars, lives>>

(* The handshake fails or TLS_HANDSHAKE_TIMEOUT elapses.                   *)
HandshakeFails(c) ==
  /\ task[c] = "handshake"
  /\ Exit(c)
  /\ UNCHANGED <<cfg, acceptor, rcvd, head, reply, served, capped, logVars, lives>>

(* Mutants of Read: the cap is off by one; the cap is not checked.         *)
BugReadCapOffByOne(c) ==
  /\ task[c] = "reading"
  /\ \E n \in 1 .. ReadChunk :
       /\ rcvd[c] + n <= Total(c)
       /\ rcvd' = [rcvd EXCEPT ![c] = @ + n]
       /\ IF Buffered(c) + n >= Cap
            THEN Exit(c) /\ capped' = capped \cup {c}
            ELSE Goto(c, "parsing") /\ UNCHANGED <<permits, capped>>
  /\ UNCHANGED <<cfg, acceptor, head, reply, served, logVars, lives>>

BugReadWithoutCap(c) ==
  /\ task[c] = "reading"
  /\ \E n \in 1 .. ReadChunk :
       /\ rcvd[c] + n <= Total(c)
       /\ rcvd' = [rcvd EXCEPT ![c] = @ + n]
  /\ Goto(c, "parsing")
  /\ UNCHANGED <<cfg, listenVars, head, reply, served, capped, logVars, lives>>

(* read returns n > 0 bytes; then the check of the accumulation cap.       *)
Read(c) ==
  /\ task[c] = "reading"
  /\ \E n \in 1 .. ReadChunk :
       /\ rcvd[c] + n <= Total(c)
       /\ rcvd' = [rcvd EXCEPT ![c] = @ + n]
       /\ IF Buffered(c) + n > Cap
            THEN Exit(c) /\ capped' = capped \cup {c}
            ELSE Goto(c, "parsing") /\ UNCHANGED <<permits, capped>>
  /\ UNCHANGED <<cfg, acceptor, head, reply, served, logVars, lives>>

(* read returns 0 (the host hung up) or an error.                          *)
ReadEnds(c) ==
  /\ task[c] = "reading"
  /\ Exit(c)
  /\ UNCHANGED <<cfg, acceptor, rcvd, head, reply, served, capped, logVars, lives>>

(* Nothing arrives within listen.read_timeout_secs, if that is set.        *)
ReadIdle(c) ==
  /\ task[c] = "reading"
  /\ cfg.idle
  /\ Exit(c)
  /\ UNCHANGED <<cfg, acceptor, rcvd, head, reply, served, capped, logVars, lives>>

(* parse returns None: leave the inner loop and read again.                *)
ParseNone(c) ==
  /\ task[c] = "parsing"
  /\ ~Parses(c)
  /\ Goto(c, "reading")
  /\ UNCHANGED <<cfg, listenVars, rcvd, head, reply, served, capped, logVars, lives>>

-------------------------------------------------------------------------------
(* Serving one frame.                                                      *)

(* registry.get finds a handler, which is then awaited.                    *)
DispatchHandled(c) ==
  /\ task[c] = "parsing"
  /\ Parses(c)
  /\ HeadFrame(c).code \in Handled
  /\ Goto(c, "handling")
  /\ UNCHANGED <<cfg, listenVars, rcvd, head, reply, served, capped, logVars, lives>>

(* Mutant of DispatchForward: `seen` is consulted and not added to.        *)
BugDispatchForwardForgets(c) ==
  /\ task[c] = "parsing"
  /\ Parses(c)
  /\ HeadFrame(c).code \notin Handled
  /\ cfg.discover
  /\ Goto(c, IF cfg.log /\ HeadFrame(c).code \notin seen
               THEN "logging" ELSE "forwarding")
  /\ UNCHANGED <<cfg, listenVars, rcvd, head, reply, served, capped, logVars, lives>>

(* No handler and discovery on: log_discovery_command, and in it the first *)
(* half of DiscoveryLog::record, the insertion into `seen`.                *)
DispatchForward(c) ==
  /\ task[c] = "parsing"
  /\ Parses(c)
  /\ HeadFrame(c).code \notin Handled
  /\ cfg.discover
  /\ IF cfg.log /\ HeadFrame(c).code \notin seen
       THEN /\ seen' = seen \cup {HeadFrame(c).code}
            /\ Goto(c, "logging")
       ELSE /\ Goto(c, "forwarding")
            /\ UNCHANGED seen
  /\ UNCHANGED <<cfg, listenVars, rcvd, head, reply, served, capped,
                 unflushed, refused, lines, lives>>

(* No handler and no discovery: frame_error 68.                            *)
DispatchUnknown(c) ==
  /\ task[c] = "parsing"
  /\ Parses(c)
  /\ HeadFrame(c).code \notin Handled
  /\ ~cfg.discover
  /\ reply' = [reply EXCEPT ![c] = [frame |-> head[c], kind |-> "68"]]
  /\ Goto(c, "writing")
  /\ UNCHANGED <<cfg, listenVars, rcvd, head, served, capped, logVars, lives>>

(* Mutant of LogRecord: what a failed flush leaves behind is thrown away.  *)
BugLogRecordDrops(c) ==
  /\ task[c] = "logging"
  /\ \/ lines' = [lines EXCEPT ![HeadFrame(c).code] = @ + 1]
     \/ UNCHANGED lines
  /\ Goto(c, "forwarding")
  /\ UNCHANGED <<cfg, listenVars, rcvd, head, reply, served, capped, seen,
                 unflushed, refused, lives>>

(* The second half of record, under the writer lock: writeln into the      *)
(* BufWriter, then flush, the errors of both ignored.  A full BufWriter is *)
(* flushed first (`early` goes out), and if that fails it does not take    *)
(* the record, whose code stays in `seen`.  A flush that fails may have    *)
(* put out some of the records; the others wait for the next one.          *)
LogRecord(c) ==
  LET code == HeadFrame(c).code
      full == Cardinality(unflushed) >= LogRoom
  IN
  /\ task[c] = "logging"
  /\ \E early \in SUBSET unflushed :
       LET taken == ~full \/ early = unflushed
           held == (unflushed \ early) \cup (IF taken THEN {code} ELSE {})
       IN /\ ~full => early = {}
          /\ refused' = IF taken THEN refused ELSE refused \cup {code}
          /\ \E out \in SUBSET held :
               /\ unflushed' = held \ out
               /\ lines' = [q \in Codes |->
                              IF q \in early \cup out THEN lines[q] + 1 ELSE lines[q]]
  /\ Goto(c, "forwarding")
  /\ UNCHANGED <<cfg, listenVars, rcvd, head, reply, served, capped, seen, lives>>

(* The handler returns a HandlerResult, which is framed.                   *)
HandlerReturns(c) ==
  /\ task[c] = "handling"
  /\ reply' = [reply EXCEPT ![c] = [frame |-> head[c], kind |-> "handled"]]
  /\ Goto(c, "writing")
  /\ UNCHANGED <<cfg, listenVars, rcvd, head, served, capped, logVars, lives>>

(* A handler panics (a slice past the end of a value that APC returned):   *)
(* the task unwinds, which drops the socket and the permit.                *)
HandlerPanics(c) ==
  /\ task[c] = "handling"
  /\ Exit(c)
  /\ UNCHANGED <<cfg, acceptor, rcvd, head, reply, served, capped, logVars, lives>>

(* forward.exchange returns bytes, passed on as they are; no bytes at all, *)
(* if the HSM closes at once; or an error, answered with frame_error 41.   *)
ForwardReturns(c) ==
  /\ task[c] = "forwarding"
  /\ \E kind \in {"forwarded", "silence", "41"} :
       reply' = [reply EXCEPT ![c] = [frame |-> head[c], kind |-> kind]]
  /\ Goto(c, "writing")
  /\ UNCHANGED <<cfg, listenVars, rcvd, head, served, capped, logVars, lives>>

(* Mutants of WriteOk: the frame is not drained; one frame is served per   *)
(* read, as if the inner loop were an `if`.                                *)
BugWriteOkWithoutDrain(c) ==
  /\ task[c] = "writing"
  /\ served' = [served EXCEPT ![c] = Append(@, reply[c])]
  /\ reply' = [reply EXCEPT ![c] = NoReply]
  /\ Len(served[c]) < Len(Stream[c])
  /\ Goto(c, "parsing")
  /\ UNCHANGED <<cfg, listenVars, rcvd, head, capped, logVars, lives>>

BugWriteOkReadsAgain(c) ==
  /\ task[c] = "writing"
  /\ served' = [served EXCEPT ![c] = Append(@, reply[c])]
  /\ reply' = [reply EXCEPT ![c] = NoReply]
  /\ head' = [head EXCEPT ![c] = @ + 1]
  /\ Goto(c, "reading")
  /\ UNCHANGED <<cfg, listenVars, rcvd, capped, logVars, lives>>

(* write_all succeeds, the frame is drained, the inner loop goes on.  Of   *)
(* an empty response nothing is written, and the frame is drained too.     *)
WriteOk(c) ==
  /\ task[c] = "writing"
  /\ served' = [served EXCEPT ![c] = Append(@, reply[c])]
  /\ reply' = [reply EXCEPT ![c] = NoReply]
  /\ head' = [head EXCEPT ![c] = @ + 1]
  /\ Goto(c, "parsing")
  /\ UNCHANGED <<cfg, listenVars, rcvd, capped, logVars, lives>>

(* write_all fails, perhaps after part of the response is out.  Of an      *)
(* empty one it writes nothing and so does not fail.                       *)
WriteFails(c) ==
  /\ task[c] = "writing"
  /\ reply[c].kind # "silence"
  /\ Exit(c)
  /\ UNCHANGED <<cfg, acceptor, rcvd, head, reply, served, capped, logVars, lives>>

-------------------------------------------------------------------------------
(* The process is killed and started again: every task, the semaphore, the *)
(* `seen` set and the BufWriter go with it; the log file, opened in append *)
(* mode, stays.                                                            *)
Restart ==
  /\ lives < MaxLives
  /\ lives' = lives + 1
  /\ permits' = MaxConnections
  /\ acceptor' = "acquire"
  /\ task' = [c \in Conns |-> IF Live(c) THEN "closed" ELSE task[c]]
  /\ seen' = {}
  /\ unflushed' = {}
  /\ refused' = {}
  /\ UNCHANGED <<cfg, rcvd, head, reply, served, capped, lines>>

Listener ==
  \/ AcquirePermit
  \/ \E c \in Conns : AcceptOk(c)
  \/ AcceptError
  \/ BackoffElapsed

Task(c) ==
  \/ HandshakeOk(c) \/ HandshakeFails(c)
  \/ Read(c) \/ ReadEnds(c) \/ ReadIdle(c)
  \/ ParseNone(c)
  \/ DispatchHandled(c) \/ DispatchForward(c) \/ DispatchUnknown(c)
  \/ LogRecord(c)
  \/ HandlerReturns(c) \/ HandlerPanics(c) \/ ForwardReturns(c)
  \/ WriteOk(c) \/ WriteFails(c)

Next ==
  \/ Listener
  \/ \E c \in Conns : Task(c)
  \/ Restart

Spec == Init /\ [][Next]_vars

-------------------------------------------------------------------------------
(* Fairness.  Every step that the runtime or a timer of the proxy takes is *)
(* taken in the end: tokio polls ready tasks, the handshake is timed, and  *)
(* forward.exchange is timed at every await (module ForwardLeg).  Of the   *)
(* outside world it is assumed that APC calls return and that accept does  *)
(* not fail for ever.  Nothing times write_all, and read_timeout_secs does *)
(* not interrupt a host that keeps sending: only hosts that are not Greedy *)
(* take their responses and go quiet in the end, so that the read timer    *)
(* can fire.  No host need send anything: Read is not fair.                *)
FairTask(c) ==
  /\ WF_vars(HandshakeOk(c) \/ HandshakeFails(c))
  /\ WF_vars(ParseNone(c) \/ DispatchHandled(c) \/ DispatchForward(c)
             \/ DispatchUnknown(c))
  /\ WF_vars(LogRecord(c))
  /\ WF_vars(HandlerReturns(c) \/ HandlerPanics(c))
  /\ WF_vars(ForwardReturns(c))

PatientHost(c) ==
  /\ WF_vars(ReadIdle(c))
  /\ WF_vars(WriteOk(c) \/ WriteFails(c))

Fairness ==
  /\ WF_vars(AcquirePermit)
  /\ WF_vars(BackoffElapsed)
  /\ SF_vars(\E c \in Conns : AcceptOk(c))
  /\ \A c \in Conns : FairTask(c)
  /\ \A c \in Conns \ Greedy : PatientHost(c)

FairSpec == Spec /\ Fairness

-------------------------------------------------------------------------------
(* Properties.                                                             *)

Kinds == {"handled", "forwarded", "silence", "41", "68"}

TaskStates == {"backlog", "handshake", "reading", "parsing", "handling",
               "logging", "forwarding", "writing", "closed"}

Replies == [frame : Nat, kind : Kinds]

(* Every variable of the server has its type; in particular the semaphore  *)
(* never holds more permits than it was created with.                      *)
TypeOK ==
  /\ cfg \in Configs
  /\ permits \in 0 .. MaxConnections
  /\ acceptor \in {"acquire", "accept", "backoff"}
  /\ task \in [Conns -> TaskStates]
  /\ rcvd \in [Conns -> Nat]
  /\ head \in [Conns -> Nat \ {0}]
  /\ reply \in [Conns -> Replies \cup {NoReply}]
  /\ served \in [Conns -> Seq(Replies)]
  /\ capped \subseteq Conns
  /\ seen \subseteq Codes
  /\ unflushed \subseteq Codes
  /\ refused \subseteq Codes
  /\ lines \in [Codes -> Nat]
  /\ lives \in 1 .. MaxLives

LiveConns == {c \in Conns : Live(c)}

(* No permit leaks and none is minted: on every path out of a task (host   *)
(* hang-up, timeouts, cap, failed write, panic), after a failed accept and *)
(* after a restart, the free permits, the live tasks and the permit in the *)
(* accept loop's hands add up to MAX_CONCURRENT_CONNECTIONS.               *)
PermitConservation ==
  permits + Cardinality(LiveConns) + (IF acceptor = "accept" THEN 1 ELSE 0)
    = MaxConnections

(* The accumulation cap never closes a connection whose pending frame is   *)
(* well-formed, however its bytes are cut up and however many frames are   *)
(* pipelined: it only ever fires on a frame that parse refuses.            *)
CapOnlyOnMalformed ==
  \A c \in capped :
    head[c] \in DOMAIN Stream[c] /\ ~HeadFrame(c).ok

(* One connection never buffers more than MAX_INBOUND_ACCUMULATION bytes   *)
(* across an await, whatever it sends.                                     *)
BufferBounded == \A c \in Conns : Live(c) => Buffered(c) <= Cap

(* DiscoveryLog::record: whatever the interleaving of the tasks between    *)
(* the two locks, and whatever flushes fail, one run of the process writes *)
(* one command code at most once.                                          *)
LoggedOncePerLife == \A q \in Codes : lines[q] <= lives

(* A code in `seen` is not dropped by a running process, whatever flushes  *)
(* fail: its record is in the file, in the BufWriter, or in the hands of a *)
(* task that has not yet taken the writer lock.  The one exception is a    *)
(* record that a full BufWriter has refused, and none is refused before    *)
(* the BufWriter's fill of other codes has been claimed in this life.      *)
SeenIsNotLost ==
  /\ \A q \in seen \ refused :
       \/ lines[q] > 0
       \/ q \in unflushed
       \/ \E c \in Conns : task[c] = "logging" /\ HeadFrame(c).code = q
  /\ refused # {} => Cardinality(seen) > LogRoom

(* Refinement: seen through its connections and served, the server is the *)
(* abstract session: frames served in order, once, by their routing, and   *)
(* nothing past a malformed frame.                                         *)
ConnState(c) ==
  CASE task[c] = "backlog" -> "new"
    [] task[c] = "closed" -> "closed"
    [] OTHER -> "open"

connStates == [c \in Conns |-> ConnState(c)]

Host == INSTANCE HostSession WITH
  discover <- cfg.discover,
  conn <- connStates

ImplementsHostSession == Host!HostSpec

(* Every well-formed frame that has arrived in full from a host that reads *)
(* its responses is dealt with, pipelined ones too, or the connection      *)
(* ends.  Dealt with means that a response is written, or that the command *)
(* was forwarded and the HSM closed without a byte: then nothing is.       *)
ReceivedIsServed ==
  \A c \in Conns \ Greedy : \A k \in DOMAIN Stream[c] :
    WellFormedUpTo(c, k) =>
      ((Stream[c][k].end <= rcvd[c])
         ~> (Len(served[c]) >= k \/ task[c] = "closed"))

(* With listen.read_timeout_secs set, and as long as there are fewer hosts *)
(* that never go quiet or do not read than there are permits, a host in    *)
(* the backlog is accepted in the end: also when all permits are out,      *)
(* accepts fail now and then, and the others fail in any way they can.     *)
BacklogIsAccepted ==
  Cardinality(Greedy) < MaxConnections =>
    \A c \in Conns :
      (cfg.idle /\ task[c] = "backlog") ~> (task[c] # "backlog")

-------------------------------------------------------------------------------
(* What the source says of the server and the server does not do.          *)

(* Every host also sends all of its stream.                                *)
DeliverySpec == FairSpec /\ \A c \in Conns : WF_vars(Read(c))

(* ThalesPayShield::parse, of a malformed frame: "The connection then      *)
(* makes no progress and is closed by the caller's buffer cap."            *)
MalformedIsClosed ==
  \A c \in Conns : \A k \in DOMAIN Stream[c] :
    (~Stream[c][k].ok /\ WellFormedUpTo(c, k - 1)) =>
      ((Stream[c][k].end <= rcvd[c]) ~> (task[c] = "closed"))

===============================================================================
