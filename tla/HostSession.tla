----------------------------- MODULE HostSession ------------------------------
(***************************************************************************)
(* What the proxy promises the host applications, without its buffers,     *)
(* threads, locks and permits: on an open connection the frames are        *)
(* served one by one, in the order they were sent, each at most once, with *)
(* an outcome that the command's routing allows (only a forwarded command  *)
(* may be passed over without an answer); nothing is served on or past a   *)
(* malformed frame; a closed connection stays closed; and no more than     *)
(* MaxConnections connections are open at any time.  Connections may be    *)
(* dropped at any time, several at once when the process dies.             *)
(***************************************************************************)
EXTENDS HostStream

CONSTANTS
  MaxConnections,   \* MAX_CONCURRENT_CONNECTIONS
  Handled           \* command codes the registry has a handler for

VARIABLES
  discover,         \* discover.enabled: are unhandled commands forwarded?
  conn,             \* "new", "open" or "closed", for each connection
  served            \* what became of the frames of each connection, in order

hostVars == <<discover, conn, served>>

(* What may become of a command: a handler's answer; the bytes the forward *)
(* leg returned; no answer at all, if these are none; the error 41 for a   *)
(* failed forward; or the error 68 if it is not handled nor forwarded.     *)
Outcomes(fwd, code) ==
  IF code \in Handled THEN {"handled"}
  ELSE IF fwd THEN {"forwarded", "silence", "41"}
  ELSE {"68"}

OpenConns == {c \in Conns : conn[c] = "open"}

HostInit ==
  /\ discover \in BOOLEAN
  /\ conn = [c \in Conns |-> "new"]
  /\ served = [c \in Conns |-> <<>>]

Open(c) ==
  /\ conn[c] = "new"
  /\ Cardinality(OpenConns) < MaxConnections
  /\ conn' = [conn EXCEPT ![c] = "open"]
  /\ UNCHANGED <<discover, served>>

Serve(c) ==
  LET k == Len(served[c]) + 1 IN
  /\ conn[c] = "open"
  /\ k \in DOMAIN Stream[c]
  /\ WellFormedUpTo(c, k)
  /\ \E kind \in Outcomes(discover, Stream[c][k].code) :
       served' = [served EXCEPT ![c] = Append(@, [frame |-> k, kind |-> kind])]
  /\ UNCHANGED <<discover, conn>>

Drop(S) ==
  /\ S \subseteq OpenConns
  /\ conn' = [c \in Conns |-> IF c \in S THEN "closed" ELSE conn[c]]
  /\ UNCHANGED <<discover, served>>

HostNext ==
  \/ \E c \in Conns : Open(c) \/ Serve(c)
  \/ \E S \in SUBSET Conns : Drop(S)

HostSpec == HostInit /\ [][HostNext]_hostVars
===============================================================================
