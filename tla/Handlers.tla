------------------------------- MODULE Handlers -------------------------------
(***************************************************************************)
(* What every command handler does.  handle() first works without waiting: *)
(* it parses the fields, resolves the keys and builds the request          *)
(* attributes, and returns an error code at the first of these that fails. *)
(* Then it awaits one or two calls of the service; each may fail, find a   *)
(* mismatch or succeed, and only the last one's success is an answer.      *)
(*                                                                         *)
(* The key map is fixed after startup, but most of what it maps to are     *)
(* aliases, which the service resolves at every call: between two calls of *)
(* one command, or between two commands of one host, an operator may point *)
(* an alias at another key.  A key that is disabled, a throttled or timed  *)
(* out call and a lost connection are all a call that fails.               *)
(*                                                                         *)
(* The commands themselves are in the modules that extend this one: the    *)
(* plan is the first refusal of the handler that applies, or the sequence  *)
(* of the calls that it makes.                                             *)
(***************************************************************************)
EXTENDS Apc, FiniteSets

CONSTANTS
  Conns,          \* connection tasks that run handlers
  Refs,           \* identifiers that may stand in a key field
  Mapped,         \* those that the key map resolves
  Aliases,        \* those that resolve to an alias
  Outside,        \* data that hosts receive from elsewhere (cards, terminals)
  MaxHeld,        \* bound: answers that the hosts keep for later commands
  NoReq,          \* no command has been received yet
  Program(_),     \* the plan of a command's handler
  Requests(_)     \* the commands hosts may send, given the data they hold

ASSUME HandlersAssumption ==
  /\ Aliases \subseteq Mapped /\ Mapped \subseteq Refs
  /\ MaxHeld \in Nat

VARIABLES
  bound,    \* the key that each identifier names in the service
  held,     \* answers in the hands of hosts
  req,      \* the command each task is at
  plan,     \* what its handler has parsed and is going to call
  at,       \* the call it awaits, 0 for none
  got,      \* result of the previous call
  trace,    \* history: what the identifiers named at each call
  faulted,  \* history: did a call fail for no fault of the command's?
  code,     \* the error code of the answer, "none" while there is none
  out       \* the payload of the answer

taskVars == <<req, plan, at, got, trace, faulted, code, out>>
vars == <<bound, held, taskVars>>

NoPlan == [refusal |-> "none", calls |-> <<>>]

Init ==
  /\ bound \in [Mapped -> Keys]
  /\ held = {}
  /\ req = [c \in Conns |-> NoReq]
  /\ plan = [c \in Conns |-> NoPlan]
  /\ at = [c \in Conns |-> 0]
  /\ got = [c \in Conns |-> Nothing]
  /\ trace = [c \in Conns |-> <<>>]
  /\ faulted = [c \in Conns |-> FALSE]
  /\ code = [c \in Conns |-> "none"]
  /\ out = [c \in Conns |-> Nothing]

-------------------------------------------------------------------------------
(* Refusals: a condition, and the code of the error that it returns.       *)
Refuse(bad, cd) == [bad |-> bad, code |-> cd]

(* state.key_map.resolve_descriptor: KeyNotFound is code 10.               *)
Unmapped(x) == Refuse(x \notin Mapped, "10")

BothKeys(r) == <<Unmapped(r.key), Unmapped(r.key2)>>

Malformed(bad) == Refuse(bad, "15")
Unsupported(bad) == Refuse(bad, "68")

(* ProxyError::payshield_code                                              *)
Errors == {"01", "10", "15", "23", "41", "68"}

(* The first refusal that applies, "none" if the calls are to be made.     *)
Refusal(rs) ==
  LET hits == {i \in DOMAIN rs : rs[i].bad} IN
  IF hits = {} THEN "none"
  ELSE rs[CHOOSE i \in hits : \A j \in hits : i <= j].code

(* A handler: its refusals in the order of the code, then its calls.       *)
Plan(refusals, calls) ==
  [refusal |-> Refusal(refusals),
   calls |-> IF Refusal(refusals) = "none" THEN calls ELSE <<>>]

(* common.rs: a piece of padding behind the data.                        *)
emv_pad(data) == Append(data, "80")

(* mac_hex[..n.min(mac_hex.len())]                                         *)
Truncate(d, n) == [d EXCEPT !.len = IF n < @ THEN n ELSE @]

(* The keys that a call is made with, as the service resolves them.        *)
KeysOf(call) == [i \in DOMAIN call.refs |-> bound[call.refs[i]]]

Current(c) == plan[c].calls[at[c]]

(* Mutant: an answered command still awaits a call.                        *)
BugFinishStaysAtCall(c, cd, o) ==
  /\ at' = [at EXCEPT ![c] = @ + 1]
  /\ code' = [code EXCEPT ![c] = cd]
  /\ out' = [out EXCEPT ![c] = o]

(* The handler returns: HandlerResult::success or HandlerResult::err.      *)
Finish(c, cd, o) ==
  /\ at' = [at EXCEPT ![c] = 0]
  /\ code' = [code EXCEPT ![c] = cd]
  /\ out' = [out EXCEPT ![c] = o]

(* A command arrives; everything up to the first await.                    *)
Receive(c) ==
  /\ at[c] = 0 /\ code[c] = "none"
  /\ \E r \in Requests(held \cup Outside) :
       /\ req' = [req EXCEPT ![c] = r]
       /\ plan' = [plan EXCEPT ![c] = Program(r)]
  /\ \/ /\ plan'[c].refusal \in Errors
        /\ Finish(c, plan'[c].refusal, Nothing)
     \/ /\ plan'[c].refusal = "none" /\ plan'[c].calls # <<>>
        /\ at' = [at EXCEPT ![c] = 1]
        /\ UNCHANGED <<code, out>>
     \/ /\ plan'[c].refusal = "none" /\ plan'[c].calls = <<>>
        /\ Finish(c, "00", Nothing)
  /\ UNCHANGED <<bound, held, got, trace, faulted>>

(* What the handler makes of the service's Ok: a MAC is cut to the width   *)
(* of its field, an offset is filled up with 'F' to the width of its field *)
(* and the verdict of a comparison is the handler's own.                   *)
Kept(call, o) ==
  CASE call.op = "generate_mac" -> Truncate(o, call.n)
    [] call.op = "generate_pin_data" /\ o.kind = "offset" ->
         [o EXCEPT !.len = IF @ < call.n THEN call.n ELSE @]
    [] OTHER -> o

Agrees(call, o) == call.op = "compare_mac" => Truncate(o, call.n) = call.datum

(* A call returns Ok: go on to the next call, or answer 00.                *)
CallSucceeds(c) ==
  /\ at[c] > 0
  /\ \E res \in Results(Current(c), KeysOf(Current(c)), got[c]) :
       /\ res.v = "ok" /\ Agrees(Current(c), res.out)
       /\ LET o == IF Current(c).op = "compare_mac" THEN Nothing
                   ELSE Kept(Current(c), res.out) IN
          /\ got' = [got EXCEPT ![c] = o]
          /\ trace' = [trace EXCEPT ![c] = Append(@, bound)]
          /\ \/ /\ at[c] < Len(plan[c].calls)
                /\ at' = [at EXCEPT ![c] = @ + 1]
                /\ UNCHANGED <<code, out>>
             \/ /\ at[c] = Len(plan[c].calls)
                /\ Finish(c, "00", o)
  /\ UNCHANGED <<bound, held, req, plan, faulted>>

(* VerificationFailedException, or the handler's own comparison fails: 01. *)
CallMismatches(c) ==
  /\ at[c] > 0
  /\ \E res \in Results(Current(c), KeysOf(Current(c)), got[c]) :
       \/ res.v = "mismatch"
       \/ res.v = "ok" /\ ~Agrees(Current(c), res.out)
  /\ trace' = [trace EXCEPT ![c] = Append(@, bound)]
  /\ Finish(c, "01", Nothing)
  /\ UNCHANGED <<bound, held, req, plan, got, faulted>>

(* Any other error of the service: 41.  Either it fails for a reason of    *)
(* its own, whatever the command, or it rejects what it is given.          *)
CallFails(c) ==
  /\ at[c] > 0
  /\ \/ faulted' = [faulted EXCEPT ![c] = TRUE]
     \/ /\ Rejected \in Results(Current(c), KeysOf(Current(c)), got[c])
        /\ UNCHANGED faulted
  /\ trace' = [trace EXCEPT ![c] = Append(@, bound)]
  /\ Finish(c, "41", Nothing)
  /\ UNCHANGED <<bound, held, req, plan, got>>

(* The response frame is written and the host takes the answer: it may     *)
(* keep the payload for a later command (no command takes an ARPC, which   *)
(* goes to the card).  The task awaits the next frame.                     *)
Respond(c) ==
  /\ at[c] = 0 /\ code[c] # "none"
  /\ \/ UNCHANGED held
     \/ /\ out[c] # Nothing /\ out[c].kind # "arpc"
        /\ \E h \in SUBSET held :
             /\ Cardinality(h \cup {out[c]}) <= MaxHeld
             /\ held' = h \cup {out[c]}
  /\ req' = [req EXCEPT ![c] = NoReq]
  /\ plan' = [plan EXCEPT ![c] = NoPlan]
  /\ got' = [got EXCEPT ![c] = Nothing]
  /\ trace' = [trace EXCEPT ![c] = <<>>]
  /\ faulted' = [faulted EXCEPT ![c] = FALSE]
  /\ code' = [code EXCEPT ![c] = "none"]
  /\ out' = [out EXCEPT ![c] = Nothing]
  /\ UNCHANGED <<bound, at>>

-------------------------------------------------------------------------------
(* The operator of the service, who is not part of the repository.         *)
Retarget(x, k) ==
  /\ bound' = [bound EXCEPT ![x] = k]
  /\ UNCHANGED <<held, taskVars>>

Next ==
  \/ \E c \in Conns :
       \/ Receive(c) \/ Respond(c)
       \/ CallSucceeds(c) \/ CallMismatches(c) \/ CallFails(c)
  \/ \E x \in Aliases, k \in Keys : Retarget(x, k)

Spec == Init /\ [][Next]_vars

-------------------------------------------------------------------------------
(* Types: a task awaits a call of its plan, or has an answer's code, or    *)
(* has nothing to do.                                                      *)
TypeOK ==
  /\ bound \in [Mapped -> Keys]
  /\ Cardinality(held) <= MaxHeld
  /\ \A c \in Conns :
       /\ faulted[c] \in BOOLEAN
       /\ code[c] \in Errors \cup {"none", "00"}
       /\ IF req[c] = NoReq \/ code[c] # "none" THEN at[c] = 0
          ELSE at[c] \in 1 .. Len(plan[c].calls)

(* The task's command is one of cmds and has been answered with a code.    *)
Answered(c, cmds, cd) == code[c] = cd /\ req[c].cmd \in cmds

(* It has been answered, and the service did not fail on its own.          *)
Decided(c, cmds) == code[c] # "none" /\ req[c].cmd \in cmds /\ ~faulted[c]
===============================================================================
