---------------------------- MODULE HandlersProofs ----------------------------
(***************************************************************************)
(* What the theorems of the handler families rest on, for every number of  *)
(* tasks, every key map and every set of commands and plans.  IInv: where  *)
(* a task stands in its plan and what it has done agree.  HInv(D) explains *)
(* every answer by the calls that were made for it: which keys the         *)
(* identifiers named at each call, what the call before left, and which    *)
(* result of the service gave the code.  It holds of hosts and handlers    *)
(* that stay within a set D of data (Serves), which a family has if the    *)
(* answers to commands made of D are in D (Closes).  The rest is about     *)
(* plans: when the refusals of a handler let its calls be made.            *)
(***************************************************************************)
EXTENDS Handlers, TLAPS, FiniteSetTheorems, WellFoundedInduction

(* A sequence of anything: the entries of a trace are as the plan has them.*)
IsSeq(s) == \E S : s \in Seq(S)

(* Where a task stands and what it has done agree.  The trace of a task    *)
(* without a command is empty, that of one at call i has i - 1 entries,    *)
(* and that of one that answered 00 is as long as the plan: without the    *)
(* first two the third is not preserved.                                   *)
InStep(c) ==
  /\ IsSeq(trace[c])
  /\ at[c] \in Nat
  /\ at[c] > 0 => Len(trace[c]) = at[c] - 1 /\ code[c] = "none"
                    /\ plan[c].refusal = "none"
  /\ at[c] = 0 /\ code[c] = "none" => trace[c] = <<>>
  /\ code[c] = "00" =>
       /\ plan[c].refusal = "none"
       /\ Len(trace[c]) = Len(plan[c].calls)

TaskShape ==
  /\ trace = [c \in Conns |-> trace[c]] /\ at = [c \in Conns |-> at[c]]
  /\ code = [c \in Conns |-> code[c]] /\ plan = [c \in Conns |-> plan[c]]

IInv == TaskShape /\ \A c \in Conns : InStep(c)

(* A call adds one entry to the trace, whatever the entry is.              *)
LEMMA AppendLength ==
  ASSUME NEW s, IsSeq(s), NEW e
  PROVE  /\ Len(Append(s, e)) = Len(s) + 1 /\ Len(s) \in Nat
         /\ IsSeq(Append(s, e))
PROOF
  <1>1. PICK S : s \in Seq(S)
    BY DEF IsSeq
  <1> DEFINE T == S \cup {e}
  <1>2. s \in Seq(T) /\ e \in T
    <2>1. /\ Len(s) \in Nat /\ DOMAIN s = 1 .. Len(s)
          /\ \A i \in 1 .. Len(s) : s[i] \in S
      BY <1>1
    <2> QED BY <1>1, <2>1
  <1> HIDE DEF T
  <1>3. Append(s, e) \in Seq(T) /\ Len(Append(s, e)) = Len(s) + 1 /\ Len(s) \in Nat
    BY <1>2
  <1> QED BY <1>3 DEF IsSeq

(* The entries before it stay as they are.                                 *)
LEMMA AppendEntries ==
  ASSUME NEW s, IsSeq(s), NEW e
  PROVE  /\ \A i \in 1 .. Len(s) : Append(s, e)[i] = s[i]
         /\ Append(s, e)[Len(s) + 1] = e
PROOF
  <1>1. PICK S : s \in Seq(S)
    BY DEF IsSeq
  <1> QED BY <1>1

(* A sequence that is not empty has a first entry.                         *)
LEMMA NonEmptyLength ==
  ASSUME NEW s, IsSeq(s)
  PROVE  Len(s) \in Nat /\ (s # <<>> => 1 <= Len(s))
PROOF
  <1>1. PICK S : s \in Seq(S)
    BY DEF IsSeq
  <1> QED BY <1>1

(* The empty sequence is one.                                              *)
LEMMA EmptyIsSeq == IsSeq(<<>>) /\ Len(<<>>) = 0
PROOF
  <1>1. <<>> \in Seq({})
    OBVIOUS
  <1> QED BY <1>1 DEF IsSeq

(* A task that nothing was done to is in step as before.                   *)
LEMMA OthersInStep ==
  ASSUME NEW c \in Conns, InStep(c), trace'[c] = trace[c], at'[c] = at[c],
         code'[c] = code[c], plan'[c] = plan[c]
  PROVE  InStep(c)'
PROOF BY DEF InStep

(* The acting task alone has to be looked at.                              *)
LEMMA OneTask ==
  ASSUME IInv, NEW c \in Conns, InStep(c)', TaskShape',
         \A d \in Conns \ {c} : /\ trace'[d] = trace[d] /\ at'[d] = at[d]
                                /\ code'[d] = code[d] /\ plan'[d] = plan[d]
  PROVE  IInv'
PROOF
  <1>1. \A d \in Conns \ {c} : InStep(d)'
    BY OthersInStep DEF IInv
  <1> QED BY <1>1 DEF IInv

(* Initially no task has a command.                                        *)
LEMMA InitInStep == Init => IInv
PROOF
  <1> SUFFICES ASSUME Init PROVE IInv
    OBVIOUS
  <1>1. TaskShape
    BY DEF Init, TaskShape
  <1>2. ASSUME NEW c \in Conns PROVE InStep(c)
    <2>1. /\ trace[c] = <<>> /\ at[c] = 0 /\ code[c] = "none"
      BY DEF Init
    <2> QED BY <2>1, EmptyIsSeq DEF InStep
  <1> QED BY <1>1, <1>2 DEF IInv

(* A refused command and one without calls are answered at once, any other *)
(* starts with its first call.                                             *)
LEMMA ReceiveInStep ==
  ASSUME IInv, NEW c \in Conns, Receive(c) PROVE IInv'
PROOF
  <1>1. PICK p : plan' = [plan EXCEPT ![c] = p]
    BY Zenon DEF Receive
  <1>2. /\ at[c] = 0 /\ code[c] = "none" /\ trace' = trace
        /\ \/ plan'[c].refusal \in Errors /\ Finish(c, plan'[c].refusal, Nothing)
           \/ /\ plan'[c].refusal = "none" /\ plan'[c].calls # <<>>
              /\ at' = [at EXCEPT ![c] = 1] /\ UNCHANGED <<code, out>>
           \/ /\ plan'[c].refusal = "none" /\ plan'[c].calls = <<>>
              /\ Finish(c, "00", Nothing)
    BY Zenon DEF Receive
  <1>3. InStep(c) /\ TaskShape
    BY DEF IInv
  <1>4. trace[c] = <<>> /\ Len(<<>>) = 0 /\ IsSeq(trace[c])
    BY <1>2, <1>3, EmptyIsSeq DEF InStep
  <1>5. TaskShape' /\ trace'[c] = trace[c]
        /\ \A d \in Conns \ {c} : /\ trace'[d] = trace[d] /\ at'[d] = at[d]
                                  /\ code'[d] = code[d] /\ plan'[d] = plan[d]
    BY <1>1, <1>2, <1>3 DEF TaskShape, Finish
  <1>6. InStep(c)'
    <2>1. CASE plan'[c].refusal \in Errors /\ Finish(c, plan'[c].refusal, Nothing)
      <3>1. at'[c] = 0 /\ code'[c] = plan'[c].refusal /\ plan'[c].refusal # "00"
            /\ code'[c] # "none"
        BY <2>1, <1>3 DEF Finish, TaskShape, Errors
      <3> QED BY <3>1, <1>4, <1>5 DEF InStep
    <2>2. CASE /\ plan'[c].refusal = "none" /\ plan'[c].calls # <<>>
               /\ at' = [at EXCEPT ![c] = 1] /\ UNCHANGED <<code, out>>
      <3>1. at'[c] = 1 /\ code'[c] = "none"
        BY <2>2, <1>2, <1>3 DEF TaskShape
      <3> QED BY <2>2, <3>1, <1>4, <1>5 DEF InStep
    <2>3. CASE /\ plan'[c].refusal = "none" /\ plan'[c].calls = <<>>
               /\ Finish(c, "00", Nothing)
      <3>1. at'[c] = 0 /\ code'[c] = "00"
        BY <2>3, <1>3 DEF Finish, TaskShape
      <3> QED BY <2>3, <3>1, <1>4, <1>5 DEF InStep
    <2> QED BY <1>2, <2>1, <2>2, <2>3
  <1> QED BY <1>5, <1>6, OneTask

(* A step of an answered call: one more entry, and the plan as before.     *)
LEMMA CallInStep ==
  ASSUME IInv, NEW c \in Conns, at[c] > 0, UNCHANGED plan, NEW e,
         trace' = [trace EXCEPT ![c] = Append(@, e)], NEW cd, NEW o,
         \/ /\ Finish(c, cd, o) /\ cd \in Errors
         \/ /\ Finish(c, "00", o) /\ at[c] = Len(plan[c].calls)
         \/ /\ at' = [at EXCEPT ![c] = @ + 1] /\ UNCHANGED <<code, out>>
  PROVE  IInv'
PROOF
  <1>1. InStep(c) /\ TaskShape
    BY DEF IInv
  <1>2. /\ at[c] \in Nat /\ Len(trace[c]) = at[c] - 1 /\ code[c] = "none"
        /\ plan[c].refusal = "none" /\ IsSeq(trace[c])
    BY <1>1 DEF InStep
  <1>3. trace'[c] = Append(trace[c], e)
    BY <1>1 DEF TaskShape
  <1>4. Len(trace'[c]) = Len(trace[c]) + 1 /\ Len(trace[c]) \in Nat
        /\ IsSeq(trace'[c])
    BY <1>2, <1>3, AppendLength
  <1>5. Len(trace'[c]) = at[c]
    BY <1>2, <1>4
  <1>6. TaskShape' /\ plan'[c] = plan[c]
        /\ \A d \in Conns \ {c} : /\ trace'[d] = trace[d] /\ at'[d] = at[d]
                                  /\ code'[d] = code[d] /\ plan'[d] = plan[d]
    BY <1>1 DEF TaskShape, Finish
  <1>7. InStep(c)'
    <2>1. CASE Finish(c, cd, o) /\ cd \in Errors
      <3>1. at'[c] = 0 /\ code'[c] = cd /\ cd # "00" /\ cd # "none"
        BY <2>1, <1>1 DEF Finish, TaskShape, Errors
      <3> QED BY <3>1, <1>4 DEF InStep
    <2>2. CASE Finish(c, "00", o) /\ at[c] = Len(plan[c].calls)
      <3>1. at'[c] = 0 /\ code'[c] = "00"
        BY <2>2, <1>1 DEF Finish, TaskShape
      <3> QED BY <2>2, <3>1, <1>2, <1>4, <1>5, <1>6 DEF InStep
    <2>3. CASE at' = [at EXCEPT ![c] = @ + 1] /\ UNCHANGED <<code, out>>
      <3>1. at'[c] = at[c] + 1 /\ code'[c] = "none"
        BY <2>3, <1>1, <1>2 DEF TaskShape
      <3> QED BY <3>1, <1>2, <1>4, <1>5, <1>6 DEF InStep
    <2> QED BY <2>1, <2>2, <2>3
  <1> QED BY <1>6, <1>7, OneTask

(* The host takes the answer and the task starts afresh.                   *)
LEMMA RespondInStep ==
  ASSUME IInv, NEW c \in Conns, Respond(c) PROVE IInv'
PROOF
  <1>1. TaskShape
    BY DEF IInv
  <1>2. TaskShape' /\ trace'[c] = <<>> /\ at'[c] = 0 /\ code'[c] = "none"
        /\ \A d \in Conns \ {c} : /\ trace'[d] = trace[d] /\ at'[d] = at[d]
                                  /\ code'[d] = code[d] /\ plan'[d] = plan[d]
    BY <1>1 DEF TaskShape, Respond
  <1>3. InStep(c)'
    BY <1>2, EmptyIsSeq DEF InStep
  <1> QED BY <1>2, <1>3, OneTask

(* Every step keeps every task in step.                                    *)
LEMMA NextInStep == IInv /\ [Next]_vars => IInv'
PROOF
  <1> SUFFICES ASSUME IInv, [Next]_vars PROVE IInv'
    OBVIOUS
  <1>1. ASSUME NEW c \in Conns, Receive(c) PROVE IInv'
    BY <1>1, ReceiveInStep
  <1>2. ASSUME NEW c \in Conns, Respond(c) PROVE IInv'
    BY <1>2, RespondInStep
  <1>3. ASSUME NEW c \in Conns, CallSucceeds(c) PROVE IInv'
    <2>1. PICK o :
            \/ Finish(c, "00", o) /\ at[c] = Len(plan[c].calls)
            \/ at' = [at EXCEPT ![c] = @ + 1] /\ UNCHANGED <<code, out>>
      BY <1>3 DEF CallSucceeds
    <2>2. /\ at[c] > 0 /\ UNCHANGED plan
          /\ trace' = [trace EXCEPT ![c] = Append(@, bound)]
      BY <1>3 DEF CallSucceeds
    <2> QED BY <2>1, <2>2, CallInStep
  <1>4. ASSUME NEW c \in Conns, CallMismatches(c) PROVE IInv'
    BY <1>4, CallInStep DEF CallMismatches, Errors
  <1>5. ASSUME NEW c \in Conns, CallFails(c) PROVE IInv'
    BY <1>5, CallInStep DEF CallFails, Errors
  <1>6. ASSUME NEW x \in Aliases, NEW k \in Keys, Retarget(x, k) PROVE IInv'
    BY <1>6, OthersInStep DEF IInv, TaskShape, Retarget, taskVars
  <1>7. ASSUME UNCHANGED vars PROVE IInv'
    BY <1>7, OthersInStep DEF IInv, TaskShape, vars, taskVars
  <1> QED BY <1>1, <1>2, <1>3, <1>4, <1>5, <1>6, <1>7 DEF Next

-------------------------------------------------------------------------------
(* How a task came to its answer.  A call of the task is explained by the  *)
(* keys that the identifiers named when it was made (b, an entry of the    *)
(* trace) and by the answer that the call before it left (prev).           *)
KeysUnder(b, call) == [i \in DOMAIN call.refs |-> b[call.refs[i]]]

Left(call, o) == IF call.op = "compare_mac" THEN Nothing ELSE Kept(call, o)

Passes(call, b, prev, o) ==
  \E res \in Results(call, KeysUnder(b, call), prev) :
    res.v = "ok" /\ Agrees(call, res.out) /\ o = Left(call, res.out)

Mismatches(call, b, prev) ==
  \E res \in Results(call, KeysUnder(b, call), prev) :
    res.v = "mismatch" \/ (res.v = "ok" /\ ~Agrees(call, res.out))

Rejects(call, b, prev) == Rejected \in Results(call, KeysUnder(b, call), prev)

(* The first n calls passed, and g[i] is the answer that the i-th left.    *)
Chain(calls, t, n, g) ==
  /\ g[0] = Nothing
  /\ \A i \in 1 .. n : Passes(calls[i], t[i], g[i - 1], g[i])

(* All calls but the last one made passed, and that one gave the code.     *)
Broken(calls, t, cd, f) ==
  /\ Len(t) \in 1 .. Len(calls)
  /\ \E g :
       /\ Chain(calls, t, Len(t) - 1, g)
       /\ \/ cd = "01" /\ Mismatches(calls[Len(t)], t[Len(t)], g[Len(t) - 1])
          \/ cd = "41" /\ (f \/ Rejects(calls[Len(t)], t[Len(t)], g[Len(t) - 1]))

Explained(c) ==
  /\ at[c] > 0 =>
       /\ at[c] <= Len(plan[c].calls)
       /\ \E g : Chain(plan[c].calls, trace[c], at[c] - 1, g) /\ got[c] = g[at[c] - 1]
  /\ code[c] = "00" =>
       \E g : /\ Chain(plan[c].calls, trace[c], Len(plan[c].calls), g)
              /\ out[c] = g[Len(plan[c].calls)]
  /\ code[c] \notin {"none", "00"} =>
       /\ code[c] \in Errors /\ out[c] = Nothing
       /\ \/ trace[c] = <<>> /\ code[c] = plan[c].refusal
          \/ Broken(plan[c].calls, trace[c], code[c], faulted[c])

(* What the trace says the identifiers named; only aliases change.         *)
Recorded(c) ==
  \A i \in 1 .. Len(trace[c]) :
    /\ trace[c][i] \in [Mapped -> Keys]
    /\ \A x \in Mapped \ Aliases : trace[c][i][x] = bound[x]

(* A busy task serves a command that hosts holding data of D may send, and *)
(* has the plan of that command's handler.                                 *)
Served(c, D) ==
  IF at[c] = 0 /\ code[c] = "none" THEN req[c] = NoReq /\ got[c] = Nothing
  ELSE /\ req[c] # NoReq
       /\ \E hold \in SUBSET D : req[c] \in Requests(hold)
       /\ plan[c] = Program(req[c])

Explains(c, D) == Explained(c) /\ Recorded(c) /\ Served(c, D)

MoreShape ==
  /\ req = [c \in Conns |-> req[c]] /\ got = [c \in Conns |-> got[c]]
  /\ out = [c \in Conns |-> out[c]] /\ faulted \in [Conns -> BOOLEAN]

World(D) ==
  /\ bound \in [Mapped -> Keys]
  /\ held \subseteq D /\ Cardinality(held) <= MaxHeld

HInv(D) ==
  /\ IInv /\ MoreShape /\ World(D)
  /\ \A c \in Conns : Explains(c, D)

(* Hosts and handlers stay within the data D: what hosts get from          *)
(* elsewhere is in D, and so is every answer to a command made of D.       *)
Serves(D) ==
  /\ Outside \subseteq D
  /\ \A hold \in SUBSET D : \A r \in Requests(hold) :
       /\ r # NoReq
       /\ IsSeq(Program(r).calls)
       /\ \A t, g :
            /\ \A i \in 1 .. Len(Program(r).calls) : t[i] \in [Mapped -> Keys]
            /\ Chain(Program(r).calls, t, Len(Program(r).calls), g)
            => g[Len(Program(r).calls)] \in D \cup {Nothing}

(* A chain goes on with the call that passes next, the m-th.               *)
LEMMA ChainGoesOn ==
  ASSUME NEW calls, NEW t, IsSeq(t), NEW m \in Nat \ {0}, Len(t) = m - 1, NEW g,
         Chain(calls, t, m - 1, g), NEW b, NEW o, Passes(calls[m], b, g[m - 1], o)
  PROVE  \E h : Chain(calls, Append(t, b), m, h) /\ h[m] = o
PROOF
  <1> DEFINE h == [i \in 0 .. m |-> IF i < m THEN g[i] ELSE o]
             u == Append(t, b)
  <1>1. h[0] = Nothing
    BY DEF Chain
  <1>2. u[m] = b /\ \A i \in 1 .. m - 1 : u[i] = t[i]
    BY AppendEntries
  <1>3. ASSUME NEW i \in 1 .. m PROVE Passes(calls[i], u[i], h[i - 1], h[i])
    <2>1. CASE i = m
      <3>1. h[i - 1] = g[m - 1] /\ h[i] = o /\ u[i] = b
        BY <2>1, <1>2
      <3> HIDE DEF h, u
      <3> QED BY <3>1, <2>1
    <2>2. CASE i \in 1 .. m - 1
      <3>1. h[i - 1] = g[i - 1] /\ h[i] = g[i] /\ u[i] = t[i]
        BY <2>2, <1>2
      <3>2. Passes(calls[i], t[i], g[i - 1], g[i])
        BY <2>2 DEF Chain
      <3> HIDE DEF h, u
      <3> QED BY <3>1, <3>2
    <2> QED BY <2>1, <2>2
  <1>4. h[m] = o
    OBVIOUS
  <1> HIDE DEF h
  <1>5. Chain(calls, u, m, h)
    <2> HIDE DEF u
    <2> QED BY <1>1, <1>3 DEF Chain
  <1> QED BY <1>4, <1>5

(* An entry added to the trace leaves the chain of the calls before it.    *)
LEMMA ChainStays ==
  ASSUME NEW calls, NEW t, IsSeq(t), NEW n \in Nat, Len(t) = n, NEW g,
         Chain(calls, t, n, g), NEW b
  PROVE  Chain(calls, Append(t, b), n, g)
PROOF
  <1>1. \A i \in 1 .. n : Append(t, b)[i] = t[i]
    BY AppendEntries
  <1> QED BY <1>1 DEF Chain

(* A task that nothing was done to is explained as before, also when an    *)
(* operator points an alias elsewhere.                                     *)
LEMMA OthersExplained ==
  ASSUME NEW D, NEW c \in Conns, Explains(c, D),
         req'[c] = req[c], plan'[c] = plan[c], at'[c] = at[c], got'[c] = got[c],
         trace'[c] = trace[c], faulted'[c] = faulted[c], code'[c] = code[c],
         out'[c] = out[c], \A x \in Mapped \ Aliases : bound'[x] = bound[x]
  PROVE  Explains(c, D)'
PROOF
  <1>1. Explained(c)'
    BY Zenon DEF Explains, Explained
  <1>2. Recorded(c)'
    BY DEF Explains, Recorded
  <1>3. Served(c, D)'
    BY Zenon DEF Explains, Served
  <1> QED BY <1>1, <1>2, <1>3 DEF Explains

(* The acting task alone has to be looked at.                              *)
SameOthers(c) ==
  \A d \in Conns \ {c} :
    /\ req'[d] = req[d] /\ plan'[d] = plan[d] /\ at'[d] = at[d] /\ got'[d] = got[d]
    /\ trace'[d] = trace[d] /\ faulted'[d] = faulted[d] /\ code'[d] = code[d]
    /\ out'[d] = out[d]

(* What a step of one task has to keep for the invariant to hold on.       *)
LEMMA OneTaskExplained ==
  ASSUME NEW D, HInv(D), NEW c \in Conns, IInv', MoreShape', World(D)',
         bound' = bound, SameOthers(c), Explains(c, D)'
  PROVE  HInv(D)'
PROOF
  <1>1. ASSUME NEW d \in Conns \ {c} PROVE Explains(d, D)'
    BY OthersExplained DEF HInv, SameOthers
  <1> QED BY <1>1 DEF HInv

(* Initially every task is idle.                                           *)
LEMMA InitExplained ==
  ASSUME NEW D, Init PROVE HInv(D)
PROOF
  <1>1. IInv
    BY InitInStep
  <1>2. MoreShape
    BY DEF Init, MoreShape
  <1>3. World(D)
    BY FS_EmptySet, HandlersAssumption DEF Init, World
  <1>4. ASSUME NEW c \in Conns PROVE Explains(c, D)
    <2>1. /\ trace[c] = <<>> /\ at[c] = 0 /\ code[c] = "none" /\ req[c] = NoReq
          /\ got[c] = Nothing
      BY DEF Init
    <2>2. Explained(c)
      BY <2>1 DEF Explained
    <2>3. Recorded(c)
      BY <2>1 DEF Recorded
    <2>4. Served(c, D)
      BY <2>1 DEF Served
    <2> QED BY <2>2, <2>3, <2>4 DEF Explains
  <1> QED BY <1>1, <1>2, <1>3, <1>4 DEF HInv

(* A command is received: a refusal is the plan's, and the chain of the    *)
(* calls to be made is empty.                                              *)
LEMMA ReceiveExplained ==
  ASSUME NEW D, Serves(D), HInv(D), NEW c \in Conns, Receive(c) PROVE HInv(D)'
PROOF
  <1>0. IInv' /\ IInv
    BY ReceiveInStep DEF HInv
  <1>1. PICK r \in Requests(held \cup Outside) :
          /\ req' = [req EXCEPT ![c] = r] /\ plan' = [plan EXCEPT ![c] = Program(r)]
    BY Zenon DEF Receive
  <1>2. /\ at[c] = 0 /\ code[c] = "none"
        /\ UNCHANGED <<bound, held, got, trace, faulted>>
        /\ \/ plan'[c].refusal \in Errors /\ Finish(c, plan'[c].refusal, Nothing)
           \/ /\ plan'[c].refusal = "none" /\ plan'[c].calls # <<>>
              /\ at' = [at EXCEPT ![c] = 1] /\ UNCHANGED <<code, out>>
           \/ /\ plan'[c].refusal = "none" /\ plan'[c].calls = <<>>
              /\ Finish(c, "00", Nothing)
    BY Zenon DEF Receive
  <1>3. MoreShape /\ TaskShape /\ World(D) /\ Explains(c, D) /\ InStep(c)
    BY DEF HInv, IInv
  <1>4. MoreShape' /\ SameOthers(c)
    BY <1>1, <1>2, <1>3 DEF MoreShape, TaskShape, Finish, SameOthers
  <1>5. World(D)'
    BY <1>2, <1>3 DEF World
  <1>6. /\ req'[c] = r /\ plan'[c] = Program(r) /\ trace'[c] = trace[c]
        /\ got'[c] = got[c]
    BY <1>1, <1>2, <1>3 DEF MoreShape, TaskShape
  <1>7. trace[c] = <<>> /\ got[c] = Nothing
    BY <1>2, <1>3 DEF InStep, Explains, Served
  <1>8. held \cup Outside \in SUBSET D /\ r # NoReq /\ IsSeq(Program(r).calls)
    BY <1>3 DEF World, Serves
  <1>9. Len(<<>>) = 0
    OBVIOUS
  <1>10. Recorded(c)'
    BY <1>6, <1>7, <1>9 DEF Recorded
  <1>11. (at'[c] # 0 \/ code'[c] # "none") => Served(c, D)'
    BY <1>6, <1>8 DEF Served
  <1> DEFINE z == [i \in {0} |-> Nothing]
  <1>12. \A calls, t : Chain(calls, t, 0, z) /\ z[0] = Nothing
    BY DEF Chain
  <1> HIDE DEF z
  <1>13. CASE plan'[c].refusal \in Errors /\ Finish(c, plan'[c].refusal, Nothing)
    <2>1. /\ at'[c] = 0 /\ code'[c] = plan'[c].refusal /\ out'[c] = Nothing
          /\ code'[c] \in Errors /\ code'[c] \notin {"none", "00"}
      BY <1>3, <1>13 DEF Finish, TaskShape, MoreShape, Errors
    <2>2. Explained(c)'
      BY <2>1, <1>6, <1>7 DEF Explained
    <2>3. Explains(c, D)'
      BY <2>1, <2>2, <1>10, <1>11 DEF Explains
    <2> QED BY <2>3, <1>0, <1>2, <1>4, <1>5, OneTaskExplained
  <1>14. CASE /\ plan'[c].refusal = "none" /\ plan'[c].calls # <<>>
              /\ at' = [at EXCEPT ![c] = 1] /\ UNCHANGED <<code, out>>
    <2>1. at'[c] = 1 /\ code'[c] = "none"
      BY <1>2, <1>3, <1>14 DEF TaskShape
    <2>2. Len(plan'[c].calls) \in Nat /\ 1 <= Len(plan'[c].calls)
      BY <1>6, <1>8, <1>14, NonEmptyLength
    <2>3. Explained(c)'
      BY <2>1, <2>2, <1>6, <1>7, <1>12 DEF Explained
    <2>4. Explains(c, D)'
      BY <2>1, <2>3, <1>10, <1>11 DEF Explains
    <2> QED BY <2>4, <1>0, <1>2, <1>4, <1>5, OneTaskExplained
  <1>15. CASE /\ plan'[c].refusal = "none" /\ plan'[c].calls = <<>>
              /\ Finish(c, "00", Nothing)
    <2>1. at'[c] = 0 /\ code'[c] = "00" /\ out'[c] = Nothing
      BY <1>3, <1>15 DEF Finish, TaskShape, MoreShape
    <2>2. Explained(c)'
      BY <2>1, <1>9, <1>12, <1>15 DEF Explained
    <2>3. Explains(c, D)'
      BY <2>1, <2>2, <1>10, <1>11 DEF Explains
    <2> QED BY <2>3, <1>0, <1>2, <1>4, <1>5, OneTaskExplained
  <1> QED BY <1>2, <1>13, <1>14, <1>15

(* The frame of an answered call: what it leaves alone, and where it       *)
(* finds the task.                                                         *)
Calling(c) ==
  /\ at[c] > 0
  /\ trace' = [trace EXCEPT ![c] = Append(@, bound)]
  /\ UNCHANGED <<bound, held, req, plan>>

(* What is known of a task whose call is answered.                         *)
LEMMA AtCall ==
  ASSUME NEW D, HInv(D), NEW c \in Conns, Calling(c)
  PROVE  /\ IsSeq(trace[c]) /\ at[c] \in Nat /\ at[c] - 1 \in Nat
         /\ Len(trace[c]) = at[c] - 1 /\ trace'[c] = Append(trace[c], bound)
         /\ IsSeq(trace'[c]) /\ Len(trace'[c]) = at[c] /\ trace'[c][at[c]] = bound
         /\ code[c] = "none" /\ at[c] <= Len(plan[c].calls)
         /\ plan'[c] = plan[c] /\ req'[c] = req[c]
         /\ World(D)' /\ Recorded(c)'
         /\ KeysOf(Current(c)) = KeysUnder(bound, Current(c))
PROOF
  <1>1. InStep(c) /\ TaskShape /\ MoreShape /\ World(D) /\ Explains(c, D)
    BY DEF HInv, IInv
  <1>2. /\ IsSeq(trace[c]) /\ at[c] \in Nat /\ Len(trace[c]) = at[c] - 1
        /\ code[c] = "none" /\ at[c] - 1 \in Nat
    BY <1>1 DEF InStep, Calling
  <1>3. trace'[c] = Append(trace[c], bound)
    BY <1>1 DEF TaskShape, Calling
  <1>4. /\ IsSeq(trace'[c]) /\ Len(trace'[c]) = at[c]
        /\ trace'[c][at[c]] = bound
        /\ \A i \in 1 .. at[c] - 1 : trace'[c][i] = trace[c][i]
    BY <1>2, <1>3, AppendLength, AppendEntries
  <1>5. at[c] <= Len(plan[c].calls)
    BY <1>1 DEF Explains, Explained, Calling
  <1>6. World(D)'
    BY <1>1 DEF World, Calling
  <1>7. Recorded(c)'
    <2> SUFFICES ASSUME NEW i \in 1 .. Len(trace'[c])
                 PROVE  /\ trace'[c][i] \in [Mapped -> Keys]
                        /\ \A x \in Mapped \ Aliases : trace'[c][i][x] = bound[x]
      BY DEF Recorded, Calling
    <2>1. CASE i = at[c]
      BY <2>1, <1>1, <1>4 DEF World
    <2>2. CASE i \in 1 .. at[c] - 1
      BY <2>2, <1>1, <1>2, <1>4 DEF Explains, Recorded
    <2> QED BY <2>1, <2>2, <1>2, <1>4
  <1>8. KeysOf(Current(c)) = KeysUnder(bound, Current(c))
    BY DEF KeysOf, KeysUnder
  <1>9. plan'[c] = plan[c] /\ req'[c] = req[c]
    BY DEF Calling
  <1> QED BY <1>2, <1>3, <1>4, <1>5, <1>6, <1>7, <1>8, <1>9

(* A busy task has a finite number of calls.                               *)
LEMMA CallsCount ==
  ASSUME NEW D, Serves(D), NEW c \in Conns, Served(c, D), at[c] # 0 \/ code[c] # "none"
  PROVE  IsSeq(plan[c].calls) /\ Len(plan[c].calls) \in Nat
PROOF
  <1>1. PICK hold \in SUBSET D : req[c] \in Requests(hold)
    BY DEF Served
  <1>2. plan[c] = Program(req[c]) /\ IsSeq(Program(req[c]).calls)
    BY <1>1 DEF Served, Serves
  <1> QED BY <1>2, NonEmptyLength

(* A call that passes adds a link to the chain.                            *)
LEMMA SuccessExplained ==
  ASSUME NEW D, Serves(D), HInv(D), NEW c \in Conns, CallSucceeds(c), IInv'
  PROVE  HInv(D)'
PROOF
  <1>1. Calling(c) /\ UNCHANGED faulted
    BY DEF CallSucceeds, Calling
  <1>2. PICK res \in Results(Current(c), KeysOf(Current(c)), got[c]) :
          /\ res.v = "ok" /\ Agrees(Current(c), res.out)
          /\ got' = [got EXCEPT ![c] = Left(Current(c), res.out)]
          /\ \/ /\ at[c] < Len(plan[c].calls)
                /\ at' = [at EXCEPT ![c] = @ + 1] /\ UNCHANGED <<code, out>>
             \/ /\ at[c] = Len(plan[c].calls)
                /\ Finish(c, "00", Left(Current(c), res.out))
    BY Zenon DEF CallSucceeds, Left
  <1> DEFINE o == Left(Current(c), res.out)
  <1>3. Passes(Current(c), bound, got[c], o)
    BY <1>1, <1>2, AtCall DEF Passes
  <1> HIDE DEF o
  <1>4. TaskShape /\ MoreShape /\ Explains(c, D)
    BY DEF HInv, IInv
  <1>5. PICK g : Chain(plan[c].calls, trace[c], at[c] - 1, g) /\ got[c] = g[at[c] - 1]
    BY <1>1, <1>4 DEF Explains, Explained, Calling
  <1>6. PICK h : Chain(plan[c].calls, Append(trace[c], bound), at[c], h) /\ h[at[c]] = o
    <2>1. Passes(plan[c].calls[at[c]], bound, g[at[c] - 1], o)
      BY <1>3, <1>5 DEF Current
    <2>2. IsSeq(trace[c]) /\ Len(trace[c]) = at[c] - 1 /\ at[c] \in Nat
      BY <1>1, AtCall
    <2>3. at[c] \in Nat \ {0}
      BY <2>2, <1>1 DEF Calling
    <2>4. ASSUME NEW m \in Nat \ {0}, m = at[c], NEW calls, calls = plan[c].calls,
                 NEW t, t = trace[c], NEW b, b = bound, NEW q, q = o
          PROVE \E h : Chain(calls, Append(t, b), m, h) /\ h[m] = q
      <3>1. IsSeq(t) /\ Len(t) = m - 1
        BY <2>2, <2>4
      <3>2. Chain(calls, t, m - 1, g)
        BY <2>4, <1>5
      <3>3. Passes(calls[m], b, g[m - 1], q)
        BY <2>4, <2>1
      <3> QED BY <3>1, <3>2, <3>3, ChainGoesOn
    <2> QED BY <2>3, <2>4
  <1>7. Chain(plan[c].calls, trace'[c], at[c], h)
    BY <1>1, <1>6, AtCall
  <1>8. MoreShape' /\ SameOthers(c)
    BY <1>1, <1>2, <1>4 DEF MoreShape, TaskShape, Finish, SameOthers, Calling
  <1>9. got'[c] = o
    BY <1>2, <1>4 DEF MoreShape, o
  <1>10. (at'[c] # 0 \/ code'[c] # "none") => Served(c, D)'
    <2>1. Served(c, D) /\ at[c] # 0
      BY <1>1, <1>4, AtCall DEF Explains, Calling
    <2> QED BY <2>1, <1>1, AtCall DEF Served
  <1>11. CASE /\ at[c] < Len(plan[c].calls)
              /\ at' = [at EXCEPT ![c] = @ + 1] /\ UNCHANGED <<code, out>>
    <2>1. at'[c] = at[c] + 1 /\ code'[c] = "none" /\ at'[c] - 1 = at[c] /\ at'[c] # 0
      BY <1>1, <1>4, <1>11, AtCall DEF TaskShape
    <2>2. plan'[c] = plan[c] /\ at'[c] <= Len(plan[c].calls)
      <3>1. at[c] \in Nat /\ plan'[c] = plan[c]
        BY <1>1, AtCall
      <3>2. Len(plan[c].calls) \in Nat
        BY <1>1, <1>4, CallsCount DEF Explains, Calling
      <3> QED BY <3>1, <3>2, <2>1, <1>11
    <2>3. Explained(c)'
      BY <2>1, <2>2, <1>6, <1>7, <1>9 DEF Explained
    <2>4. Explains(c, D)'
      BY <2>1, <2>3, <1>1, <1>10, AtCall DEF Explains
    <2> QED BY <2>4, <1>1, <1>8, AtCall, OneTaskExplained DEF Calling
  <1>12. CASE at[c] = Len(plan[c].calls) /\ Finish(c, "00", o)
    <2>1. at'[c] = 0 /\ code'[c] = "00" /\ out'[c] = o
      BY <1>4, <1>12 DEF Finish, TaskShape, MoreShape
    <2>2. plan'[c] = plan[c]
      BY <1>1, AtCall
    <2>3. Explained(c)'
      BY <2>1, <2>2, <1>6, <1>7, <1>12 DEF Explained
    <2>4. Explains(c, D)'
      BY <2>1, <2>3, <1>1, <1>10, AtCall DEF Explains
    <2> QED BY <2>4, <1>1, <1>8, AtCall, OneTaskExplained DEF Calling
  <1> QED BY <1>2, <1>11, <1>12 DEF o

(* A call that does not pass gives the answer its code.                    *)
LEMMA FailureExplained ==
  ASSUME NEW D, HInv(D), NEW c \in Conns, Calling(c), IInv', NEW cd \in {"01", "41"},
         Finish(c, cd, Nothing), UNCHANGED got, faulted' \in [Conns -> BOOLEAN],
         \A d \in Conns \ {c} : faulted'[d] = faulted[d],
         \/ cd = "01" /\ Mismatches(Current(c), bound, got[c])
         \/ cd = "41" /\ (faulted'[c] \/ Rejects(Current(c), bound, got[c]))
  PROVE  HInv(D)'
PROOF
  <1>1. TaskShape /\ MoreShape /\ Explains(c, D)
    BY DEF HInv, IInv
  <1>2. MoreShape' /\ SameOthers(c)
    BY <1>1 DEF MoreShape, TaskShape, Finish, SameOthers, Calling
  <1>3. at'[c] = 0 /\ code'[c] = cd /\ out'[c] = Nothing /\ cd \in Errors
        /\ cd \notin {"none", "00"}
    BY <1>1 DEF Finish, TaskShape, MoreShape, Errors
  <1>4. Served(c, D)'
    <2>1. Served(c, D) /\ at[c] # 0
      BY <1>1 DEF Explains, Calling
    <2> QED BY <2>1, <1>3, AtCall DEF Served
  <1>5. PICK g : Chain(plan[c].calls, trace[c], at[c] - 1, g) /\ got[c] = g[at[c] - 1]
    BY <1>1 DEF Explains, Explained, Calling
  <1>6. Chain(plan[c].calls, trace'[c], at[c] - 1, g)
    <2> DEFINE n == at[c] - 1
    <2>1. /\ IsSeq(trace[c]) /\ Len(trace[c]) = n /\ n \in Nat
          /\ trace'[c] = Append(trace[c], bound)
      BY AtCall
    <2> HIDE DEF n
    <2>2. Chain(plan[c].calls, Append(trace[c], bound), n, g)
      BY <2>1, <1>5, ChainStays DEF n
    <2> QED BY <2>1, <2>2 DEF n
  <1>7. /\ Len(trace'[c]) = at[c] /\ trace'[c][at[c]] = bound /\ plan'[c] = plan[c]
        /\ at[c] \in 1 .. Len(plan[c].calls)
    <2>1. /\ at[c] \in Nat /\ at[c] <= Len(plan[c].calls) /\ at[c] > 0
          /\ Len(trace'[c]) = at[c] /\ trace'[c][at[c]] = bound /\ plan'[c] = plan[c]
      BY AtCall DEF Calling
    <2> QED BY <2>1
  <1>8. Broken(plan'[c].calls, trace'[c], cd, faulted'[c])
    <2>1. \/ /\ cd = "01"
             /\ Mismatches(plan[c].calls[at[c]], trace'[c][at[c]], g[at[c] - 1])
          \/ /\ cd = "41"
             /\ \/ faulted'[c]
                \/ Rejects(plan[c].calls[at[c]], trace'[c][at[c]], g[at[c] - 1])
      BY <1>5, <1>7 DEF Current
    <2> QED BY <2>1, <1>6, <1>7 DEF Broken
  <1>9. Explained(c)'
    BY <1>3, <1>8 DEF Explained
  <1>10. Explains(c, D)'
    BY <1>4, <1>9, AtCall DEF Explains
  <1> QED BY <1>2, <1>10, AtCall, OneTaskExplained DEF Calling

(* The host takes the answer, which is data of D.                          *)
LEMMA RespondExplained ==
  ASSUME NEW D, Serves(D), HInv(D), NEW c \in Conns, Respond(c) PROVE HInv(D)'
PROOF
  <1>1. IInv'
    BY RespondInStep DEF HInv
  <1>2. InStep(c) /\ TaskShape /\ MoreShape /\ Explains(c, D) /\ World(D)
    BY DEF HInv, IInv
  <1>3. MoreShape' /\ SameOthers(c) /\ bound' = bound
    BY <1>2 DEF MoreShape, TaskShape, SameOthers, Respond
  <1>4. /\ req'[c] = NoReq /\ got'[c] = Nothing /\ trace'[c] = <<>> /\ at'[c] = 0
        /\ code'[c] = "none"
    BY <1>2 DEF MoreShape, TaskShape, Respond, InStep
  <1>5. Explained(c)' /\ Recorded(c)' /\ Served(c, D)'
    BY <1>4 DEF Explained, Recorded, Served
  <1>6. out[c] \in D \cup {Nothing}
    <2>1. CASE code[c] # "00"
      BY <2>1, <1>2 DEF Explains, Explained, Respond
    <2>2. CASE code[c] = "00"
      <3>1. PICK hold \in SUBSET D : req[c] \in Requests(hold)
        BY <2>2, <1>2 DEF Explains, Served
      <3> DEFINE calls == Program(req[c]).calls
      <3>2. plan[c].calls = calls
        BY <2>2, <1>2 DEF Explains, Served
      <3>3. Len(trace[c]) = Len(calls)
        BY <2>2, <1>2, <3>2 DEF InStep
      <3>4. PICK g : Chain(calls, trace[c], Len(calls), g) /\ out[c] = g[Len(calls)]
        BY <2>2, <1>2, <3>2 DEF Explains, Explained
      <3>5. \A i \in 1 .. Len(calls) : trace[c][i] \in [Mapped -> Keys]
        BY <1>2, <3>3 DEF Explains, Recorded
      <3> QED BY <3>1, <3>4, <3>5 DEF Serves
    <2> QED BY <2>1, <2>2
  <1>7. World(D)'
    <2>1. \/ held' = held
          \/ /\ out[c] # Nothing
             /\ \E h \in SUBSET held :
                  Cardinality(h \cup {out[c]}) <= MaxHeld /\ held' = h \cup {out[c]}
      BY DEF Respond
    <2> QED BY <2>1, <1>2, <1>3, <1>6 DEF World
  <1> QED BY <1>1, <1>3, <1>5, <1>7, OneTaskExplained DEF Explains

(* Every step keeps every answer explained.                                *)
LEMMA NextExplained ==
  ASSUME NEW D, Serves(D), HInv(D), [Next]_vars PROVE HInv(D)'
PROOF
  <1>0. IInv' /\ IInv /\ MoreShape /\ TaskShape /\ World(D)
    BY NextInStep DEF HInv, IInv
  <1>1. ASSUME NEW c \in Conns, Receive(c) PROVE HInv(D)'
    BY <1>1, ReceiveExplained
  <1>2. ASSUME NEW c \in Conns, Respond(c) PROVE HInv(D)'
    BY <1>2, RespondExplained
  <1>3. ASSUME NEW c \in Conns, CallSucceeds(c) PROVE HInv(D)'
    BY <1>0, <1>3, SuccessExplained
  <1>4. ASSUME NEW c \in Conns, CallMismatches(c) PROVE HInv(D)'
    <2>1. /\ Calling(c) /\ Finish(c, "01", Nothing) /\ UNCHANGED <<got, faulted>>
      BY <1>4 DEF CallMismatches, Calling
    <2>2. Mismatches(Current(c), bound, got[c])
      BY <1>4, <2>1, AtCall DEF CallMismatches, Mismatches
    <2>3. faulted' \in [Conns -> BOOLEAN] /\ \A d \in Conns \ {c} : faulted'[d] = faulted[d]
      BY <2>1, <1>0 DEF MoreShape
    <2> QED BY <2>1, <2>2, <2>3, <1>0, FailureExplained
  <1>5. ASSUME NEW c \in Conns, CallFails(c) PROVE HInv(D)'
    <2>1. /\ Calling(c) /\ Finish(c, "41", Nothing) /\ UNCHANGED got
      BY <1>5 DEF CallFails, Calling
    <2>2. \/ faulted' = [faulted EXCEPT ![c] = TRUE]
          \/ /\ Rejected \in Results(Current(c), KeysOf(Current(c)), got[c])
             /\ UNCHANGED faulted
      BY <1>5 DEF CallFails
    <2>3. faulted' \in [Conns -> BOOLEAN] /\ \A d \in Conns \ {c} : faulted'[d] = faulted[d]
      BY <2>2, <1>0 DEF MoreShape
    <2>4. faulted'[c] \/ Rejects(Current(c), bound, got[c])
      <3>1. CASE faulted' = [faulted EXCEPT ![c] = TRUE]
        BY <3>1, <1>0 DEF MoreShape
      <3>2. CASE Rejected \in Results(Current(c), KeysOf(Current(c)), got[c])
        BY <3>2, <2>1, AtCall DEF Rejects
      <3> QED BY <2>2, <3>1, <3>2
    <2> QED BY <2>1, <2>3, <2>4, <1>0, FailureExplained
  <1>6. ASSUME NEW x \in Aliases, NEW k \in Keys, Retarget(x, k) PROVE HInv(D)'
    <2>1. /\ UNCHANGED <<held, req, plan, at, got, trace, faulted, code, out>>
          /\ bound' = [bound EXCEPT ![x] = k]
      BY <1>6 DEF Retarget, taskVars
    <2>2. World(D)' /\ \A y \in Mapped \ Aliases : bound'[y] = bound[y]
      BY <2>1, <1>0 DEF World
    <2>3. MoreShape'
      BY <2>1, <1>0 DEF MoreShape
    <2>4. ASSUME NEW c \in Conns PROVE Explains(c, D)'
      BY <2>1, <2>2, OthersExplained DEF HInv
    <2> QED BY <2>2, <2>3, <2>4, <1>0 DEF HInv
  <1>7. ASSUME UNCHANGED vars PROVE HInv(D)'
    <2>1. /\ UNCHANGED <<held, req, plan, at, got, trace, faulted, code, out, bound>>
      BY <1>7 DEF vars, taskVars
    <2>2. ASSUME NEW c \in Conns PROVE Explains(c, D)'
      BY <2>1, OthersExplained DEF HInv
    <2> QED BY <2>1, <2>2, <1>0 DEF HInv, World, MoreShape
  <1> QED BY <1>1, <1>2, <1>3, <1>4, <1>5, <1>6, <1>7 DEF Next

(* TypeOK, for all data D that hosts and handlers stay within.             *)
THEOREM TypesAreKept ==
  ASSUME NEW D, Serves(D) PROVE Spec => []TypeOK
PROOF
  <1>1. Init => HInv(D)
    BY InitExplained
  <1>2. HInv(D) /\ [Next]_vars => HInv(D)'
    BY NextExplained
  <1>3. HInv(D) => TypeOK
    <2> SUFFICES ASSUME HInv(D), NEW c \in Conns
                 PROVE  /\ faulted[c] \in BOOLEAN
                        /\ code[c] \in Errors \cup {"none", "00"}
                        /\ IF req[c] = NoReq \/ code[c] # "none" THEN at[c] = 0
                           ELSE at[c] \in 1 .. Len(plan[c].calls)
      BY DEF TypeOK, HInv, World
    <2>1. MoreShape /\ Explains(c, D) /\ InStep(c)
      BY DEF HInv, IInv
    <2>2. faulted[c] \in BOOLEAN
      BY <2>1 DEF MoreShape
    <2>3. code[c] \in Errors \cup {"none", "00"}
      BY <2>1 DEF Explains, Explained
    <2>4. CASE at[c] = 0
      <3>1. code[c] = "none" => req[c] = NoReq
        BY <2>1, <2>4 DEF Explains, Served
      <3> QED BY <3>1, <2>2, <2>3, <2>4
    <2>5. CASE at[c] > 0
      <3>1. code[c] = "none" /\ req[c] # NoReq /\ at[c] <= Len(plan[c].calls)
        BY <2>1, <2>5 DEF Explains, Served, InStep, Explained
      <3>2. at[c] \in Nat /\ Len(plan[c].calls) \in Nat
        BY <2>1, <2>5, CallsCount DEF Explains, InStep
      <3> QED BY <3>1, <3>2, <2>2, <2>3, <2>5
    <2> QED BY <2>1, <2>4, <2>5 DEF InStep
  <1> QED BY <1>1, <1>2, <1>3, PTL DEF Spec

-------------------------------------------------------------------------------
(* Short sequences.                                                        *)
LEMMA Tuples ==
  /\ \A x : Len(<<x>>) = 1 /\ <<x>>[1] = x /\ IsSeq(<<x>>)
  /\ \A x, y : Len(<<x, y>>) = 2 /\ <<x, y>>[1] = x /\ <<x, y>>[2] = y /\ IsSeq(<<x, y>>)
PROOF
  <1>1. ASSUME NEW x PROVE Len(<<x>>) = 1 /\ <<x>>[1] = x /\ IsSeq(<<x>>)
    <2>1. <<x>> \in Seq({x})
      OBVIOUS
    <2> QED BY <2>1 DEF IsSeq
  <1>2. ASSUME NEW x, NEW y
        PROVE  Len(<<x, y>>) = 2 /\ <<x, y>>[1] = x /\ <<x, y>>[2] = y /\ IsSeq(<<x, y>>)
    <2>1. <<x, y>> \in Seq({x, y})
      OBVIOUS
    <2> QED BY <2>1 DEF IsSeq
  <1> QED BY <1>1, <1>2

(* What the invariant says of a command with no, one or two calls.         *)
Keyed(b) == b \in [Mapped -> Keys]

(* The command that an answered task has served.                           *)
LEMMA ServedCommand ==
  ASSUME NEW D, HInv(D), NEW c \in Conns, code[c] # "none"
  PROVE  /\ \E hold \in SUBSET D : req[c] \in Requests(hold)
         /\ plan[c] = Program(req[c]) /\ Explained(c) /\ Recorded(c) /\ at[c] = 0
         /\ IsSeq(trace[c]) /\ Len(trace[c]) \in Nat
         /\ trace[c] # <<>> => 1 <= Len(trace[c])
         /\ code[c] = "00" => Len(trace[c]) = Len(Program(req[c]).calls)
PROOF
  <1>1. Explains(c, D) /\ InStep(c)
    BY DEF HInv, IInv
  <1>2. /\ \E hold \in SUBSET D : req[c] \in Requests(hold)
        /\ plan[c] = Program(req[c]) /\ Explained(c) /\ Recorded(c) /\ at[c] = 0
        /\ IsSeq(trace[c])
    BY <1>1 DEF Explains, Served, InStep
  <1>3. code[c] = "00" => Len(trace[c]) = Len(Program(req[c]).calls)
    BY <1>1, <1>2 DEF InStep
  <1> QED BY <1>2, <1>3, NonEmptyLength

(* Nothing but 00 and the codes of a call comes after a call, and without  *)
(* a call an error is the plan's refusal.                                  *)
LEMMA NoCall ==
  ASSUME NEW D, HInv(D), NEW c \in Conns, code[c] # "none"
  PROVE  /\ Program(req[c]).calls = <<>> => trace[c] = <<>> /\ out[c] = Nothing
         /\ code[c] \notin {"00", "01", "41"} =>
              trace[c] = <<>> /\ code[c] = Program(req[c]).refusal
         /\ code[c] # "00" => out[c] = Nothing
PROOF
  <1>1. /\ plan[c] = Program(req[c]) /\ Explained(c)
        /\ Len(trace[c]) \in Nat /\ (trace[c] # <<>> => 1 <= Len(trace[c]))
        /\ code[c] = "00" => Len(trace[c]) = Len(Program(req[c]).calls)
    BY ServedCommand
  <1>2. code[c] # "00" =>
          /\ out[c] = Nothing
          /\ \/ trace[c] = <<>> /\ code[c] = plan[c].refusal
             \/ Broken(plan[c].calls, trace[c], code[c], faulted[c])
    BY <1>1 DEF Explained
  <1>3. ASSUME code[c] \notin {"00", "01", "41"}
        PROVE  trace[c] = <<>> /\ code[c] = Program(req[c]).refusal
    BY <1>1, <1>2, <1>3 DEF Broken
  <1>4. ASSUME Program(req[c]).calls = <<>> PROVE trace[c] = <<>> /\ out[c] = Nothing
    <2>1. Len(plan[c].calls) = 0
      BY <1>1, <1>4
    <2>2. CASE code[c] = "00"
      <3>1. PICK g : Chain(plan[c].calls, trace[c], Len(plan[c].calls), g)
                       /\ out[c] = g[Len(plan[c].calls)]
        BY <2>2, <1>1 DEF Explained
      <3> QED BY <3>1, <2>1, <2>2, <1>1 DEF Chain
    <2>3. CASE code[c] # "00"
      <3>1. ~Broken(plan[c].calls, trace[c], code[c], faulted[c])
        BY <2>1 DEF Broken
      <3> QED BY <3>1, <2>3, <1>2
    <2> QED BY <2>2, <2>3
  <1> QED BY <1>2, <1>3, <1>4

(* A command with one call: its keys, and what the answer says of it.      *)
LEMMA OneCall ==
  ASSUME NEW D, HInv(D), NEW c \in Conns, code[c] # "none",
         NEW call, Program(req[c]).calls = <<call>>,
         code[c] = "00" \/ (trace[c] # <<>> /\ ~faulted[c])
  PROVE  /\ Len(trace[c]) = 1 /\ Keyed(trace[c][1])
         /\ \/ code[c] = "00" /\ Passes(call, trace[c][1], Nothing, out[c])
            \/ code[c] = "01" /\ Mismatches(call, trace[c][1], Nothing)
            \/ code[c] = "41" /\ Rejects(call, trace[c][1], Nothing)
PROOF
  <1>1. /\ plan[c] = Program(req[c]) /\ Explained(c) /\ Recorded(c)
        /\ Len(trace[c]) \in Nat /\ (trace[c] # <<>> => 1 <= Len(trace[c]))
        /\ code[c] = "00" => Len(trace[c]) = Len(Program(req[c]).calls)
    BY ServedCommand
  <1>2. Len(plan[c].calls) = 1 /\ plan[c].calls[1] = call
    <2>1. plan[c].calls = <<call>>
      BY <1>1
    <2> QED BY <2>1, Tuples
  <1>3. ASSUME Len(trace[c]) = 1 PROVE Keyed(trace[c][1])
    BY <1>1, <1>3 DEF Recorded, Keyed
  <1>4. CASE code[c] = "00"
    <2>1. PICK g : Chain(plan[c].calls, trace[c], Len(plan[c].calls), g)
                     /\ out[c] = g[Len(plan[c].calls)]
      BY <1>1, <1>4 DEF Explained
    <2>2. Passes(call, trace[c][1], g[0], g[1]) /\ g[0] = Nothing /\ out[c] = g[1]
      BY <2>1, <1>2 DEF Chain
    <2> QED BY <2>2, <1>1, <1>2, <1>3, <1>4
  <1>5. CASE code[c] # "00"
    <2>1. Broken(plan[c].calls, trace[c], code[c], FALSE)
      BY <1>1, <1>5 DEF Explained, Broken
    <2>2. PICK g : /\ Chain(plan[c].calls, trace[c], Len(trace[c]) - 1, g)
                   /\ \/ code[c] = "01" /\ Mismatches(plan[c].calls[Len(trace[c])],
                                             trace[c][Len(trace[c])], g[Len(trace[c]) - 1])
                      \/ code[c] = "41" /\ Rejects(plan[c].calls[Len(trace[c])],
                                             trace[c][Len(trace[c])], g[Len(trace[c]) - 1])
      BY <2>1 DEF Broken
    <2>3. Len(trace[c]) = 1 /\ Len(trace[c]) - 1 = 0
      <3>1. Len(trace[c]) \in 1 .. Len(plan[c].calls)
        BY <2>1 DEF Broken
      <3> QED BY <3>1, <1>2
    <2>4. g[0] = Nothing
      BY <2>2 DEF Chain
    <2> QED BY <2>2, <2>3, <2>4, <1>2, <1>3
  <1> QED BY <1>4, <1>5

(* A command with two calls: after the second both have been made, with    *)
(* keys that differ at aliases only; else the first one gave the code.     *)
LEMMA TwoCalls ==
  ASSUME NEW D, HInv(D), NEW c \in Conns, code[c] # "none",
         NEW call, NEW next, Program(req[c]).calls = <<call, next>>,
         code[c] = "00" \/ (trace[c] # <<>> /\ ~faulted[c])
  PROVE  /\ Keyed(trace[c][1])
         /\ \/ /\ Len(trace[c]) = 2 /\ Keyed(trace[c][2])
               /\ \A x \in Mapped \ Aliases : trace[c][1][x] = trace[c][2][x]
               /\ \E m : /\ Passes(call, trace[c][1], Nothing, m)
                         /\ code[c] = "00" => Passes(next, trace[c][2], m, out[c])
            \/ /\ Len(trace[c]) = 1 /\ code[c] # "00"
               /\ \/ Mismatches(call, trace[c][1], Nothing)
                  \/ Rejects(call, trace[c][1], Nothing)
PROOF
  <1>1. /\ plan[c] = Program(req[c]) /\ Explained(c) /\ Recorded(c)
        /\ Len(trace[c]) \in Nat /\ (trace[c] # <<>> => 1 <= Len(trace[c]))
        /\ code[c] = "00" => Len(trace[c]) = Len(Program(req[c]).calls)
    BY ServedCommand
  <1>2. Len(plan[c].calls) = 2 /\ plan[c].calls[1] = call /\ plan[c].calls[2] = next
    <2>1. plan[c].calls = <<call, next>>
      BY <1>1
    <2> QED BY <2>1, Tuples
  <1>3. /\ 1 <= Len(trace[c]) => Keyed(trace[c][1])
        /\ Len(trace[c]) = 2 =>
             /\ Keyed(trace[c][2])
             /\ \A x \in Mapped \ Aliases : trace[c][1][x] = trace[c][2][x]
    BY <1>1 DEF Recorded, Keyed
  <1>4. CASE code[c] = "00"
    <2>1. PICK g : Chain(plan[c].calls, trace[c], Len(plan[c].calls), g)
                     /\ out[c] = g[Len(plan[c].calls)]
      BY <1>1, <1>4 DEF Explained
    <2>2. /\ Passes(call, trace[c][1], g[0], g[1]) /\ g[0] = Nothing
          /\ Passes(next, trace[c][2], g[1], g[2]) /\ out[c] = g[2]
      <3>1. 2 - 1 = 1 /\ 1 - 1 = 0 /\ 1 \in 1 .. 2 /\ 2 \in 1 .. 2
        OBVIOUS
      <3> QED BY <3>1, <2>1, <1>2 DEF Chain
    <2>3. Len(trace[c]) = 2
      BY <1>1, <1>2, <1>4
    <2> QED BY <2>2, <2>3, <1>3, <1>4
  <1>5. CASE code[c] # "00"
    <2>1. Broken(plan[c].calls, trace[c], code[c], FALSE)
      BY <1>1, <1>5 DEF Explained, Broken
    <2>2. PICK g : /\ Chain(plan[c].calls, trace[c], Len(trace[c]) - 1, g)
                   /\ \/ Mismatches(plan[c].calls[Len(trace[c])],
                                    trace[c][Len(trace[c])], g[Len(trace[c]) - 1])
                      \/ Rejects(plan[c].calls[Len(trace[c])],
                                 trace[c][Len(trace[c])], g[Len(trace[c]) - 1])
      BY <2>1 DEF Broken
    <2>3. Len(trace[c]) \in {1, 2}
      <3>1. Len(trace[c]) \in 1 .. Len(plan[c].calls)
        BY <2>1 DEF Broken
      <3> QED BY <3>1, <1>2
    <2>4. CASE Len(trace[c]) = 1
      <3>1. Len(trace[c]) - 1 = 0 /\ g[0] = Nothing
        BY <2>2, <2>4 DEF Chain
      <3> QED BY <3>1, <2>2, <2>4, <1>2, <1>3, <1>5
    <2>5. CASE Len(trace[c]) = 2
      <3>1. Passes(call, trace[c][1], g[0], g[1]) /\ g[0] = Nothing
        <4>1. Len(trace[c]) - 1 = 1 /\ 1 - 1 = 0 /\ 1 \in 1 .. 1
          BY <2>5
        <4> QED BY <4>1, <2>2, <1>2 DEF Chain
      <3> QED BY <3>1, <2>5, <1>3, <1>5
    <2> QED BY <2>3, <2>4, <2>5
  <1> QED BY <1>4, <1>5

-------------------------------------------------------------------------------
(* Plans: no refusal applies to a command whose calls are made.            *)
Clears(rs) == \A i \in DOMAIN rs : ~rs[i].bad
Refusals(rs) == IsSeq(rs) /\ \A i \in DOMAIN rs : rs[i].code \in Errors

(* A set of numbers has a least one.                                       *)
LEMMA LeastOf ==
  ASSUME NEW S \in SUBSET Nat, S # {}
  PROVE  \E x \in S : \A y \in S : x <= y
PROOF
  <1>1. PICK x \in S : \A y \in S : ~ (<<y, x>> \in OpToRel(<, Nat))
    BY WFMin, NatLessThanWellFounded
  <1>2. ASSUME NEW y \in S PROVE x <= y
    <2>1. ~ (<<y, x>> \in OpToRel(<, Nat))
      BY <1>1
    <2>2. ~ (y < x)
      BY <2>1 DEF OpToRel
    <2>3. x \in Nat /\ y \in Nat
      OBVIOUS
    <2> QED BY <2>2, <2>3
  <1> QED BY <1>2

(* The first refusal that applies is one of them.                          *)
LEMMA FirstRefusal ==
  ASSUME NEW rs, Refusals(rs)
  PROVE  IF Clears(rs) THEN Refusal(rs) = "none"
         ELSE \E i \in DOMAIN rs : rs[i].bad /\ Refusal(rs) = rs[i].code
PROOF
  <1> DEFINE hits == {i \in DOMAIN rs : rs[i].bad}
  <1>1. CASE hits = {}
    BY <1>1 DEF Refusal, Clears
  <1>2. CASE hits # {}
    <2>1. hits \subseteq Nat
      <3>1. PICK S : rs \in Seq(S)
        BY DEF Refusals, IsSeq
      <3> QED BY <3>1
    <2> HIDE DEF hits
    <2>2. hits \in SUBSET Nat /\ hits # {}
      BY <1>2, <2>1
    <2>3. \E x \in hits : \A y \in hits : x <= y
      BY <2>2, LeastOf
    <2>4. PICK i \in hits : i = CHOOSE x \in hits : \A y \in hits : x <= y
      BY <2>3
    <2>5. Refusal(rs) = rs[i].code
      BY <1>2, <2>4 DEF Refusal, hits
    <2> QED BY <2>4, <2>5 DEF Clears, hits
  <1> QED BY <1>1, <1>2

(* A plan with calls has no refusal; a refusal is one that applies.        *)
LEMMA PlanOf ==
  ASSUME NEW rs, Refusals(rs), NEW calls
  PROVE  /\ Clears(rs) => Plan(rs, calls) = [refusal |-> "none", calls |-> calls]
         /\ ~Clears(rs) =>
              /\ Plan(rs, calls).calls = <<>>
              /\ \E i \in DOMAIN rs : rs[i].bad /\ Plan(rs, calls).refusal = rs[i].code
PROOF
  <1>1. "none" \notin Errors
    BY DEF Errors
  <1>2. \A i \in DOMAIN rs : rs[i].code # "none"
    BY <1>1 DEF Refusals
  <1> QED BY <1>2, FirstRefusal DEF Plan

(* Lists of refusals are put together from short ones.                     *)
LEMMA RefusalsJoin ==
  ASSUME NEW a, NEW b, Refusals(a), Refusals(b)
  PROVE  Refusals(a \o b) /\ (Clears(a \o b) <=> Clears(a) /\ Clears(b))
PROOF
  <1>1. PICK S : a \in Seq(S)
    BY DEF Refusals, IsSeq
  <1>2. PICK T : b \in Seq(T)
    BY DEF Refusals, IsSeq
  <1>3. a \in Seq(S \cup T) /\ b \in Seq(S \cup T)
    BY <1>1, <1>2
  <1> DEFINE ab == a \o b
  <1>4. ab \in Seq(S \cup T) /\ Len(ab) = Len(a) + Len(b)
        /\ Len(a) \in Nat /\ Len(b) \in Nat
    BY <1>3
  <1>5. /\ \A i \in 1 .. Len(a) : ab[i] = a[i]
        /\ \A i \in 1 .. Len(b) : ab[Len(a) + i] = b[i]
    BY <1>3
  <1>6. \A i \in 1 .. Len(ab) :
          i \in 1 .. Len(a) \/ (i - Len(a) \in 1 .. Len(b) /\ i = Len(a) + (i - Len(a)))
    BY <1>4
  <1>7. DOMAIN a = 1 .. Len(a) /\ DOMAIN b = 1 .. Len(b) /\ DOMAIN ab = 1 .. Len(ab)
    BY <1>3, <1>4
  <1> HIDE DEF ab
  <1>8. \A i \in 1 .. Len(b) : Len(a) + i \in 1 .. Len(ab)
    BY <1>4
  <1>9. \A i \in 1 .. Len(a) : i \in 1 .. Len(ab)
    BY <1>4
  <1>10. Refusals(ab)
    <2>1. ASSUME NEW i \in 1 .. Len(ab) PROVE ab[i].code \in Errors
      <3>1. CASE i \in 1 .. Len(a)
        BY <3>1, <1>5, <1>7 DEF Refusals
      <3>2. CASE i - Len(a) \in 1 .. Len(b) /\ i = Len(a) + (i - Len(a))
        <4>1. ab[i] = b[i - Len(a)]
          BY <3>2, <1>5
        <4> QED BY <4>1, <3>2, <1>7 DEF Refusals
      <3> QED BY <3>1, <3>2, <1>6
    <2>2. IsSeq(ab)
      BY <1>4 DEF IsSeq
    <2> QED BY <2>1, <2>2, <1>7 DEF Refusals
  <1>11. Clears(ab) => Clears(a) /\ Clears(b)
    BY <1>5, <1>7, <1>8, <1>9 DEF Clears
  <1>12. ASSUME Clears(a), Clears(b) PROVE Clears(ab)
    <2>1. ASSUME NEW i \in 1 .. Len(ab) PROVE ~ab[i].bad
      <3>1. CASE i \in 1 .. Len(a)
        BY <3>1, <1>5, <1>7, <1>12 DEF Clears
      <3>2. CASE i - Len(a) \in 1 .. Len(b) /\ i = Len(a) + (i - Len(a))
        <4>1. ab[i] = b[i - Len(a)]
          BY <3>2, <1>5
        <4> QED BY <4>1, <3>2, <1>7, <1>12 DEF Clears
      <3> QED BY <3>1, <3>2, <1>6
    <2> QED BY <2>1, <1>7 DEF Clears
  <1> QED BY <1>10, <1>11, <1>12 DEF ab

(* Short lists of refusals.                                                *)
LEMMA Refuse1 ==
  ASSUME NEW b1, NEW c1 \in Errors
  PROVE  Refusals(<<Refuse(b1, c1)>>) /\ (Clears(<<Refuse(b1, c1)>>) <=> ~b1)
PROOF BY Tuples DEF Refusals, Clears, Refuse

(* As before, of 2 refusals.                                               *)
LEMMA Refuse2 ==
  ASSUME NEW b1, NEW c1 \in Errors, NEW b2, NEW c2 \in Errors
  PROVE  LET s == <<Refuse(b1, c1), Refuse(b2, c2)>> IN
         Refusals(s) /\ (Clears(s) <=> ~b1 /\ ~b2)
PROOF
  <1> DEFINE s == <<Refuse(b1, c1), Refuse(b2, c2)>>
             t == <<Refuse(b2, c2)>>
  <1>1. s = <<Refuse(b1, c1)>> \o t
    OBVIOUS
  <1>2. Refusals(t) /\ (Clears(t) <=> ~b2)
    BY Refuse1
  <1>3. Refusals(<<Refuse(b1, c1)>>) /\ (Clears(<<Refuse(b1, c1)>>) <=> ~b1)
    BY Refuse1
  <1> HIDE DEF s, t
  <1>4. Refusals(s) /\ (Clears(s) <=> ~b1 /\ ~b2)
    BY <1>1, <1>2, <1>3, RefusalsJoin
  <1> QED BY <1>4 DEF s

(* As before, of 3 refusals.                                               *)
LEMMA Refuse3 ==
  ASSUME NEW b1, NEW c1 \in Errors, NEW b2, NEW c2 \in Errors, NEW b3, NEW c3
         \in Errors
  PROVE  LET s == <<Refuse(b1, c1), Refuse(b2, c2), Refuse(b3, c3)>> IN
         Refusals(s) /\ (Clears(s) <=> ~b1 /\ ~b2 /\ ~b3)
PROOF
  <1> DEFINE s == <<Refuse(b1, c1), Refuse(b2, c2), Refuse(b3, c3)>>
             t == <<Refuse(b2, c2), Refuse(b3, c3)>>
  <1>1. s = <<Refuse(b1, c1)>> \o t
    OBVIOUS
  <1>2. Refusals(t) /\ (Clears(t) <=> ~b2 /\ ~b3)
    BY Refuse2
  <1>3. Refusals(<<Refuse(b1, c1)>>) /\ (Clears(<<Refuse(b1, c1)>>) <=> ~b1)
    BY Refuse1
  <1> HIDE DEF s, t
  <1>4. Refusals(s) /\ (Clears(s) <=> ~b1 /\ ~b2 /\ ~b3)
    BY <1>1, <1>2, <1>3, RefusalsJoin
  <1> QED BY <1>4 DEF s

(* The codes that handlers refuse with.                                    *)
LEMMA Codes == {"10", "15", "23", "68"} \subseteq Errors
PROOF BY DEF Errors

(* Refusals of malformed frames, two and three in a row.                   *)
LEMMA Malformed2 ==
  ASSUME NEW b1, NEW b2
  PROVE  LET s == <<Malformed(b1), Malformed(b2)>> IN
         Refusals(s) /\ (Clears(s) <=> ~b1 /\ ~b2)
PROOF
  <1>1. "15" \in Errors
    BY Codes
  <1>2. LET s == <<Refuse(b1, "15"), Refuse(b2, "15")>> IN
        Refusals(s) /\ (Clears(s) <=> ~b1 /\ ~b2)
    BY <1>1, Refuse2
  <1>3. Malformed(b1) = Refuse(b1, "15") /\ Malformed(b2) = Refuse(b2, "15")
    BY Zenon DEF Malformed
  <1> QED BY <1>2, <1>3, Zenon

LEMMA Malformed3 ==
  ASSUME NEW b1, NEW b2, NEW b3
  PROVE  LET s == <<Malformed(b1), Malformed(b2), Malformed(b3)>> IN
         Refusals(s) /\ (Clears(s) <=> ~b1 /\ ~b2 /\ ~b3)
PROOF
  <1>1. "15" \in Errors
    BY Codes
  <1>2. LET s == <<Refuse(b1, "15"), Refuse(b2, "15"), Refuse(b3, "15")>> IN
        Refusals(s) /\ (Clears(s) <=> ~b1 /\ ~b2 /\ ~b3)
    BY <1>1, Refuse3
  <1>3. /\ Malformed(b1) = Refuse(b1, "15") /\ Malformed(b2) = Refuse(b2, "15")
        /\ Malformed(b3) = Refuse(b3, "15")
    BY Zenon DEF Malformed
  <1> QED BY <1>2, <1>3, Zenon

(* The keys that a command needs.                                          *)
LEMMA KeyRefusals ==
  /\ \A x : Refusals(<<Unmapped(x)>>) /\ (Clears(<<Unmapped(x)>>) <=> x \in Mapped)
  /\ \A r : /\ Refusals(BothKeys(r))
            /\ Clears(BothKeys(r)) <=> r.key \in Mapped /\ r.key2 \in Mapped
PROOF
  <1>1. "10" \in Errors
    BY Codes
  <1>2. ASSUME NEW x
        PROVE  Refusals(<<Unmapped(x)>>) /\ (Clears(<<Unmapped(x)>>) <=> x \in Mapped)
    BY <1>1, Refuse1 DEF Unmapped
  <1>3. ASSUME NEW r
        PROVE  /\ Refusals(BothKeys(r))
               /\ Clears(BothKeys(r)) <=> r.key \in Mapped /\ r.key2 \in Mapped
    BY <1>1, Refuse2, Zenon DEF Unmapped, BothKeys
  <1> QED BY <1>2, <1>3

(* Where only the later refusals apply, the code is theirs.                *)
LEMMA RefusedLater ==
  ASSUME NEW a, NEW b, Refusals(a), Refusals(b), Clears(a), ~Clears(b),
         NEW cd, \A i \in DOMAIN b : b[i].code = cd, NEW calls
  PROVE  Plan(a \o b, calls).refusal = cd
PROOF
  <1> DEFINE ab == a \o b
  <1>1. PICK i \in DOMAIN ab : ab[i].bad /\ Plan(ab, calls).refusal = ab[i].code
    BY RefusalsJoin, PlanOf
  <1>2. PICK S : a \in Seq(S)
    BY DEF Refusals, IsSeq
  <1>3. PICK T : b \in Seq(T)
    BY DEF Refusals, IsSeq
  <1>4. a \in Seq(S \cup T) /\ b \in Seq(S \cup T)
    BY <1>2, <1>3
  <1>5. \/ i \in DOMAIN a /\ ab[i] = a[i]
        \/ i - Len(a) \in DOMAIN b /\ ab[i] = b[i - Len(a)]
    BY <1>4
  <1> HIDE DEF ab
  <1>6. ab[i].code = cd
    BY <1>1, <1>5 DEF Clears
  <1> QED BY <1>1, <1>6 DEF ab

-------------------------------------------------------------------------------
(* Handlers that make at most two calls stay within D if what the last     *)
(* call leaves does, whatever keys the calls find.                         *)
Closes(calls, D) ==
  \/ calls = <<>>
  \/ \E call :
       /\ calls = <<call>>
       /\ \A b, o : Keyed(b) /\ Passes(call, b, Nothing, o) => o \in D \cup {Nothing}
  \/ \E call, next :
       /\ calls = <<call, next>>
       /\ \A b, e, m, o :
            /\ Keyed(b) /\ Keyed(e)
            /\ Passes(call, b, Nothing, m) /\ Passes(next, e, m, o)
            => o \in D \cup {Nothing}

(* So they do, as the answer is what the last call leaves.                 *)
LEMMA ClosedCalls ==
  ASSUME NEW D, NEW calls, Closes(calls, D)
  PROVE  /\ IsSeq(calls)
         /\ \A t, g :
              /\ \A i \in 1 .. Len(calls) : t[i] \in [Mapped -> Keys]
              /\ Chain(calls, t, Len(calls), g)
              => g[Len(calls)] \in D \cup {Nothing}
PROOF
  <1>1. CASE calls = <<>>
    <2>1. IsSeq(calls) /\ Len(calls) = 0
      BY <1>1, EmptyIsSeq
    <2> QED BY <2>1 DEF Chain
  <1>2. ASSUME NEW call, calls = <<call>>,
               \A b, o : Keyed(b) /\ Passes(call, b, Nothing, o) => o \in D \cup {Nothing}
        PROVE  /\ IsSeq(calls)
               /\ \A t, g :
                    /\ \A i \in 1 .. Len(calls) : t[i] \in [Mapped -> Keys]
                    /\ Chain(calls, t, Len(calls), g)
                    => g[Len(calls)] \in D \cup {Nothing}
    <2>1. IsSeq(calls) /\ Len(calls) = 1 /\ calls[1] = call
      BY <1>2, Tuples
    <2>2. ASSUME NEW t, NEW g, Chain(calls, t, 1, g)
          PROVE  Passes(call, t[1], Nothing, g[1])
      <3>1. 1 - 1 = 0 /\ 1 \in 1 .. 1
        OBVIOUS
      <3> QED BY <2>1, <2>2, <3>1 DEF Chain
    <2>3. 1 \in 1 .. 1
      OBVIOUS
    <2> QED BY <2>1, <2>2, <2>3, <1>2 DEF Keyed
  <1>3. ASSUME NEW call, NEW next, calls = <<call, next>>,
               \A b, e, m, o :
                 /\ Keyed(b) /\ Keyed(e)
                 /\ Passes(call, b, Nothing, m) /\ Passes(next, e, m, o)
                 => o \in D \cup {Nothing}
        PROVE  /\ IsSeq(calls)
               /\ \A t, g :
                    /\ \A i \in 1 .. Len(calls) : t[i] \in [Mapped -> Keys]
                    /\ Chain(calls, t, Len(calls), g)
                    => g[Len(calls)] \in D \cup {Nothing}
    <2>1. IsSeq(calls) /\ Len(calls) = 2 /\ calls[1] = call /\ calls[2] = next
      BY <1>3, Tuples
    <2>2. ASSUME NEW t, NEW g, Chain(calls, t, 2, g)
          PROVE  Passes(call, t[1], Nothing, g[1]) /\ Passes(next, t[2], g[1], g[2])
      <3>1. 2 - 1 = 1 /\ 1 - 1 = 0 /\ 1 \in 1 .. 2 /\ 2 \in 1 .. 2
        OBVIOUS
      <3> QED BY <2>1, <2>2, <3>1 DEF Chain
    <2>3. 1 \in 1 .. 2 /\ 2 \in 1 .. 2
      OBVIOUS
    <2> QED BY <2>1, <2>2, <2>3, <1>3 DEF Keyed
  <1> QED BY <1>1, <1>2, <1>3, Zenon DEF Closes

(* What to show of a family of handlers.                                   *)
LEMMA ClosedFamily ==
  ASSUME NEW D, Outside \subseteq D,
         \A hold \in SUBSET D : \A r \in Requests(hold) :
           r # NoReq /\ Closes(Program(r).calls, D)
  PROVE  Serves(D)
PROOF
  <1>1. ASSUME NEW hold \in SUBSET D, NEW r \in Requests(hold)
        PROVE  r # NoReq /\ Closes(Program(r).calls, D)
    OBVIOUS
  <1> QED BY <1>1, ClosedCalls, Zenon DEF Serves

(* A plan has calls or a refusal, not both.                                *)
LEMMA CallsOrRefusal ==
  ASSUME NEW rs, NEW calls
  PROVE  LET p == Plan(rs, calls) IN
         IF p.refusal = "none" THEN p.calls = calls ELSE p.calls = <<>>
PROOF BY DEF Plan

(* The plan of an answer 00 has no refusal.                                *)
LEMMA OkNotRefused ==
  ASSUME NEW D, HInv(D), NEW c \in Conns, code[c] = "00"
  PROVE  Program(req[c]).refusal = "none"
PROOF
  <1>1. plan[c] = Program(req[c])
    BY ServedCommand
  <1>2. InStep(c)
    BY DEF HInv, IInv
  <1> QED BY <1>1, <1>2 DEF InStep

-------------------------------------------------------------------------------
(* A datum is what its fields are.                                         *)
LEMMA DataFieldsDecide ==
  ASSUME NEW d \in Data, NEW kind, NEW key, NEW alg, NEW of, NEW n
  PROVE  d = Datum(kind, key, alg, of, n) <=>
           d.kind = kind /\ d.key = key /\ d.alg = alg /\ d.of = of /\ d.len = n
PROOF BY DEF Data, Datum

===============================================================================
