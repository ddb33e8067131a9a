-------------------------------- MODULE Verify --------------------------------
(***************************************************************************)
(* --verify-only (verify.rs) with its probe of the HSM (hsm_probe.rs), and *)
(* the start of the server after it (main.rs, server::run_with up to the   *)
(* listener).  Keys of the service and files change while it runs; the HSM *)
(* may refuse, answer for somebody else, or close in the middle of a reply.*)
(***************************************************************************)
EXTENDS ThalesFraming, Registry

CONSTANTS
  Labels, Mapping,      \* labels of key_mappings -> identifier at the service
  Form,                 \* of a label: "block", "variant", or "label"
  TypeCode,             \* key type under which the HSM can decrypt a label
  LmkKcv,               \* and the check value that it then prints
  Keys,                 \* states of a key at the service
  Configs,              \* proxy.yaml, with the labels that it maps
  Damages,              \* what is wrong with the files at first
  MaxChanges            \* bound on the operators' steps

NoLabel == "no label"
Identifiers == {Mapping[l] : l \in Labels}

VARIABLES
  cfg, files,
  svc,                  \* identifier -> key of the service
  pc, hsm,              \* stage of run; the probe's leg is Some
  cur, cand,            \* label that is probed and index of its candidate
  per_arn_checked,      \* identifier -> KeyCheck
  line,                 \* label -> its line in the report
  errors, warnings,     \* the other lines of the report
  registry, refusal,    \* of the started server
  touched, changes,     \* history: what changed after it was looked at
  disturbed             \* history: labels with a reply that was not their own

runVars == <<pc, hsm, cur, cand, per_arn_checked, line, errors, warnings>>
worldVars == <<files, svc, touched, changes, disturbed>>
vars == <<cfg, runVars, worldVars, registry, refusal>>

-------------------------------------------------------------------------------
(* hsm_probe.rs.  ASCII.                                                   *)
PROBE_HEADER == <<80, 66>>
BU == <<66, 85>>
BV == <<66, 86>>
CodeOk == <<48, 48>>
CodeDisabled == <<54, 56>>
CodeParity == <<49, 48>>

(* Key types that are tried in turn; a key block needs none.               *)
KeyTypes == {"FF", "00", "01", "02", "03"}

bu_candidates(l) ==
  CASE Form[l] = "block" -> <<"FF">>
    [] Form[l] = "variant" -> <<"01", "02", "03", "00">>
    [] Form[l] = "label" -> << >>

to_ascii_uppercase(s) ==
  [i \in DOMAIN s |-> IF s[i] \in 97 .. 122 THEN s[i] - 32 ELSE s[i]]

(* Mutant: three bytes are taken for three digits.                         *)
BugMatchesThreeDigits(apc, kcv) ==
  to_ascii_uppercase(SubSeq(apc, 1, 3)) = to_ascii_uppercase(SubSeq(kcv, 1, 3))

kcv_matches(apc, kcv) ==
  LET short == IF Len(apc) < Len(kcv) THEN Len(apc) ELSE Len(kcv)
      n == IF short < 6 THEN short ELSE 6
  IN /\ n > 0
     /\ to_ascii_uppercase(SubSeq(apc, 1, n)) = to_ascii_uppercase(SubSeq(kcv, 1, n))

HexDigits == (48 .. 57) \cup (65 .. 70)
Spaces == {32} \cup (9 .. 13)

trim_end(s) ==
  LET kept == {n \in 0 .. Len(s) : \A i \in n + 1 .. Len(s) : s[i] \in Spaces}
  IN SubSeq(s, 1, CHOOSE n \in kept : \A k \in kept : n <= k)

BvParse(tag, kcv) == [tag |-> tag, kcv |-> kcv]

KcvField(field) ==
  LET kcv == to_ascii_uppercase(trim_end(field))
  IN IF Len(kcv) \in {6, 16} /\ \A i \in DOMAIN kcv : kcv[i] \in HexDigits
     THEN BvParse("Kcv", kcv)
     ELSE BvParse("Malformed", << >>)

(* The HSM prints 6 or 16 digits, and blanks after them.                   *)
Printed(s) ==
  \E n \in {6, 16} :
    /\ n <= Len(s) /\ trim_end(s) = SubSeq(s, 1, n)
    /\ \A i \in 1 .. n : to_ascii_uppercase(s)[i] \in HexDigits

Usable(key) == key.state = "CREATE_COMPLETE" /\ key.enabled

FileStates == {"good", "bad", "missing"}

ASSUME ConfigAssumption ==
  /\ NoLabel \notin Labels
  /\ \A c \in Configs :
       /\ c.labels \subseteq Labels
       /\ c.discover \in {"none", "plain", "tls", "mtls", "cert only", "key only"}
  /\ \A l \in Labels : Form[l] \in {"block", "variant", "label"}
  /\ \A d \in Damages : \A f \in DOMAIN d : d[f] \in FileStates

ASSUME CheckValueAssumption ==
  /\ \A l \in Labels :
       /\ LmkKcv[l] \in Seq(Bytes) /\ 6 + Len(LmkKcv[l]) < Radix * Radix
       /\ Printed(LmkKcv[l])
  /\ \A key \in Keys : key.kcv \in Seq(Bytes) /\ (Usable(key) => Len(key.kcv) = 6)

(* Mutant: the header of the reply is not compared.                        *)
BugParseAnyHeader(resp) ==
  IF ~Parses(resp) \/ parse(resp).code # BV \/ Len(parse(resp).payload) < 2
  THEN BvParse("Malformed", << >>)
  ELSE IF SubSeq(parse(resp).payload, 1, 2) # CodeOk
       THEN BvParse(IF SubSeq(parse(resp).payload, 1, 2) = CodeDisabled
                    THEN "Disabled" ELSE "Error", << >>)
       ELSE KcvField(SubSeq(parse(resp).payload, 3, Len(parse(resp).payload)))

parse_bv(resp) ==
  LET parsed == parse(resp)
      error_code == SubSeq(parsed.payload, 1, 2)
  IN IF ~Parses(resp) \/ parsed.header # PROBE_HEADER \/ parsed.code # BV
          \/ Len(parsed.payload) < 2
     THEN BvParse("Malformed", << >>)
     ELSE IF error_code # CodeOk
          THEN BvParse(IF error_code = CodeDisabled THEN "Disabled" ELSE "Error", << >>)
          ELSE KcvField(SubSeq(parsed.payload, 3, Len(parsed.payload)))

-------------------------------------------------------------------------------
(* The HSM, external.  It prints a check value for the key's own type, and *)
(* a wrong type fails the parity of the key.                               *)
Says(l, type) ==
  IF type \in {"FF", TypeCode[l]}
  THEN frame_response(PROBE_HEADER, response_code(BU), CodeOk, LmkKcv[l])
  ELSE frame_error(PROBE_HEADER, BU, CodeParity)

(* Replies that were meant for another client, or for another command.     *)
Strays ==
  UNION {{frame_response(<<48, 48>>, response_code(BU), CodeOk, LmkKcv[l]),
          frame_response(PROBE_HEADER, response_code(<<67, 65>>), CodeOk, LmkKcv[l])} :
           l \in Labels}

(* What an exchange returns: a whole reply, possibly with bytes after it,  *)
(* or what came before the HSM closed.                                     *)
Replies(l, type) ==
  {Says(l, type), Says(l, type) \o <<48>>, frame_error(PROBE_HEADER, BU, CodeDisabled)}
    \cup {cut \in {SubSeq(Says(l, type), 1, n) : n \in 0 .. Len(Says(l, type))} :
            ~is_response_complete(cut)}
    \cup Strays

Heard == [l \in Labels |-> [type \in KeyTypes |-> Replies(l, type)]]

-------------------------------------------------------------------------------
(* verify.rs                                                               *)
KeyCheck(tag, kcv) == [tag |-> tag, kcv |-> kcv]
NotChecked == KeyCheck("none", << >>)
ApiError == KeyCheck("ApiError", << >>)

(* Mutant: a key is taken for usable once it exists.                       *)
BugCheckSkipsEnabled(key) ==
  IF key.state = "missing" THEN KeyCheck("NotFound", << >>)
  ELSE IF key.state # "CREATE_COMPLETE" THEN KeyCheck("WrongState", << >>)
  ELSE KeyCheck("Ok", key.kcv)

check_one_key(key) ==
  IF key.state = "missing" THEN KeyCheck("NotFound", << >>)
  ELSE IF key.state # "CREATE_COMPLETE" THEN KeyCheck("WrongState", << >>)
  ELSE IF ~key.enabled THEN KeyCheck("Disabled", << >>)
  ELSE KeyCheck("Ok", key.kcv)

(* Files that the configuration names.                                     *)
ListenFiles ==
  IF cfg.listen = "plain" THEN {}
  ELSE {"cert", "key"} \cup (IF cfg.listen = "mtls" THEN {"ca"} ELSE {})

ForwardFiles ==
  CASE cfg.discover \in {"none", "plain"} -> {}
    [] cfg.discover = "tls" -> {"hsm_ca"}
    [] cfg.discover = "mtls" -> {"hsm_ca", "hsm_cert", "hsm_key"}
    [] cfg.discover = "cert only" -> {"hsm_ca", "hsm_cert"}
    [] cfg.discover = "key only" -> {"hsm_ca", "hsm_key"}

HalfPair == cfg.discover \in {"cert only", "key only"}

(* hsm_client.rs: the client for the HSM can be built.                     *)
from_discover == ~HalfPair /\ \A f \in ForwardFiles : files[f] = "good"

(* server.rs: the acceptor for hosts can be built.                         *)
build_tls_config == \A f \in ListenFiles : files[f] = "good"

Init ==
  /\ cfg \in Configs /\ svc \in [Identifiers -> Keys]
  /\ files \in {[f \in ListenFiles \cup ForwardFiles |->
                  IF f \in DOMAIN d THEN d[f] ELSE "good"] : d \in Damages}
  /\ pc = "creds" /\ hsm = FALSE
  /\ cur = NoLabel /\ cand = 0
  /\ per_arn_checked = [i \in Identifiers |-> NotChecked]
  /\ line = [l \in cfg.labels |-> "none"] /\ errors = {} /\ warnings = {}
  /\ registry = << >> /\ refusal = "none"
  /\ touched = {} /\ changes = 0 /\ disturbed = {}

(* Without credentials the report ends there.                              *)
Credentials(resolved) ==
  /\ pc = "creds"
  /\ pc' = IF resolved THEN "scan" ELSE "done"
  /\ errors' = IF resolved THEN errors ELSE errors \cup {"credentials"}
  /\ UNCHANGED <<cfg, hsm, cur, cand, per_arn_checked, line, warnings, worldVars,
                 registry, refusal>>

(* A failed inventory scan is a warning; then hsm_probe_target decides     *)
(* whether the HSM is asked.                                               *)
probed == cfg.discover # "none" /\ cfg.vendor = "thales_payshield"

Scan(succeeds) ==
  /\ pc = "scan" /\ pc' = "keys"
  /\ hsm' = (probed /\ from_discover)
  /\ errors' = IF probed /\ ~from_discover THEN errors \cup {"discover.tls"} ELSE errors
  /\ warnings' = warnings \cup (IF succeeds THEN {} ELSE {"scan"})
                   \cup (IF cfg.discover # "none" /\ ~probed THEN {"vendor"} ELSE {})
  /\ UNCHANGED <<cfg, cur, cand, per_arn_checked, line, worldVars, registry, refusal>>

(* The line of a label whose KeyCheck is there: a probe follows, or not.   *)
Judge(l, check) ==
  LET probing == check.tag = "Ok" /\ hsm /\ bu_candidates(l) # << >>
  IN /\ pc' = IF probing THEN "probe" ELSE "keys"
     /\ cur' = IF probing THEN l ELSE NoLabel
     /\ cand' = IF probing THEN 1 ELSE 0
     /\ line' = IF probing THEN line
                ELSE [line EXCEPT ![l] = IF check.tag # "Ok" THEN "fail"
                                         ELSE IF hsm THEN "warn" ELSE "pass"]

(* get_key, which may fail of itself.                                      *)
FetchKey(l, check) ==
  /\ pc = "keys" /\ line[l] = "none"
  /\ per_arn_checked[Mapping[l]] = NotChecked
  /\ check \in {check_one_key(svc[Mapping[l]]), ApiError}
  /\ per_arn_checked' = [per_arn_checked EXCEPT ![Mapping[l]] = check]
  /\ Judge(l, check)
  /\ UNCHANGED <<cfg, hsm, errors, warnings, worldVars, registry, refusal>>

(* An identifier that has been looked up for another label.                *)
ReuseKey(l) ==
  /\ pc = "keys" /\ line[l] = "none"
  /\ per_arn_checked[Mapping[l]] # NotChecked
  /\ Judge(l, per_arn_checked[Mapping[l]])
  /\ UNCHANGED <<cfg, hsm, per_arn_checked, errors, warnings, worldVars,
                 registry, refusal>>

-------------------------------------------------------------------------------
(* thales_kcv and its outcomes.  The line of the probed label is written.  *)
Report(verdict) ==
  /\ line' = [line EXCEPT ![cur] = verdict]
  /\ pc' = "keys" /\ cur' = NoLabel /\ cand' = 0

(* The HSM is left alone from now on: one warning, and the label passes.   *)
GiveUp ==
  /\ hsm' = FALSE /\ warnings' = warnings \cup {"hsm"}
  /\ Report("pass")

ProbeUnreachable ==
  /\ pc = "probe"
  /\ GiveUp
  /\ UNCHANGED <<cfg, per_arn_checked, errors, worldVars, registry, refusal>>

(* Mutant: after the last candidate the first is tried again.              *)
BugCandidatesCycle ==
  /\ cand' = IF cand < Len(bu_candidates(cur)) THEN cand + 1 ELSE 1
  /\ UNCHANGED <<pc, cur, line>>

(* Mutant: the list of candidates is overrun.                              *)
BugNextCandidateUnbounded == cand' = cand + 1 /\ UNCHANGED <<pc, cur, line>>

(* Another type, or KeyTypeUnknown.                                        *)
NextCandidate ==
  \/ /\ cand < Len(bu_candidates(cur))
     /\ cand' = cand + 1 /\ UNCHANGED <<pc, cur, line>>
  \/ cand = Len(bu_candidates(cur)) /\ Report("warn")

ProbeAnswered(resp) ==
  LET type == bu_candidates(cur)[cand]
      bv == parse_bv(resp)
      matches == kcv_matches(per_arn_checked[Mapping[cur]].kcv, bv.kcv)
  IN /\ pc = "probe" /\ resp \in Heard[cur][type]
     /\ \/ bv.tag = "Kcv" /\ Report(IF matches THEN "checked" ELSE "fail")
           /\ UNCHANGED <<hsm, warnings>>
        \/ bv.tag = "Disabled" /\ GiveUp
        \/ bv.tag = "Error" /\ NextCandidate /\ UNCHANGED <<hsm, warnings>>
        \/ bv.tag = "Malformed" /\ Report("warn") /\ UNCHANGED <<hsm, warnings>>
     /\ disturbed' = IF resp \in {Says(cur, type), Says(cur, type) \o <<48>>}
                     THEN disturbed ELSE disturbed \cup {cur}
     /\ UNCHANGED <<cfg, per_arn_checked, errors, files, svc, touched, changes,
                    registry, refusal>>

-------------------------------------------------------------------------------
(* Mutant: the files of the listener are left to the server.               *)
BugCheckForwardOnly ==
  {f \in ForwardFiles : files[f] = "missing"} \cup (IF HalfPair THEN {"pair"} ELSE {})

(* Files must be there; the server parses them when it starts.             *)
FileErrors ==
  {f \in ListenFiles \cup ForwardFiles : files[f] = "missing"}
    \cup (IF HalfPair THEN {"pair"} ELSE {})

CheckFiles ==
  /\ pc = "keys" /\ \A l \in cfg.labels : line[l] # "none"
  /\ pc' = "done"
  /\ errors' = errors \cup FileErrors
  /\ warnings' = warnings \cup (IF cfg.listen = "plain" THEN {"plaintext"} ELSE {})
                   \cup (IF cfg.discover = "plain" /\ cfg.enabled
                         THEN {"plaintext forward"} ELSE {})
  /\ UNCHANGED <<cfg, hsm, cur, cand, per_arn_checked, line, worldVars, registry, refusal>>

(* is_clean: the process exits with 0.                                     *)
Passed == pc \in {"done", "up", "refused"} /\ errors = {} /\ \A l \in cfg.labels : line[l] # "fail"

-------------------------------------------------------------------------------
(* server::run: credentials and the scan only warn; an unknown vendor, a   *)
(* file that cannot be used and a port that is taken end the start.        *)
StartRefused(why) ==
  /\ pc = "done"
  /\ \/ why = "vendor" /\ cfg.vendor # "thales_payshield"
     \/ why = "tls" /\ cfg.vendor = "thales_payshield" /\ ~build_tls_config
     \/ why = "bind" /\ cfg.vendor = "thales_payshield" /\ build_tls_config
  /\ pc' = "refused" /\ refusal' = why
  /\ UNCHANGED <<cfg, hsm, cur, cand, per_arn_checked, line, errors, warnings,
                 worldVars, registry>>

Start ==
  /\ pc = "done"
  /\ cfg.vendor = "thales_payshield" /\ build_tls_config
  /\ pc' = "up" /\ registry' = for_module(ThalesHandlers)
  /\ UNCHANGED <<cfg, hsm, cur, cand, per_arn_checked, line, errors, warnings,
                 worldVars, refusal>>

-------------------------------------------------------------------------------
(* Operators change a key, or point an alias to another one; and a file.   *)
ChangeKey(i, key) ==
  /\ changes < MaxChanges /\ svc[i] # key
  /\ svc' = [svc EXCEPT ![i] = key] /\ changes' = changes + 1
  /\ touched' = IF per_arn_checked[i] = NotChecked THEN touched ELSE touched \cup {i}
  /\ UNCHANGED <<cfg, runVars, files, disturbed, registry, refusal>>

ChangeFile(f, content) ==
  /\ changes < MaxChanges /\ files[f] # content
  /\ files' = [files EXCEPT ![f] = content] /\ changes' = changes + 1
  /\ touched' = touched \cup {f}
  /\ UNCHANGED <<cfg, runVars, svc, disturbed, registry, refusal>>

Step ==
  \/ \E b \in BOOLEAN : Credentials(b) \/ Scan(b)
  \/ \E l \in cfg.labels : ReuseKey(l)
  \/ \E l \in cfg.labels :
       \E check \in {check_one_key(svc[Mapping[l]]), ApiError} : FetchKey(l, check)
  \/ ProbeUnreachable
  \/ pc = "probe" /\ \E resp \in Heard[cur][bu_candidates(cur)[cand]] : ProbeAnswered(resp)
  \/ CheckFiles

Next ==
  \/ Step \/ Start
  \/ \E why \in {"vendor", "tls", "bind"} : StartRefused(why)
  \/ \E i \in Identifiers, key \in Keys : ChangeKey(i, key)
  \/ \E f \in DOMAIN files, content \in FileStates : ChangeFile(f, content)

(* Every await of run ends: the calls of the service and the exchanges     *)
(* with the HSM have their timeouts.                                       *)
Spec == Init /\ [][Next]_vars /\ WF_vars(Step)

-------------------------------------------------------------------------------
(* Types, and where the probe is.                                          *)
TypeOK ==
  /\ pc \in {"creds", "scan", "keys", "probe", "done", "up", "refused"}
  /\ hsm \in BOOLEAN /\ cur \in cfg.labels \cup {NoLabel}
  /\ pc = "probe" <=> cur # NoLabel
  /\ pc = "probe" => cand \in DOMAIN bu_candidates(cur) /\ line[cur] = "none"
  /\ line \in [cfg.labels -> {"none", "pass", "checked", "warn", "fail"}]

(* The check values of one key, however many digits and in whichever case. *)
SameKey(apc, lmk) ==
  to_ascii_uppercase(SubSeq(apc, 1, 6)) = to_ascii_uppercase(SubSeq(lmk, 1, 6))

(* "Exit 0 = everything is ready to serve": when verification has passed,  *)
(* every mapping leads to a complete and enabled key, unless operators     *)
(* changed that key after it was looked up - also the labels that share an *)
(* identifier and were judged by the lookup of another.                    *)
PassMeansUsable ==
  Passed => \A l \in cfg.labels : Mapping[l] \in touched \/ Usable(svc[Mapping[l]])

(* When the HSM was to be asked, verification passed and nothing was       *)
(* warned of, the HSM's key and the mapped key have the same check value;  *)
(* cut replies and replies to others never stand in for the HSM's own.     *)
CrossChecked ==
  Passed /\ probed /\ "hsm" \notin warnings =>
    \A l \in cfg.labels :
      \/ line[l] = "warn" \/ Mapping[l] \in touched
      \/ SameKey(svc[Mapping[l]].kcv, LmkKcv[l])

(* Nothing is reported without a cause: a label fails for its key, for the *)
(* service or for a real mismatch; it is warned of if it cannot be probed  *)
(* or the HSM's replies were disturbed; other errors are of the files.     *)
ReportsOnlyForCause ==
  /\ \A l \in cfg.labels :
       /\ line[l] = "fail" =>
            \/ Mapping[l] \in touched \/ ~Usable(svc[Mapping[l]])
            \/ per_arn_checked[Mapping[l]] = ApiError
            \/ probed /\ ~SameKey(svc[Mapping[l]].kcv, LmkKcv[l])
       /\ line[l] = "warn" =>
            \/ l \in disturbed \/ Form[l] = "label"
            \/ Form[l] = "variant" /\ TypeCode[l] \notin {"00", "01", "02", "03"}
  /\ \A f \in errors \cap DOMAIN files : f \in touched \/ files[f] = "missing"
  /\ "discover.tls" \in errors =>
       HalfPair \/ \E f \in ForwardFiles : f \in touched \/ files[f] # "good"

(* A server that is started after a passing verification is refused only   *)
(* for what verification leaves to it (the vendor, the content of files,   *)
(* the port), and if it is up it can build the client for the HSM.         *)
PassedServes ==
  Passed =>
    /\ refusal = "tls" =>
         \E f \in ListenFiles : f \in touched \/ files[f] = "bad"
    /\ pc = "up" => from_discover \/ \E f \in ForwardFiles : f \in touched

(* Each command of the vendor's module reaches its own handler: neither    *)
(* the stub, which is registered last, nor another handler takes its code. *)
StubShadowsNothing ==
  pc = "up" => \A i \in DOMAIN ThalesHandlers :
                 \A c \in ThalesHandlers[i].codes : registry[c] = ThalesHandlers[i].name

(* Verification ends, whatever the HSM does.                               *)
VerifyEnds == <>(pc \in {"done", "up", "refused"})

(* verify.rs on hsm_probe_target: "Also validates `vendor` itself -        *)
(* server::run refuses to start on an unknown vendor, and verify must not  *)
(* report a config as ready when the proxy would not boot it."             *)
PassedBoots == Passed => refusal # "vendor"
===============================================================================
