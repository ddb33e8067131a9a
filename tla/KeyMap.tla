-------------------------------- MODULE KeyMap --------------------------------
(***************************************************************************)
(* The key map (key_map.rs) and the key blocks that it resolves (TR-31     *)
(* parsing in common.rs).  At startup scan_apc pages through the service's *)
(* list of keys while operators go on creating, enabling, disabling and    *)
(* deleting keys; the index that it builds serves for the life of the      *)
(* process, and the server starts without one if the scan fails.           *)
(***************************************************************************)
EXTENDS Naturals, Sequences, FiniteSets

CONSTANTS
  Arns,         \* names of keys, ordered as strings: naturals
  Attrs,        \* usage, algorithm and check value of each, fixed for its life
  Upper,        \* to_ascii_uppercase on check values
  Labels,       \* key_mappings: wire form -> ARN
  Fields,       \* key fields that hosts send
  NoArn         \* KeyNotFound, error 10

ASSUME KeyMapAssumption ==
  /\ Arns \subseteq Nat /\ NoArn \notin Arns
  /\ \A v \in DOMAIN Upper : Upper[v] \in DOMAIN Upper /\ Upper[Upper[v]] = Upper[v]
  /\ \A a \in Arns : Attrs[a].kcv \in DOMAIN Upper
  /\ \A a \in Arns : Attrs[a].algorithm # "none"
  /\ \A a \in Arns :
       Attrs[a].usage \notin {"none", "TR31_K0_KEY_BLOCK_PROTECTION_KEY"}
  /\ \A f \in Fields : f.arn \in Arns \cup {NoArn}
  /\ \A l \in DOMAIN Labels : Labels[l] \in Arns

VARIABLES
  keys,         \* keys of the service in state CREATE_COMPLETE
  enabled,      \* those that are enabled
  phase,        \* "scan" while scan_apc runs, then "serve"
  listed,       \* keys that the pages so far have returned
  collisions,   \* scan_apc's map of check values to lists of ARNs
  kcv_index,    \* the index of the running process
  old,          \* keys that have been there ever since the scan began
  steady,       \* history: those of them that have been enabled all along
  asked,        \* the key field last resolved
  answer        \* and what it was resolved to

scanVars == <<phase, listed, collisions, kcv_index>>
vars == <<keys, enabled, scanVars, old, steady, asked, answer>>

-------------------------------------------------------------------------------
(* A block says only the family of its algorithm.                          *)
tr31_algo_to_apc(algo) ==
  CASE algo = "A" -> "AES_128" [] algo \in {"D", "T"} -> "TDES_2KEY"
    [] algo = "H" -> "HMAC_SHA256" [] algo = "R" -> "RSA_2048" [] OTHER -> "none"

KnownUsages ==
  {"B0", "C0", "D0", "E0", "E1", "E2", "E4", "E5", "E6", "K0", "K1",
   "M1", "M3", "M6", "M7", "P0", "V1", "V2"}

(* A usage of the service is written as the code that its name begins with.*)
(* The name made for K0 takes the rest of K1's and is none of the service's*)
(* names, so that a block of usage K0 is never found in the index.         *)
NotK0 == "TR31_K0_KEY_BLOCK_PROTECTION_KEY"

tr31_usage_to_apc(usage) ==
  CASE usage = "K0" -> NotK0 [] usage \in KnownUsages \ {"K0"} -> usage
    [] OTHER -> "none"

KcvKey(usage, algorithm, kcv) == <<usage, algorithm, Upper[kcv]>>

KeyOf(a) == KcvKey(Attrs[a].usage, Attrs[a].algorithm, Attrs[a].kcv)

KcvKeys == {KeyOf(a) : a \in Arns}

-------------------------------------------------------------------------------
(* common.rs.  A key field is a label, or a wrapped block with a list of   *)
(* optional blocks and the number of them that its header declares.        *)
(* Walking the optional blocks stops at the first check value or extended  *)
(* length; running out of them before is an error.                         *)
Malformed == "malformed"
NoKcv == "no kcv"

scan_kc_optional_block(opts, count) ==
  LET stops == {i \in DOMAIN opts : i <= count /\ opts[i].id \in {"KC", "extended"}}
      first == CHOOSE i \in stops : \A j \in stops : i <= j
  IN IF stops = {} THEN IF count > Len(opts) THEN Malformed ELSE NoKcv
     ELSE IF opts[first].id = "KC" THEN opts[first].kcv ELSE NoKcv

BlockKcv(f) == scan_kc_optional_block(f.opts, f.count)

ParseFails(f) == f.wrapped /\ BlockKcv(f) = Malformed

-------------------------------------------------------------------------------
(* resolve_descriptor: an ARN passes, a block with a check value is looked *)
(* up in the index and nowhere else, all others are labels.                *)
Lookup(k) == IF k \in DOMAIN kcv_index THEN kcv_index[k] ELSE NoArn

resolve(raw) == IF raw \in DOMAIN Labels THEN Labels[raw] ELSE NoArn

(* Mutant: a check value that is not in the index is looked up as a label. *)
BugMissFallsToLabel(f) ==
  IF f.arn # NoArn THEN f.arn
  ELSE IF f.wrapped /\ BlockKcv(f) # NoKcv
     /\ Lookup(KcvKey(tr31_usage_to_apc(f.usage), tr31_algo_to_apc(f.algo),
                      BlockKcv(f))) # NoArn
  THEN Lookup(KcvKey(tr31_usage_to_apc(f.usage), tr31_algo_to_apc(f.algo),
                     BlockKcv(f)))
  ELSE resolve(f.raw)

resolve_descriptor(f) ==
  IF f.arn # NoArn THEN f.arn
  ELSE IF f.wrapped /\ BlockKcv(f) # NoKcv
       THEN Lookup(KcvKey(tr31_usage_to_apc(f.usage), tr31_algo_to_apc(f.algo),
                          BlockKcv(f)))
       ELSE resolve(f.raw)

-------------------------------------------------------------------------------
NoCollisions == [k \in KcvKeys |-> {}]

(* KeyMap::new                                                             *)
Init ==
  /\ keys \in SUBSET Arns /\ enabled \in SUBSET keys
  /\ phase = "scan" /\ listed = {}
  /\ collisions = NoCollisions
  /\ kcv_index = << >>
  /\ old = keys /\ steady = enabled
  /\ asked = NoArn /\ answer = NoArn

(* Mutant: a page replaces what earlier pages entered.                     *)
BugEnterReplaces(page) ==
  [k \in KcvKeys |-> IF \E a \in page : KeyOf(a) = k
                     THEN {a \in page \cap enabled : KeyOf(a) = k}
                     ELSE collisions[k]]

(* A page of list_keys: disabled keys are skipped.  A key that is there    *)
(* from the first page to the last is on exactly one of them, one that is  *)
(* created or deleted meanwhile may be or not; the last page ends the scan.*)
Enter(page) ==
  [k \in KcvKeys |-> collisions[k] \cup {a \in page \cap enabled : KeyOf(a) = k}]

(* arns.sort() and the first.                                              *)
Smallest(arns) == CHOOSE a \in arns : \A b \in arns : a <= b

Index(cs) == [k \in {k \in KcvKeys : cs[k] # {}} |-> Smallest(cs[k])]

ListPage(page, last) ==
  /\ phase = "scan"
  /\ page \subseteq keys \ listed
  /\ last => old \ listed \subseteq page
  /\ listed' = listed \cup page
  /\ \/ /\ ~last /\ collisions' = Enter(page)
        /\ UNCHANGED <<phase, kcv_index, old>>
     \/ /\ last /\ collisions' = NoCollisions /\ old' = {}
        /\ phase' = "serve" /\ kcv_index' = Index(Enter(page))
  /\ UNCHANGED <<keys, enabled, steady, asked, answer>>

(* Mutant: the entries of the pages before the failure stay.               *)
BugScanFailsKeepsEntries ==
  /\ phase = "scan"
  /\ phase' = "serve" /\ listed' = {}
  /\ UNCHANGED <<keys, enabled, collisions, kcv_index, old, steady, asked, answer>>

(* A page fails: what has been listed is dropped, and the server serves.   *)
ScanFails ==
  /\ phase = "scan"
  /\ phase' = "serve" /\ listed' = {} /\ collisions' = NoCollisions /\ old' = {}
  /\ UNCHANGED <<keys, enabled, kcv_index, steady, asked, answer>>

(* A handler resolves the key field of a command.                          *)
Resolve(f) ==
  /\ phase = "serve" /\ ~ParseFails(f)
  /\ asked' = f /\ answer' = resolve_descriptor(f)
  /\ UNCHANGED <<keys, enabled, scanVars, old, steady>>

(* The operators of the service; a key that was to be deleted may be kept. *)
Create(a) ==
  /\ a \notin keys
  /\ keys' = keys \cup {a} /\ enabled' = enabled \cup {a}
  /\ UNCHANGED <<scanVars, old, steady, asked, answer>>

Disable(a) ==
  /\ a \in enabled
  /\ enabled' = enabled \ {a}
  /\ steady' = IF phase = "scan" THEN steady \ {a} ELSE steady
  /\ UNCHANGED <<keys, scanVars, old, asked, answer>>

Enable(a) ==
  /\ a \in keys \ enabled
  /\ enabled' = enabled \cup {a}
  /\ UNCHANGED <<keys, scanVars, old, steady, asked, answer>>

Delete(a) ==
  /\ a \in keys
  /\ keys' = keys \ {a} /\ enabled' = enabled \ {a}
  /\ old' = old \ {a}
  /\ steady' = IF phase = "scan" THEN steady \ {a} ELSE steady
  /\ UNCHANGED <<scanVars, asked, answer>>

(* The process ends and starts again.                                      *)
Restart ==
  /\ phase = "serve"
  /\ phase' = "scan" /\ listed' = {} /\ collisions' = NoCollisions
  /\ kcv_index' = << >>
  /\ old' = keys /\ steady' = enabled
  /\ asked' = NoArn /\ answer' = NoArn
  /\ UNCHANGED <<keys, enabled>>

Next ==
  \/ \E page \in SUBSET Arns, last \in BOOLEAN : ListPage(page, last)
  \/ ScanFails \/ Restart
  \/ \E f \in Fields : Resolve(f)
  \/ \E a \in Arns : Create(a) \/ Disable(a) \/ Enable(a) \/ Delete(a)

Spec == Init /\ [][Next]_vars

-------------------------------------------------------------------------------
(* Types of the scan and of the index.                                     *)
TypeOK ==
  /\ keys \subseteq Arns /\ enabled \subseteq keys
  /\ phase \in {"scan", "serve"} /\ listed \subseteq Arns
  /\ collisions \in [KcvKeys -> SUBSET listed]
  /\ DOMAIN kcv_index \subseteq KcvKeys
  /\ old \subseteq keys /\ steady \subseteq Arns /\ answer \in Arns \cup {NoArn}

(* The header of a block describes a key of the service.                   *)
Describes(f, a) ==
  /\ Attrs[a].usage = f.usage
  /\ \/ f.algo \in {"D", "T"} /\ Attrs[a].algorithm = "TDES_2KEY"
     \/ f.algo = "A" /\ Attrs[a].algorithm = "AES_128"
     \/ f.algo = "H" /\ Attrs[a].algorithm = "HMAC_SHA256"
     \/ f.algo = "R" /\ Attrs[a].algorithm = "RSA_2048"
  /\ Upper[Attrs[a].kcv] = Upper[BlockKcv(f)]

(* docs/key-presentation.md: "The proxy will refuse to silently mis-route."*)
(* A block with a check value resolves, if at all, to a key of its own     *)
(* usage, algorithm and check value, whatever was listed on which page and *)
(* whatever label the same bytes have - and to none after a failed scan.   *)
(* (A comment in key_map.rs says otherwise: see UnindexedByLabel.)         *)
NeverMisroutes ==
  asked # NoArn /\ answer # NoArn =>
    (asked.arn = NoArn /\ asked.wrapped /\ BlockKcv(asked) # NoKcv
       => Describes(asked, answer) /\ answer \in listed)

(* The index misses no key that was enabled throughout the scan, on        *)
(* whichever page it came, and of several with one check value it has the  *)
(* smallest or one still smaller that was enabled on its page: two scans   *)
(* of an unchanged inventory give the same index.                          *)
ScanIsComplete ==
  phase = "serve" /\ listed # {} =>
    \A a \in steady :
      /\ KeyOf(a) \in DOMAIN kcv_index
      /\ kcv_index[KeyOf(a)] <= a
      /\ KeyOf(kcv_index[KeyOf(a)]) = KeyOf(a)

(* key_map.rs, of the usage codes that tr31_usage_to_apc does not know:    *)
(* "unknown codes will simply miss the KCV index and fall through to the   *)
(* label path", and of lengths that tr31_algo_to_apc does not pick: "3KEY  *)
(* keys must be addressed via `key_mappings` label or pre-resolved ARN".   *)
(* So a labelled block of either kind resolves by its label (common.rs     *)
(* keeps the whole block as the wire form for that).                       *)
UnindexedByLabel ==
  phase = "serve" =>
    \A f \in Fields :
      /\ f.wrapped /\ ~ParseFails(f) /\ f.raw \in DOMAIN Labels
      /\ \/ f.usage \notin KnownUsages
         \/ f.algo = "T" /\ Attrs[Labels[f.raw]].algorithm = "TDES_3KEY"
      => resolve_descriptor(f) = Labels[f.raw]
===============================================================================
