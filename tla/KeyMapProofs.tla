----------------------------- MODULE KeyMapProofs -----------------------------
(***************************************************************************)
(* What the index of the key map is worth, for every set of keys, every    *)
(* way to page through them and everything operators do meanwhile.         *)
(***************************************************************************)
EXTENDS KeyMap, WellFoundedInduction, TLAPS

(* An entry of the list or of the index is filed under its own attributes. *)
Filed == \A k \in KcvKeys : \A a \in collisions[k] : KeyOf(a) = k

Indexed == \A k \in DOMAIN kcv_index : kcv_index[k] \in listed /\ KeyOf(kcv_index[k]) = k

(* Nothing is served before the scan has ended.                            *)
Unserved == phase = "scan" => DOMAIN kcv_index = {} /\ asked = NoArn

(* While the scan runs, no page has lost a key that was enabled throughout.*)
Collected ==
  phase = "scan" =>
    /\ steady \subseteq old \cap enabled
    /\ \A a \in steady \cap listed : a \in collisions[KeyOf(a)]

IInv == TypeOK /\ Filed /\ Indexed /\ Unserved /\ Collected /\ NeverMisroutes /\ ScanIsComplete

-------------------------------------------------------------------------------
(* Smallest, as sort and first, picks a member that no other is below.     *)
LEMMA SmallestIsLeast ==
  ASSUME NEW S \in SUBSET Nat, S # {}
  PROVE  Smallest(S) \in S /\ \A b \in S : Smallest(S) <= b
<1>1. PICK m \in S : \A b \in S : <<b, m>> \notin OpToRel(<, Nat)
  BY WFMin, NatLessThanWellFounded
<1>2. ASSUME NEW b \in S, b < m PROVE FALSE
  <2>1. <<b, m>> \in OpToRel(<, Nat)
    BY <1>2 DEF OpToRel
  <2>2. QED
    BY <1>1, <2>1
<1>3. \A b \in S : m <= b
  <2>1. ASSUME NEW b \in S PROVE m <= b
    <3>1. b \in Nat /\ m \in Nat /\ ~(b < m)
      BY <1>2
    <3>2. QED
      BY <3>1
  <2>2. QED
    BY <2>1
<1>4. QED
  BY <1>3 DEF Smallest

(* The tables of the block headers do not confuse two kinds of keys.       *)
LEMMA FiledIsDescribed ==
  ASSUME NEW f, NEW a \in Arns,
         KeyOf(a) = KcvKey(tr31_usage_to_apc(f.usage), tr31_algo_to_apc(f.algo), BlockKcv(f))
  PROVE  Describes(f, a)
<1>1. /\ Attrs[a].usage = tr31_usage_to_apc(f.usage)
      /\ Attrs[a].algorithm = tr31_algo_to_apc(f.algo)
      /\ Upper[Attrs[a].kcv] = Upper[BlockKcv(f)]
  BY DEF KeyOf, KcvKey
<1>2. Attrs[a].usage \notin {"none", NotK0} /\ Attrs[a].algorithm # "none"
  BY KeyMapAssumption DEF NotK0
<1>3. Attrs[a].usage = f.usage
  BY <1>1, <1>2 DEF tr31_usage_to_apc
<1>4. \/ f.algo \in {"D", "T"} /\ Attrs[a].algorithm = "TDES_2KEY"
      \/ f.algo = "A" /\ Attrs[a].algorithm = "AES_128"
      \/ f.algo = "H" /\ Attrs[a].algorithm = "HMAC_SHA256"
      \/ f.algo = "R" /\ Attrs[a].algorithm = "RSA_2048"
  BY <1>1, <1>2 DEF tr31_algo_to_apc
<1>5. QED
  BY <1>1, <1>3, <1>4 DEF Describes

(* What a page adds is filed under its own attributes, and nothing is lost.*)
LEMMA EnterFiles ==
  ASSUME TypeOK, Filed, NEW page \in SUBSET Arns
  PROVE  /\ Enter(page) \in [KcvKeys -> SUBSET (listed \cup page)]
         /\ \A k \in KcvKeys : \A a \in Enter(page)[k] : KeyOf(a) = k
         /\ \A a \in page \cap enabled : a \in Enter(page)[KeyOf(a)]
         /\ \A a \in Arns : a \in collisions[KeyOf(a)] => a \in Enter(page)[KeyOf(a)]
<1>1. \A a \in Arns : KeyOf(a) \in KcvKeys
  BY DEF KcvKeys
<1>2. QED
  BY <1>1 DEF Enter, TypeOK, Filed

-------------------------------------------------------------------------------
(* KeyMap::new: an empty map, and a scan that has listed nothing.          *)
LEMMA InitHolds == Init => IInv
<1>1. SUFFICES ASSUME Init PROVE IInv
  OBVIOUS
<1>2. DOMAIN kcv_index = {}
  BY <1>1 DEF Init
<1>3. TypeOK
  BY <1>1, <1>2, KeyMapAssumption DEF Init, TypeOK, NoCollisions
<1>4. QED
  BY <1>1, <1>2, <1>3 DEF Init, IInv, Filed, Indexed, Unserved, Collected, NoCollisions,
     NeverMisroutes, ScanIsComplete

(* A page that is not the last.                                            *)
LEMMA PageHolds ==
  ASSUME IInv, NEW page \in SUBSET Arns, ListPage(page, FALSE)
  PROVE  IInv'
<1>1. /\ phase = "scan" /\ phase' = "scan" /\ listed' = listed \cup page
      /\ collisions' = Enter(page) /\ page \subseteq keys \ listed
      /\ UNCHANGED <<keys, enabled, kcv_index, old, steady, asked, answer>>
  BY DEF ListPage
<1>2. TypeOK'
  BY <1>1, EnterFiles DEF IInv, TypeOK
<1>3. Filed' /\ Indexed' /\ Unserved'
  <2>1. Filed'
    BY <1>1, EnterFiles DEF IInv, Filed, KeyOf, KcvKey
  <2>2. QED
    BY <1>1, <2>1 DEF IInv, Indexed, Unserved, KeyOf, KcvKey
<1>4. Collected'
  <2>1. steady \subseteq Arns
    BY DEF IInv, TypeOK
  <2>2. ASSUME NEW a \in steady, a \in listed \cup page
        PROVE  a \in Enter(page)[KeyOf(a)]
    BY <1>1, <2>1, <2>2, EnterFiles DEF IInv, Collected
  <2>3. QED
    BY <1>1, <2>2 DEF IInv, Collected, KeyOf, KcvKey
<1>5. QED
  BY <1>1, <1>2, <1>3, <1>4 DEF IInv, Unserved, NeverMisroutes, ScanIsComplete

(* The last page, and the index that is made of all.                       *)
LEMMA LastPageHolds ==
  ASSUME IInv, NEW page \in SUBSET Arns, ListPage(page, TRUE)
  PROVE  IInv'
<1> DEFINE E == Enter(page)
<1>1. /\ phase = "scan" /\ phase' = "serve" /\ listed' = listed \cup page
      /\ collisions' = NoCollisions /\ kcv_index' = Index(E) /\ old' = {}
      /\ page \subseteq keys \ listed /\ old \ listed \subseteq page
      /\ UNCHANGED <<keys, enabled, steady, asked, answer>>
  BY DEF ListPage
<1>2. /\ E \in [KcvKeys -> SUBSET (listed \cup page)]
      /\ \A k \in KcvKeys : \A a \in E[k] : KeyOf(a) = k
  BY EnterFiles DEF IInv
<1>3. \A k \in KcvKeys : E[k] # {} =>
        Smallest(E[k]) \in E[k] /\ \A b \in E[k] : Smallest(E[k]) <= b
  <2>1. \A k \in KcvKeys : E[k] \in SUBSET Nat
    BY <1>2, KeyMapAssumption DEF IInv, TypeOK
  <2>2. QED
    BY <2>1, SmallestIsLeast
<1>4. /\ DOMAIN Index(E) = {k \in KcvKeys : E[k] # {}}
      /\ \A k \in DOMAIN Index(E) : Index(E)[k] = Smallest(E[k])
  BY DEF Index
<1>. HIDE DEF E
<1>5. TypeOK'
  BY <1>1, <1>4 DEF IInv, TypeOK, NoCollisions
<1>6. Filed' /\ Unserved' /\ Collected'
  BY <1>1 DEF Filed, Unserved, Collected, NoCollisions
<1>7. Indexed'
  BY <1>1, <1>2, <1>3, <1>4 DEF Indexed, KeyOf, KcvKey
<1>8. NeverMisroutes'
  BY <1>1 DEF IInv, Unserved, NeverMisroutes
<1>9. ASSUME NEW a \in steady
      PROVE  /\ KeyOf(a) \in DOMAIN Index(E)
             /\ Index(E)[KeyOf(a)] <= a
             /\ KeyOf(Index(E)[KeyOf(a)]) = KeyOf(a)
  <2>1. a \in Arns /\ a \in old /\ a \in enabled
    BY <1>1 DEF IInv, TypeOK, Collected
  <2>2. KeyOf(a) \in KcvKeys
    BY <2>1 DEF KcvKeys
  <2>3. a \in E[KeyOf(a)]
    <3>1. CASE a \in listed
      BY <1>1, <2>1, <3>1, EnterFiles DEF IInv, Collected, E
    <3>2. CASE a \notin listed
      BY <1>1, <2>1, <3>2, EnterFiles DEF IInv, E
    <3>3. QED
      BY <3>1, <3>2
  <2>4. QED
    BY <1>2, <1>3, <1>4, <2>2, <2>3
<1>10. ScanIsComplete'
  BY <1>1, <1>9 DEF ScanIsComplete, KeyOf, KcvKey
<1>11. QED
  BY <1>5, <1>6, <1>7, <1>8, <1>10 DEF IInv

(* A block is looked up in the index, whose entries it then describes.     *)
LEMMA ResolveHolds ==
  ASSUME IInv, NEW f \in Fields, Resolve(f)
  PROVE  IInv'
<1> DEFINE k == KcvKey(tr31_usage_to_apc(f.usage), tr31_algo_to_apc(f.algo), BlockKcv(f))
<1>1. /\ phase = "serve" /\ asked' = f /\ answer' = resolve_descriptor(f)
      /\ UNCHANGED <<keys, enabled, phase, listed, collisions, kcv_index, old, steady>>
  BY DEF Resolve, scanVars
<1>2. Lookup(k) # NoArn => Lookup(k) \in listed /\ KeyOf(Lookup(k)) = k
  BY DEF Lookup, IInv, Indexed
<1>3. f.arn = NoArn /\ f.wrapped /\ BlockKcv(f) # NoKcv => resolve_descriptor(f) = Lookup(k)
  BY DEF resolve_descriptor
<1>4. resolve_descriptor(f) \in Arns \cup {NoArn}
  <2>1. f.arn \in Arns \cup {NoArn} /\ resolve(f.raw) \in Arns \cup {NoArn}
    BY KeyMapAssumption DEF resolve
  <2>2. Lookup(k) \in Arns \cup {NoArn}
    BY <1>2 DEF IInv, TypeOK
  <2>3. QED
    BY <2>1, <2>2 DEF resolve_descriptor
<1>5. TypeOK'
  BY <1>1, <1>4 DEF IInv, TypeOK
<1>6. NeverMisroutes'
  <2>1. SUFFICES ASSUME f.arn = NoArn, f.wrapped, BlockKcv(f) # NoKcv,
                        resolve_descriptor(f) # NoArn
                 PROVE  /\ Describes(f, resolve_descriptor(f))
                        /\ resolve_descriptor(f) \in listed
    BY <1>1 DEF NeverMisroutes, Describes, BlockKcv
  <2>2. Lookup(k) \in Arns
    BY <1>2, <1>3, <2>1 DEF IInv, TypeOK
  <2>. HIDE DEF k
  <2>3. QED
    BY <1>2, <1>3, <2>1, <2>2, FiledIsDescribed DEF k
<1>7. QED
  BY <1>1, <1>5, <1>6 DEF IInv, Filed, Indexed, Unserved, Collected, ScanIsComplete,
     KeyOf, KcvKey

(* The service's operators change what later pages show, never the index.  *)
LEMMA OperatorHolds ==
  ASSUME IInv, NEW a \in Arns, Create(a) \/ Disable(a) \/ Enable(a) \/ Delete(a)
  PROVE  IInv'
<1>1. /\ UNCHANGED <<phase, listed, collisions, kcv_index, asked, answer>>
      /\ steady' \subseteq steady /\ (phase = "serve" => steady' = steady)
  BY DEF IInv, TypeOK, Create, Disable, Enable, Delete, scanVars
<1>2. TypeOK'
  BY <1>1 DEF IInv, TypeOK, Create, Disable, Enable, Delete
<1>3. Filed' /\ Indexed' /\ Unserved'
  BY <1>1 DEF IInv, Filed, Indexed, Unserved, KeyOf, KcvKey
<1>4. phase = "scan" => steady' \subseteq old' \cap enabled'
  BY DEF IInv, Collected, Create, Disable, Enable, Delete
<1>5. Collected'
  BY <1>1, <1>4 DEF IInv, Collected, KeyOf, KcvKey
<1>6. NeverMisroutes'
  BY <1>1 DEF IInv, NeverMisroutes, Describes, BlockKcv
<1>7. ScanIsComplete'
  BY <1>1, <1>2 DEF IInv, TypeOK, ScanIsComplete, KeyOf, KcvKey
<1>8. QED
  BY <1>2, <1>3, <1>5, <1>6, <1>7 DEF IInv

(* Every step of scan_apc, of a handler and of an operator keeps all parts.*)
LEMMA StepHolds == IInv /\ [Next]_vars => IInv'
<1>1. SUFFICES ASSUME IInv, [Next]_vars PROVE IInv'
  OBVIOUS
<1>2. ASSUME NEW page \in SUBSET Arns, NEW last \in BOOLEAN, ListPage(page, last)
      PROVE  IInv'
  BY <1>1, <1>2, PageHolds, LastPageHolds
<1>3. CASE ScanFails
  <2>1. /\ phase' = "serve" /\ listed' = {} /\ collisions' = NoCollisions /\ old' = {}
        /\ DOMAIN kcv_index = {} /\ asked = NoArn
        /\ UNCHANGED <<keys, enabled, kcv_index, steady, asked, answer>>
    BY <1>1, <1>3 DEF ScanFails, IInv, Unserved
  <2>2. TypeOK'
    BY <1>1, <2>1 DEF IInv, TypeOK, NoCollisions
  <2>3. QED
    BY <2>1, <2>2 DEF IInv, Filed, Indexed, Unserved, Collected, NoCollisions,
       NeverMisroutes, ScanIsComplete
<1>4. CASE Restart
  <2>1. /\ phase' = "scan" /\ listed' = {} /\ collisions' = NoCollisions
        /\ DOMAIN kcv_index' = {} /\ old' = keys /\ steady' = enabled
        /\ asked' = NoArn /\ answer' = NoArn /\ UNCHANGED <<keys, enabled>>
    BY <1>4 DEF Restart
  <2>2. TypeOK'
    BY <1>1, <2>1 DEF IInv, TypeOK, NoCollisions
  <2>3. enabled \subseteq keys
    BY <1>1 DEF IInv, TypeOK
  <2>4. QED
    BY <2>1, <2>2, <2>3 DEF IInv, Filed, Indexed, Unserved, Collected, NoCollisions,
       NeverMisroutes, ScanIsComplete
<1>5. ASSUME NEW f \in Fields, Resolve(f) PROVE IInv'
  BY <1>1, <1>5, ResolveHolds
<1>6. ASSUME NEW a \in Arns, Create(a) \/ Disable(a) \/ Enable(a) \/ Delete(a)
      PROVE  IInv'
  BY <1>1, <1>6, OperatorHolds
<1>7. CASE UNCHANGED vars
  BY <1>1, <1>7 DEF vars, scanVars, IInv, TypeOK, Filed, Indexed, Unserved, Collected,
     NeverMisroutes, ScanIsComplete, Describes, BlockKcv, KeyOf, KcvKey
<1>8. QED
  BY <1>1, <1>2, <1>3, <1>4, <1>5, <1>6, <1>7 DEF Next

(* The parts together are an invariant of the key map.                     *)
LEMMA IInvHolds == Spec => []IInv
  BY InitHolds, StepHolds, PTL DEF Spec

-------------------------------------------------------------------------------
(* resolve_descriptor never routes a wrapped block to a key of another     *)
(* usage, algorithm or check value, nor to one that the scan did not list. *)
THEOREM IndexIsRight == Spec => []NeverMisroutes
<1>1. IInv => NeverMisroutes
  BY DEF IInv
<1>2. QED
  BY <1>1, IInvHolds, PTL

(* scan_apc indexes every key that was enabled throughout, and among those *)
(* of one check value picks by name, however the service pages.            *)
THEOREM ScanMissesNothing == Spec => []ScanIsComplete
<1>1. IInv => ScanIsComplete
  BY DEF IInv
<1>2. QED
  BY <1>1, IInvHolds, PTL

(* scan_apc files only what list_keys showed it, and resolve answers with  *)
(* a key of the service or with none.                                      *)
THEOREM KeyMapTypes == Spec => []TypeOK
<1>1. IInv => TypeOK
  BY DEF IInv
<1>2. QED
  BY <1>1, IInvHolds, PTL
===============================================================================
