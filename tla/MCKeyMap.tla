------------------------------- MODULE MCKeyMap -------------------------------
(* An instance of the key map for TLC.                                     *)
EXTENDS KeyMap, TLC

MCUpper == "ab1" :> "AB1" @@ "AB1" :> "AB1" @@ "CD2" :> "CD2"

Key(usage, algorithm, kcv) == [usage |-> usage, algorithm |-> algorithm, kcv |-> kcv]

(* Two imports of one key, a key of usage K0 with the same check value, and*)
(* a triple-length key.                                                    *)
MCAttrs ==
  1 :> Key("P0", "TDES_2KEY", "AB1") @@ 2 :> Key("P0", "TDES_2KEY", "ab1")
    @@ 3 :> Key("K0", "TDES_2KEY", "AB1") @@ 4 :> Key("P0", "TDES_3KEY", "CD2")

MCLabels == "label" :> 3 @@ "S-P0" :> 3 @@ "S-Z9" :> 3 @@ "S-3KEY" :> 4

NoField ==
  [arn |-> NoArn, raw |-> "label", wrapped |-> FALSE, usage |-> "none",
   algo |-> "none", opts |-> << >>, count |-> 0]

KC(v) == [id |-> "KC", kcv |-> v]
Other == [id |-> "PB", kcv |-> "none"]
Extended == [id |-> "extended", kcv |-> "none"]

Block(raw, usage, algo, opts, count) ==
  [NoField EXCEPT !.raw = raw, !.wrapped = TRUE, !.usage = usage, !.algo = algo,
                  !.opts = opts, !.count = count]

MCFields ==
  {NoField, [NoField EXCEPT !.raw = "unknown"], [NoField EXCEPT !.arn = 2],
   Block("S-P0", "P0", "T", <<Other, KC("ab1")>>, 2),
   Block("S-P0", "P0", "T", <<Other, KC("ab1")>>, 1),
   Block("S-P0", "P0", "T", <<Extended, KC("AB1")>>, 2),
   Block("S-P0", "P0", "T", <<Other>>, 2),
   Block("S-Z9", "Z9", "T", <<KC("AB1")>>, 1),
   Block("S-P0", "P0", "Q", <<KC("AB1")>>, 1),
   Block("S-D", "P0", "D", <<KC("AB1")>>, 1),
   Block("S-D0", "D0", "T", <<KC("AB1")>>, 1),
   Block("S-K0", "K0", "T", <<KC("AB1")>>, 1),
   Block("S-3KEY", "P0", "T", <<KC("CD2")>>, 1)}
===============================================================================
