------------------------------- MODULE MCVerify -------------------------------
(* An instance of the verification for TLC.                                *)
EXTENDS Verify, TLC

(* D5D44F, as the HSM prints it, in its 16-digit form and as the service   *)
(* prints it; a key whose check value begins likewise, with a blank after. *)
KcvA == <<68, 53, 68, 52, 52, 70>>
KcvA16 == KcvA \o [i \in 1 .. 10 |-> 48]
LowerA == <<100, 53, 100, 52, 52, 102>>
KcvB == <<68, 53, 68, 49, 50, 51>>

(* Labels that share an identifier: a key block, a variant form whose type *)
(* is tried second and a plain name; and a variant form of unknown type.   *)
MCMapping == "S" :> "alias" @@ "U" :> "alias" @@ "name" :> "alias" @@ "T" :> "arn"
MCForm == "S" :> "block" @@ "U" :> "variant" @@ "name" :> "label" @@ "T" :> "variant"
MCTypeCode == "S" :> "FF" @@ "U" :> "02" @@ "name" :> "09" @@ "T" :> "09"
MCLmkKcv == "S" :> KcvA16 @@ "U" :> KcvA \o <<32>> @@ "name" :> KcvA @@ "T" :> KcvB

Key(state, enabled, kcv) == [state |-> state, enabled |-> enabled, kcv |-> kcv]

MCKeys ==
  {Key("CREATE_COMPLETE", TRUE, LowerA), Key("CREATE_COMPLETE", TRUE, KcvB),
   Key("CREATE_COMPLETE", FALSE, LowerA), Key("DELETE_PENDING", TRUE, LowerA),
   Key("missing", FALSE, << >>)}

Config(vendor, listen, discover, enabled, labels) ==
  [vendor |-> vendor, listen |-> listen, discover |-> discover, enabled |-> enabled,
   labels |-> labels]

MCConfigs ==
  {Config("thales_payshield", "plain", "none", FALSE, {"U", "T"}),
   Config("thales_payshield", "tls", "plain", TRUE, {"S", "name", "T"}),
   Config("thales_payshield", "mtls", "mtls", TRUE, {"S", "U", "T"}),
   Config("thales_payshield", "plain", "cert only", FALSE, {"S"}),
   Config("futurex_excrypt", "tls", "tls", FALSE, {"S", "U"})}

(* At most one file is damaged.                                            *)
MCDamages ==
  {<< >>} \cup {f :> d : f \in {"key", "hsm_key"}, d \in {"bad", "missing"}}
===============================================================================
