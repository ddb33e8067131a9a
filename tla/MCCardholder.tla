----------------------------- MODULE MCCardholder -----------------------------
(* Instances of the PIN and card commands for TLC.                         *)
EXTENDS PinHandlers, CardHandlers, TLC

CONSTANTS k1, k2

MCPinDigits == "p1" :> 4 @@ "p2" :> 6
MCTxns == {<<"t">>, <<"t", "80">>}

(* Two PINs in blocks of one terminal, blocks of DUKPT terminals in three  *)
(* formats, and the values on a card whose PIN is p1.                      *)
PinData ==
  {PinBlock(k1, "ISO0", <<"acct">>, "p1", 16),
   PinBlock(k1, "ISO0", <<"acct">>, "p2", 16),
   PinBlock(k1, "ISO0", <<"ksn1", "acct">>, "p1", 16),
   PinBlock(k1, "ISO3", <<"ksn1", "acct">>, "p1", 16),
   PinBlock(k1, "ISO4", <<"ksn2", "acct">>, "p1", 32),
   Datum("offset", k2, "", <<"val", "p1">>, 12),
   Datum("pvv", k2, "", <<"acct", "1", "p1">>, 4)}

Terminal1 == [pan |-> "pan", atc |-> "atc", un |-> "un1"]

(* Cryptograms of a card of each brand under k1, one of a card whose data  *)
(* ends like padding, one of Option B, one that nobody made.               *)
CardsMade ==
  {CardArqc(k1, b, "OptionA", Terminal1, <<"t">>) :
     b \in {"Visa", "Mastercard", "Amex", "Emv2000", "EmvCommon", "UnionPay"}}
  \cup {CardArqc(k1, "UnionPay", "OptionA", Terminal1, <<"t", "80">>),
        CardArqc(k1, "Emv2000", "OptionB", Terminal1, <<"t">>),
        CardArqc(NoKey, "Visa", "OptionA", Terminal1, <<"t">>)}

MCOutside == PinData \cup CardsMade

CardholderProgram(r) ==
  IF r.cmd \in CardCommands THEN CardProgram(r) ELSE PinProgram(r)

CardholderRequests(hold) ==
  VerifyRequests(hold) \cup ChangeRequests(hold) \cup DukptPins(hold)
    \cup PinTranslations(hold) \cup BadPins
    \cup ArqcRequests(hold, Profiles, {"0"}) \cup CvvRequests(hold) \cup BadCards

(* These hold what frames can hold.                                        *)
ASSUME CardholderFrames ==
  /\ MCOutside \subseteq Data
  /\ \A r \in CardholderRequests(MCOutside) :
       IF r.cmd \in CardCommands THEN CardFrame(r) ELSE PinFrame(r, MCOutside)

PaddingRun(hold) == ArqcRequests(hold, {<<"JS", "1", "A">>}, {"0", "1"})
===============================================================================
