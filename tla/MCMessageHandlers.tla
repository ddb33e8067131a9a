-------------------------- MODULE MCMessageHandlers --------------------------
(* Instances of the MAC and data commands for TLC.                         *)
EXTENDS MacHandlers, DataHandlers, TLC

CONSTANTS k1, k2

MCPinDigits == "p1" :> 4
MCMessages == {<<"a">>, <<"a", "~", "b">>}
MCScripts == {<<"s">>, <<"s", ";", "t">>}

(* A forged MAC, a clear text of two blocks, and the counters that a card  *)
(* encrypted.                                                              *)
MCOutside ==
  {Datum("mac", NoKey, "ALG1", <<"a">>, 8),
   Datum("plain", NoKey, "", <<"a", "b">>, 32),
   Datum("cipher", k1, "EMV_CBC", <<"pan", "atc", "n", "m">>, 32)}

(* Sizes and algorithms of M6 and M8, and of MY.                           *)
Sizes == {<<"0", "1">>, <<"1", "1">>, <<"0", "3">>, <<"0", "6">>, <<"1", "6">>}
HalfSizes == {<<"0", "1">>, <<"1", "1">>, <<"0", "6">>, <<"1", "6">>}

MessageProgram(r) ==
  IF r.cmd \in DataCommands THEN DataProgram(r) ELSE MacProgram(r)

MessageRequests(hold) ==
  PlainRequests(hold) \cup LegacyRequests(hold) \cup SizedRequests(hold, Sizes)
    \cup MacTranslations(hold, HalfSizes) \cup DukptMacs(hold)
    \cup ScriptRequests \cup BadMacs
    \cup DataRequests(hold) \cup BadData

(* These hold what frames can hold.                                        *)
ASSUME MessageFrames ==
  /\ MCOutside \subseteq Data
  /\ \A r \in MessageRequests(MCOutside) :
       IF r.cmd \in DataCommands THEN DataFrame(r, MCOutside) ELSE MacFrame(r)

CmacRequests(hold) ==
  SizedRequests(hold, {<<"0", "6">>}) \cup MacTranslations(hold, {<<"0", "6">>})
===============================================================================
