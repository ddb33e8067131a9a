------------------------------- MODULE Registry -------------------------------
(***************************************************************************)
(* The dispatch table (handlers/mod.rs), filled at start from the handlers *)
(* of a vendor module (handlers/thales/mod.rs) and the stub of noop.rs.    *)
(***************************************************************************)
EXTENDS Naturals, Sequences

Handler(name, codes) == [name |-> name, codes |-> codes]

(* ThalesModule::handlers, with the command_codes of each.                 *)
ThalesHandlers == <<
  Handler("pin", {"CA", "CC", "BQ", "G0"}),
  Handler("pin_change", {"CU", "DU"}),
  Handler("diebold_pin", {"CE", "GA"}),
  Handler("random_pin", {"JA"}),
  Handler("dukpt_pin_verify", {"CK", "CM", "CO", "CQ"}),
  Handler("dukpt_pin_verify_aes", {"GO", "GQ", "GS", "GU"}),
  Handler("pin_verify_non_dukpt", {"DA", "DC", "EA", "EC"}),
  Handler("encrypt_decrypt", {"HE", "HG"}),
  Handler("international_encrypt", {"M0", "M2", "M4"}),
  Handler("dukpt_mac", {"GW"}),
  Handler("issuer_script_mac", {"JU", "KU", "KY"}),
  Handler("cap_arqc", {"K2", "KS"}),
  Handler("emv_decrypt", {"K0"}),
  Handler("kq_arqc", {"KQ"}),
  Handler("kw_arqc", {"KW"}),
  Handler("unionpay_arqc", {"JS"}),
  Handler("hmac", {"LQ", "LS"}),
  Handler("mac", {"C2", "C4", "M6", "M8"}),
  Handler("mac_translate", {"MY"}),
  Handler("legacy_mac", {"MA", "MC", "ME", "MK", "MM", "MO", "MU", "MW", "MQ", "MS"}),
  Handler("cvv", {"CW", "CY", "NY", "RY"}),
  Handler("dynamic_cvv", {"QY", "PM"}),
  Handler("heartbeat", {"B2"}) >>

StubCodes ==
  {"AQ", "BA", "BC", "BE", "BK", "CG", "DE", "DG", "EE", "EG", "FW", "JC", "JE",
   "JG", "LE", "LG", "LO", "NG", "EM", "EU", "EW", "EY", "GM", "A0", "A4", "A6",
   "A8", "AA", "AC", "AE", "AG", "AK", "AM", "AS", "AU", "AW", "BI", "B0", "B8",
   "BG", "BU", "BW", "BS", "BY", "CS", "DW", "DY", "FA", "FC", "FE", "FG", "FK",
   "GC", "GE", "GG", "GK", "GY", "HA", "HC", "HY", "IA", "J6", "J8", "JK", "K8",
   "KA", "KC", "KG", "KI", "L0", "LU", "LW", "MG", "MI", "RI", "RK", "RM", "RO",
   "RQ", "RS", "RU", "RW", "HI", "HK", "HM", "HO", "HQ", "HS", "HU", "HW", "N0",
   "NC", "NI", "NO", "Q0", "Q6", "Q8", "QH", "RA", "SE", "TG", "TY", "UI", "VW",
   "VY", "WC", "WQ", "WW", "WY"}

(* Mutant: the list of commands without a path still has one that got one. *)
BugStubOutOfDate == Handler("not_available", StubCodes \cup {"K0"})

NotAvailableHandler == Handler("not_available", StubCodes)

(* for_module: one after the other registers its codes and overwrites what *)
(* is there, so that a code goes to the last that claims it; the stub is   *)
(* registered after the module's own.                                      *)
for_module(handlers) ==
  LET all == Append(handlers, NotAvailableHandler)
      claims(c) == {i \in DOMAIN all : c \in all[i].codes}
      last(c) == CHOOSE i \in claims(c) : \A j \in claims(c) : j <= i
  IN [c \in UNION {all[i].codes : i \in DOMAIN all} |-> all[last(c)].name]
===============================================================================
