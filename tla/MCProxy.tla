------------------------------- MODULE MCProxy --------------------------------
(* Small instances of Proxy for TLC.  Frames are 2 to 4 bytes long, a read *)
(* returns up to 3, and the cap is the smallest that HeadroomAssumption    *)
(* allows, so frames are split across reads, several arrive in one read,   *)
(* and the cap is reached by a malformed frame.                            *)
EXTENDS Proxy, TLC

CONSTANTS c1, c2, c3

F(code, ok, end) == [code |-> code, ok |-> ok, end |-> end]

(* c1 pipelines two unhandled commands, the first of the largest size      *)
(* (three bytes of it and three more fill the buffer to the cap), and the  *)
(* BufWriter has no room for the second if no flush has succeeded; c2      *)
(* races c1 for the first code and then sends a malformed frame longer     *)
(* than Cap; c3 has a handled command.                                     *)
ThreeStreams ==
  c1 :> <<F("XX", TRUE, 4), F("YY", TRUE, 6)>> @@
  c2 :> <<F("XX", TRUE, 2), F("B2", FALSE, 9)>> @@
  c3 :> <<F("B2", TRUE, 2)>>

(* Two hosts that go quiet, and one that may not or whose responses may    *)
(* not be read: it can hold one of the two permits for ever.               *)
MixedStreams ==
  c1 :> <<F("B2", TRUE, 2), F("XX", TRUE, 4)>> @@
  c2 :> <<F("B2", FALSE, 2)>> @@
  c3 :> <<F("XX", TRUE, 2)>>

Cfg(tls, idle, discover, log) ==
  [tls |-> tls, idle |-> idle, discover |-> discover, log |-> log]

(* Discovery with a log file over TLS, and the production configuration    *)
(* without discovery.                                                      *)
BothModes == {Cfg(TRUE, FALSE, TRUE, TRUE), Cfg(FALSE, TRUE, FALSE, FALSE)}

(* Discovery with an idle timeout, with and without a log file, and        *)
(* production without one.                                                 *)
OtherModes == {Cfg(TRUE, TRUE, TRUE, TRUE), Cfg(FALSE, TRUE, TRUE, FALSE),
               Cfg(FALSE, FALSE, FALSE, FALSE)}

(* A malformed frame that leaves the buffer within the cap, and a command  *)
(* after it; the default configuration, which has no idle timeout.         *)
MalformedStream == c1 :> <<F("B2", FALSE, 2), F("B2", TRUE, 4)>>

Production == {Cfg(FALSE, FALSE, FALSE, FALSE)}

===============================================================================
