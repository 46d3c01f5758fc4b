--------------------------- MODULE MCCertificates ---------------------------
(* Two endpoints, one of which always makes itself a new certificate; the  *)
(* default configuration, and one that asks before it trusts a host first. *)
EXTENDS Certificates

CONSTANTS h1, h2
MCHosts == {h1, h2}
MCModes == {[h \in MCHosts |-> IF h = h1 THEN "GenerateSelfSigned" ELSE "LoadOrSave"]}
Config(unknown, untrusted, trusted) ==
  [s \in Statuses |-> CASE s = "Unknown"   -> unknown
                        [] s = "Untrusted" -> untrusted
                        [] s = "Trusted"   -> trusted]
MCConfigs == {Config("TrustAndStore", "RequestClientAction", "TrustOnce"),
              Config("RequestClientAction", "AbortConnection", "TrustOnce")}
=============================================================================
