----------------------------- MODULE MCDNSNames -----------------------------
(* DNSNames for TLC: names of up to two labels, with the wildcard that     *)
(* Route 53 lists as \052, and a label it lists in lower case.             *)
EXTENDS DNSNames, TLC

Wildcard == ("*" :> "\\052")
UpperCase == ("WWW" :> "www")
ListedForm == [l \in {"www", "com", "\\052"} |-> l] @@ Wildcard @@ UpperCase
ComDomain == <<"com">>
=============================================================================
