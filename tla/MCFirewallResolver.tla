------------------------- MODULE MCFirewallResolver -------------------------
\* FirewallResolver with a critical host, a host named with "www." and its apex,
\* one provider with one block, and a wildcard on a port of its own.
EXTENDS FirewallResolver

MCHost == {"api", "www", "site"}
MCAnswersOf == [h \in MCHost |-> IF h = "api" THEN {{}, {"a1"}} ELSE IF h = "www" THEN {{}, {"a2"}}
                                  ELSE {{}, {"a2"}, {"a3"}}]
MCApex == [h \in {"www"} |-> "site"]
MCHolds == [b \in {"edge", "own"} |-> IF b = "edge" THEN {"a2"} ELSE {}]
MCProviderOf == [b \in {"edge"} |-> "cdn"]

Raw(kind, to, port, wild) == [kind |-> kind, to |-> to, port |-> port, wild |-> wild]
MCBuiltin == {}
MCUserLists == {{Raw("name", "site", "std", FALSE), Raw("v4", "a4", "std", FALSE), Raw("v6", "a5", "std", FALSE)},
                {Raw("name", "www", "std", FALSE), Raw("name", "site", "git", TRUE)}}
MCOldFiles == {[h \in MCHost |-> IF h = "site" THEN {"a3"} ELSE {}]}
=============================================================================
