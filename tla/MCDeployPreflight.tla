------------------------- MODULE MCDeployPreflight -------------------------
(* An instance of DeployPreflight for TLC: checkouts of which at most one   *)
(* source is not fit, and Compose files that somebody reads.                *)
EXTENDS DeployPreflight, FiniteSets

Short(source, readOnly) ==
    [form |-> "short", type |-> "", source |-> source, readOnly |-> readOnly]
Long(type, source, readOnly) ==
    [form |-> "long", type |-> type, source |-> source, readOnly |-> readOnly]

MCVolumes ==
    [p \in Programs |->
        IF p \in Executables
        THEN {Short("checkout", TRUE), Short("checkout", FALSE), Short("bare", TRUE),
              Short("", FALSE), Long("", "checkout", TRUE), Long("bind", "bare", TRUE)}
        ELSE {Short("checkout", TRUE), Long("volume", "elsewhere", TRUE)}]

MCDefaults == <<"compose.yaml", "docker-compose.yml">>
MCLists == {<<>>, <<"compose.yaml">>, <<"compose.yaml", "site.yaml", "compose.yaml">>}
MCRollout == <<"wait-installed">>

OneUnfit == {k \in [Sources -> Kinds] :
    \E s \in Sources : \A t \in Sources \ {s} :
        k[t] = IF t \in Executables \cup {Preflight} THEN "executable" ELSE "plain"}

\* The files that nobody reads are left out.
MCInit ==
    /\ list \in MCLists
    /\ sources \in OneUnfit
    /\ \E content \in [{Order[i] : i \in DOMAIN Order} -> Contents] :
          files = [f \in Files |-> IF f \in DOMAIN content THEN content[f] ELSE None]
    /\ Started

MCSpec == MCInit /\ [][Next]_vars
=============================================================================
