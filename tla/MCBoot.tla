------------------------------- MODULE MCBoot -------------------------------
(* A few files, environments and requests on which TLC runs EdgeBoot. *)
EXTENDS EdgeBoot, MCChain

FewRequests ==
    {[Plain EXCEPT !.path = p, !.auth = a, !.cookie = c] :
        p \in {<<"api", "status">>, <<"api", "info">>}, a \in {"none", "bad", "member"}, c \in {"none", "sid"}}

Disk(built, introspection, defects) ==
    [built |-> built, introspection |-> introspection, defects |-> defects]
DotEnv(off, defects, secret) ==
    [off |-> off, defects |-> defects, introspection_secret |-> secret, enforce |-> TRUE]

SomeDisks ==
    {Disk(Plugins, FALSE, {}), Disk(Plugins, TRUE, {"gateway-timeout"}), Disk({}, FALSE, {})}
SomeDotEnvs ==
    {DotEnv({}, {}, FALSE), DotEnv({}, {"session-resolver"}, TRUE), DotEnv({"jwt-headers"}, {}, FALSE)}

\* What the theorems ask of a configuration, which the runs' meets.
ASSUME ApartEndpoints ==
    /\ SessionSkip \subseteq JwtSkip
    /\ \A e \in Endpoints :
        /\ e.path # <<>> /\ \A i \in DOMAIN e.path : e.path[i] # ""
        /\ e.auth = "protected" \/ e.roles # {} => Apart(e)

=============================================================================
