----------------------------- MODULE MCResolver -----------------------------
(* An instance of Resolver for TLC. *)
EXTENDS Resolver

CONSTANTS d, sub, a4, a6

MCNames == {d, sub}

\* Hosts are allowed and denied by a domain with its subdomain, by the subdomain alone and by
\* address, so that a rule on names and a rule on addresses can disagree; and a port is closed.
MCPolicies ==
    [allowHosts : {{}, {{d, sub}}}, denyHosts : {{{sub}}, {{a6}}}, allowPorts : {{}}, denyPorts : {{}}]
    \cup [allowHosts : {{}, {{a4}}}, denyHosts : {{}}, allowPorts : {{}, {443}}, denyPorts : {{}}]

\* Both families with a duplicate, one family, nothing.
MCAnswers == {<<a4, a6, a4>>, <<a6>>, <<>>}

=============================================================================
