------------------------------ MODULE MCPortal ------------------------------
(***************************************************************************)
(* A user of one group, one application and the configurations that treat  *)
(* the two differently.                                                    *)
(***************************************************************************)
EXTENDS Portal

MCCIDR == [n \in {"10.0.0.0/8"} |-> {"10.0.0.1"}]

John == [username |-> "john", groups |-> {"dev"}, ip |-> "10.0.0.1"]

App == <<"app", "example", "com">>
Page(method) == [domain |-> App, path |-> "/", method |-> method]
MCObjects == {Page("GET"), Page("POST")}
MCElsewhere == [domain |-> <<"example", "org">>, path |-> "/", method |-> "GET"]

AppRule(policy) ==
    [domains |-> {[kind |-> "name", name |-> App]}, resources |-> {}, methods |-> {},
     networks |-> {}, subjects |-> {}, policy |-> policy]
WithMethods(rule, methods) == [rule EXCEPT !.methods = methods]
ForUser(rule, kind, name) ==
    [rule EXCEPT !.subjects = {{[kind |-> kind, name |-> name]}}]
FromInside(rule) == [rule EXCEPT !.networks = {"internal"}]
ForAll(rule) ==
    [rule EXCEPT !.domains = {[kind |-> "wildcard", name |-> <<"example", "com">>]}]

Config(default, rules) ==
    [default |-> default, rules |-> rules, clients |-> FALSE,
     networks |-> <<[name |-> "internal", networks |-> {"10.0.0.0/8"}]>>]

\* One factor; two; two for one of the methods and nothing from outside of a
\* network; one for a group; nothing for this user; two for a client of OpenID
\* Connect.
MCConfigs ==
    {Config("one_factor", <<>>),
     Config("two_factor", <<>>),
     Config("deny", <<WithMethods(AppRule("two_factor"), {"GET"}),
                      FromInside(AppRule("one_factor"))>>),
     Config("deny", <<ForUser(AppRule("one_factor"), "group", "dev"), AppRule("bypass")>>),
     Config("deny", <<ForAll(ForUser(AppRule("one_factor"), "user", "harry"))>>),
     [Config("one_factor", <<>>) EXCEPT !.clients = TRUE]}

\* The validator accepts them all.
ASSUME ConfigsAreValid == \A c \in MCConfigs : ValidateAccessControl(c)
=============================================================================
