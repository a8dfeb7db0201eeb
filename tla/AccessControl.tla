---------------------------- MODULE AccessControl ----------------------------
(***************************************************************************)
(* Which policy the access control rules give to a subject and an object:  *)
(* internal/authorization, with what the validator demands of the rules    *)
(* (internal/configuration/validator/access_control.go).                   *)
(*                                                                         *)
(* A configuration is a record                                             *)
(*    [default, rules, networks, clients]                                  *)
(* where networks is a sequence of groups [name, networks] and clients     *)
(* says whether a client of OpenID Connect has two_factor.  A domain is    *)
(* the sequence of its labels; a resource is the set of paths its regular  *)
(* expression matches.                                                     *)
(***************************************************************************)
EXTENDS Integers, Sequences, FiniteSetsExt

CONSTANTS
    CIDR,       \* CIDR[n]: the addresses of the network that n denotes; a
                \* notation outside of its domain does not parse
    NoUser      \* the empty username

Bypass    == 0
OneFactor == 1
TwoFactor == 2
Denied    == 3

PolicyToLevel(policy) ==
    CASE policy = "bypass" -> Bypass
      [] policy = "one_factor" -> OneFactor
      [] policy = "two_factor" -> TwoFactor
      [] OTHER -> Denied

-----------------------------------------------------------------------------
(***************************************************************************)
(* The rules as the authorizer keeps them (util.go).                       *)
(***************************************************************************)

parseNetworks(notations) == {CIDR[n] : n \in notations \cap DOMAIN CIDR}

\* The first group of a name that has a network at all.
networksMap(config, name) ==
    LET groups == {i \in DOMAIN config.networks :
                      /\ config.networks[i].name = name
                      /\ parseNetworks(config.networks[i].networks) # {}}
    IN IF groups = {} THEN {}
       ELSE parseNetworks(config.networks[Min(groups)].networks)

\* A name that is neither a group nor a network is dropped.
schemaNetworksToACL(config, networks) ==
    UNION {IF networksMap(config, n) # {} THEN networksMap(config, n)
           ELSE parseNetworks({n}) : n \in networks}

\* A subject of the kinds user and group; others are dropped, and so is a list
\* that has none left.
schemaSubjectsToACL(subjects) ==
    {{s \in list : s.kind \in {"user", "group"}} : list \in subjects} \ {{}}

-----------------------------------------------------------------------------
(***************************************************************************)
(* Matching (access_control_rule.go and the files beside it).              *)
(***************************************************************************)

IsAnonymous(subject) == subject.username = NoUser /\ subject.groups = {}

DomainIsMatch(domain, subject, object) ==
    CASE domain.kind = "wildcard" ->
            /\ Len(object.domain) > Len(domain.name)
            /\ domain.name = SubSeq(object.domain,
                                    Len(object.domain) - Len(domain.name) + 1,
                                    Len(object.domain))
      [] domain.kind = "user" -> object.domain = <<subject.username>> \o domain.name
      [] domain.kind = "group" -> /\ Tail(object.domain) = domain.name
                                  /\ Head(object.domain) \in subject.groups
      [] OTHER -> object.domain = domain.name

SubjectIsMatch(s, subject) ==
    IF s.kind = "user" THEN subject.username = s.name
    ELSE s.name \in subject.groups

isMatchForDomains(rule, subject, object) ==
    \/ rule.domains = {}
    \/ \E d \in rule.domains : DomainIsMatch(d, subject, object)

isMatchForResources(rule, object) ==
    rule.resources = {} \/ \E paths \in rule.resources : object.path \in paths

isMatchForMethods(rule, object) ==
    rule.methods = {} \/ object.method \in rule.methods

isMatchForNetworks(config, rule, subject) ==
    LET networks == schemaNetworksToACL(config, rule.networks)
    IN networks = {} \/ \E n \in networks : subject.ip \in n

\* Mutant: rules with subjects do not match anonymous subjects.
isMatchForSubjectsStrict(rule, subject) ==
    LET subjects == schemaSubjectsToACL(rule.subjects)
    IN \/ subjects = {}
       \/ \E list \in subjects : \A s \in list : SubjectIsMatch(s, subject)

\* An anonymous subject may turn out to be any user.
isMatchForSubjects(rule, subject) ==
    LET subjects == schemaSubjectsToACL(rule.subjects)
    IN \/ subjects = {} \/ IsAnonymous(subject)
       \/ \E list \in subjects : \A s \in list : SubjectIsMatch(s, subject)

IsMatch(config, rule, subject, object) ==
    /\ isMatchForDomains(rule, subject, object)
    /\ isMatchForResources(rule, object)
    /\ isMatchForMethods(rule, object)
    /\ isMatchForNetworks(config, rule, subject)
    /\ isMatchForSubjects(rule, subject)

Matching(config, subject, object) ==
    {i \in DOMAIN config.rules : IsMatch(config, config.rules[i], subject, object)}

-----------------------------------------------------------------------------
(***************************************************************************)
(* The authorizer.                                                         *)
(***************************************************************************)

\* The policy of the first rule that matches.
GetRequiredLevel(config, subject, object) ==
    LET matching == Matching(config, subject, object)
    IN PolicyToLevel(IF matching = {} THEN config.default
                     ELSE config.rules[Min(matching)].policy)

\* The clients of the OpenID Connect provider can demand it as well.
IsSecondFactorEnabled(config) ==
    \/ PolicyToLevel(config.default) = TwoFactor
    \/ \E i \in DOMAIN config.rules : PolicyToLevel(config.rules[i].policy) = TwoFactor
    \/ config.clients

-----------------------------------------------------------------------------
(***************************************************************************)
(* What the validator accepts.                                             *)
(***************************************************************************)

IsPolicyValid(policy) == policy \in {"deny", "two_factor", "one_factor", "bypass"}

\* Methods are taken to be known ones, and regular expressions to compile.
ValidateRule(config, rule) ==
    /\ rule.domains # {}
    /\ IsPolicyValid(rule.policy)
    /\ \A n \in rule.networks :
          n \in DOMAIN CIDR \/ \E i \in DOMAIN config.networks :
                                  config.networks[i].name = n
    /\ \A list \in rule.subjects : \A s \in list : s.kind \in {"user", "group", "empty"}
    /\ rule.policy = "bypass" => rule.subjects = {}

ValidateAccessControl(config) ==
    /\ IsPolicyValid(config.default)
    /\ \A i \in DOMAIN config.networks :
          config.networks[i].networks \subseteq DOMAIN CIDR
    /\ config.rules = <<>> => config.default \in {"one_factor", "two_factor"}
    /\ \A i \in DOMAIN config.rules : ValidateRule(config, config.rules[i])
=============================================================================
