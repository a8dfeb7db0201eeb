--------------------------- MODULE Configuration ----------------------------
(***************************************************************************)
(* Reading the configuration and building the providers from it            *)
(* (internal/configuration/reader.go, internal/configuration/validator/,   *)
(* cmd/authelia/main.go and the constructors it calls).                    *)
(*                                                                         *)
(* The validators run one after another over one configuration: they fill  *)
(* in what was left out, collect errors and go on.  Without an error the   *)
(* configuration is accepted, and the constructors use it, which panic or  *)
(* exit where they meet what a validator should have refused.              *)
(*                                                                         *)
(* A text is "" when it was left out; other texts stand for what the code  *)
(* tells apart.  A section that is a pointer has a field "given".          *)
(***************************************************************************)
EXTENDS Integers, Sequences, FiniteSets

CONSTANTS
    Configurations,     \* what the file and the environment may say
    Word                \* the number of values of an int (2^64, scaled down)

VARIABLES
    step,       \* the function that runs next
    config,
    pushed,     \* what the validators have pushed
    stop        \* why the process stopped, if it did

configVars == <<step, config, pushed, stop>>

Errs(condition, error) == IF condition THEN {error} ELSE {}
Default(text, default) == IF text = "" THEN default ELSE text
DefaultInt(n, default) == IF n = 0 THEN default ELSE n

-----------------------------------------------------------------------------
(***************************************************************************)
(* Durations (internal/utils/time.go).  Their units are scaled down with   *)
(* the word, in their order.                                               *)
(***************************************************************************)

MaxInt == Word \div 2 - 1
Wrap(n) == ((n + Word \div 2) % Word) - Word \div 2

UnitLength(unit) ==
    [s |-> 2, m |-> 3, h |-> 4, d |-> 5, w |-> 6, M |-> 7, y |-> 8][unit]

\* The digits n with a unit, without one, or some other text.  With a unit the
\* error of Atoi, which then gives the largest int, is ignored.
ParseDurationString(text) ==
    CASE text.form = "unit" ->
            [ok |-> TRUE,
             value |-> Wrap((IF text.n > MaxInt THEN MaxInt ELSE text.n) * UnitLength(text.unit))]
      [] text.form = "digits" ->
            [ok |-> text.n <= MaxInt,
             value |-> IF text.n > MaxInt THEN 0 ELSE Wrap(text.n * UnitLength("s"))]
      [] text.form = "" -> [ok |-> TRUE, value |-> 0]
      [] OTHER -> [ok |-> FALSE, value |-> 0]

DefaultDuration(text, n, unit) ==
    IF text.form = "" THEN [form |-> "unit", n |-> n, unit |-> unit] ELSE text

-----------------------------------------------------------------------------
(***************************************************************************)
(* ValidateSecrets.                                                        *)
(***************************************************************************)

SecretNames ==
    {"jwt", "session", "duo", "redis", "sentinel", "ldap", "smtp", "mysql",
     "postgres", "hmac", "issuer"}

\* A secret is in the configuration or in a file that the environment names.
secretErrors(secret) ==
    Errs(secret.file # "" /\ secret.value # "", "secret twice")
        \cup Errs(secret.file = "missing", "secret file")

getSecretValue(secret) ==
    IF secret.file \in {"", "missing"} THEN secret.value
    ELSE IF secret.file = "empty file" THEN "" ELSE secret.file

\* The secrets of the sections that are given.
SecretsUsed(c) ==
    {"jwt", "session"}
        \cup Errs(c.duo, "duo")
        \cup Errs(c.session.redis.given, "redis")
        \cup Errs(c.session.redis.given /\ c.session.redis.ha.given, "sentinel")
        \cup Errs(c.backend.ldap.given, "ldap")
        \cup Errs(c.notifier.given /\ c.notifier.smtp.given, "smtp")
        \cup Errs(c.storage.mysql.given, "mysql")
        \cup Errs(c.storage.postgres.given, "postgres")
        \cup (IF c.oidc.given THEN {"hmac", "issuer"} ELSE {})

\* Each used secret becomes its value.
ValidateSecrets(c) ==
    [c EXCEPT !.secrets = [s \in SecretNames |->
        IF s \in SecretsUsed(c)
        THEN [c.secrets[s] EXCEPT !.value = getSecretValue(c.secrets[s])] ELSE c.secrets[s]]]

ValidateSecretsErrors(c) == UNION {secretErrors(c.secrets[s]) : s \in SecretsUsed(c)}

Secret(c, s) == c.secrets[s].value

-----------------------------------------------------------------------------
(***************************************************************************)
(* The root of ValidateConfiguration, the theme, the log, TOTP, the server *)
(***************************************************************************)

ValidateRoot(c) ==
    [c EXCEPT !.root.host = Default(@, "0.0.0.0"), !.root.port = DefaultInt(@, 9091)]

ValidateRootErrors(c) ==
    Errs((c.root.tlsKey = "") # (c.root.tlsCert = ""), "tls pair")
        \cup Errs(c.root.certificates \in {"missing", "file"}, "certificates directory")
        \cup Errs(Secret(c, "jwt") = "", "jwt secret")
        \cup Errs(c.root.redirection \in {"unparsable", "relative"}, "redirection url")

\* The expression is not anchored: a text that contains a theme passes.
ValidateTheme(c) == [c EXCEPT !.root.theme = Default(@, "light")]
ValidateThemeErrors(c) == Errs(ValidateTheme(c).root.theme = "unknown", "theme")

\* The old keys are used where the new ones are left out.
ValidateLogging(c) ==
    [c EXCEPT !.log.level = Default(Default(@, c.log.oldLevel), "info"),
              !.log.format = Default(Default(@, c.log.oldFormat), "text"),
              !.log.path = Default(@, c.log.oldPath)]

ValidateLoggingErrors(c) ==
    Errs(ValidateLogging(c).log.level \notin {"trace", "debug", "info", "warn", "error"}, "log level")

\* skew is a pointer; its default is 1.
ValidateTOTP(c) ==
    [c EXCEPT !.totp = [given |-> TRUE,
                        period |-> IF c.totp.given THEN DefaultInt(c.totp.period, 30) ELSE 30,
                        skewGiven |-> TRUE,
                        skew |-> IF c.totp.given /\ c.totp.skewGiven THEN c.totp.skew ELSE 1]]

ValidateTOTPErrors(c) ==
    Errs(ValidateTOTP(c).totp.period < 0, "totp period")
        \cup Errs(ValidateTOTP(c).totp.skew < 0, "totp skew")

ValidateServer(c) ==
    [c EXCEPT !.server.path = IF @ = "letters" THEN "/letters" ELSE @,
              !.server.readBuffer = DefaultInt(@, 4096),
              !.server.writeBuffer = DefaultInt(@, 4096)]

ValidateServerErrors(c) ==
    Errs(c.server.path \in {"with slash", "with dash"}, "server path")
        \cup Errs(c.server.readBuffer < 0, "read buffer")
        \cup Errs(c.server.writeBuffer < 0, "write buffer")

-----------------------------------------------------------------------------
(***************************************************************************)
(* The authentication backend.                                             *)
(***************************************************************************)

DefaultPassword ==
    [given |-> TRUE, algorithm |-> "argon2id", iterations |-> 1, saltLength |-> 16,
     parallelism |-> 8, memory |-> 64, keyLength |-> 32]

ToLower(text) == IF text = "ARGON2ID" THEN "argon2id" ELSE text

\* The algorithm is settled first: the other defaults depend on it.
PasswordDefaults(p) ==
    LET algorithm == Default(ToLower(p.algorithm), "argon2id")
        argon == algorithm = "argon2id" IN
    IF ~p.given THEN DefaultPassword
    ELSE [given |-> TRUE, algorithm |-> algorithm,
          iterations |-> DefaultInt(p.iterations, IF argon THEN 1 ELSE 50000),
          saltLength |-> DefaultInt(p.saltLength, 16),
          parallelism |-> IF argon THEN DefaultInt(p.parallelism, 8) ELSE p.parallelism,
          memory |-> IF argon THEN DefaultInt(p.memory, 64) ELSE p.memory,
          keyLength |-> IF argon THEN DefaultInt(p.keyLength, 32) ELSE p.keyLength]

\* Mutant: the salt may be as short as the message says.
PasswordErrorsAsReported(p) ==
    LET q == PasswordDefaults(p) IN Errs(q.saltLength < 2, "salt length")

\* A value that is left out is not looked at: memory, as configured, is
\* compared with the parallelism, which may be the default.
PasswordErrors(p) ==
    LET q == PasswordDefaults(p)
        argon == q.algorithm = "argon2id" IN
    IF ~p.given THEN {}
    ELSE Errs(q.algorithm \notin {"argon2id", "sha512"}, "algorithm")
            \cup Errs(q.iterations < 1, "iterations")
            \cup Errs(q.saltLength < 8, "salt length")
            \cup Errs(argon /\ q.parallelism < 1, "parallelism")
            \cup Errs(argon /\ p.memory # 0 /\ p.memory < q.parallelism * 8, "memory")
            \cup Errs(argon /\ q.keyLength < 16, "key length")

Attributes == {"username", "group", "mail", "displayName"}

\* Active Directory has filters by default, a custom server has none.
LDAPDefaults(l, serverName) ==
    LET ad == l.implementation = "activedirectory"
        known == ad \/ l.implementation \in {"", "custom"} IN
    [l EXCEPT !.implementation = Default(@, "custom"),
              !.tlsVersion = Default(@, "TLS1.2"),
              !.tlsServerName = Default(@, serverName),
              !.usersFilter = IF ad THEN Default(@, "good") ELSE @,
              !.groupsFilter = IF ad THEN Default(@, "good") ELSE @,
              !.attributes = IF known THEN Attributes ELSE @,
              !.url = IF @ \in {"unparsable", "http"} THEN "" ELSE @]

\* "old": a filter with the placeholder {0}; "bare": without parentheses;
\* "no attribute", "no input": without that placeholder.
LDAPErrors(l, password) ==
    LET q == LDAPDefaults(l, "host") IN
    Errs(q.tlsVersion = "unknown", "tls version")
        \cup Errs(q.implementation = "unknown", "implementation")
        \cup Errs(q.usersFilter \in {"", "old", "bare", "no attribute", "no input"}, "users filter")
        \cup Errs(q.groupsFilter \in {"", "old", "bare"}, "groups filter")
        \cup Errs(l.url \in {"", "unparsable", "http"}, "url")
        \cup Errs(l.user = "", "user") \cup Errs(password = "", "password")
        \cup Errs(l.baseDN = "", "base dn")

\* The file is looked at first; a second backend is an error of its own.
ValidateAuthenticationBackend(c) ==
    [c EXCEPT !.backend.file.password =
                  IF c.backend.file.given THEN PasswordDefaults(@) ELSE @,
              !.backend.ldap = IF c.backend.ldap.given /\ ~c.backend.file.given
                               THEN LDAPDefaults(@, IF @.url = "ldap" THEN "host" ELSE "") ELSE @,
              !.backend.refresh = DefaultDuration(@, 5, "m")]

ValidateAuthenticationBackendErrors(c) ==
    LET b == c.backend IN
    Errs(b.ldap.given = b.file.given, "one backend")
        \cup Errs(b.file.given /\ b.file.path = "", "users database")
        \cup (IF b.file.given THEN PasswordErrors(b.file.password) ELSE {})
        \cup (IF b.ldap.given /\ ~b.file.given THEN LDAPErrors(b.ldap, Secret(c, "ldap")) ELSE {})
        \cup Errs(~ParseDurationString(b.refresh).ok /\ b.refresh.form \notin {"disable", "always"},
                  "refresh interval")

-----------------------------------------------------------------------------
(***************************************************************************)
(* Access control.  The networks of a group and of a rule: "ip" stands for *)
(* an address or a CIDR range, any other text may be the name of a group.  *)
(***************************************************************************)

IsPolicyValid(policy) == policy \in {"deny", "one_factor", "two_factor", "bypass"}
IsNetworkValid(network) == network = "ip"
IsNetworkGroupValid(c, network) == \E g \in c.acl.groups : g.name = network
IsResourceValid(resource) == resource # "broken"
IsSubjectValid(subject) == subject \in {"", "user:", "group:"}
IsMethodValid(method) == method \in {"GET", "get"}

ValidateAccessControl(c) == [c EXCEPT !.acl.defaultPolicy = Default(@, "deny")]

ValidateAccessControlErrors(c) ==
    Errs(~IsPolicyValid(ValidateAccessControl(c).acl.defaultPolicy), "default policy")
        \cup Errs(\E g \in c.acl.groups : \E n \in g.networks : ~IsNetworkValid(n), "network group")

\* Mutant: resources are not compiled.
RuleErrorsNoResources(c, rule) == Errs(rule.domains = {}, "domains")

RuleErrors(c, rule) ==
    Errs(rule.domains = {}, "domains")
        \cup Errs(~IsPolicyValid(rule.policy), "policy")
        \cup Errs(\E n \in rule.networks : ~IsNetworkValid(n) /\ ~IsNetworkGroupValid(c, n), "networks")
        \cup Errs(\E r \in rule.resources : ~IsResourceValid(r), "resources")
        \cup Errs(\E s \in rule.subjects : ~IsSubjectValid(s), "subjects")
        \cup Errs(\E m \in rule.methods : ~IsMethodValid(m), "methods")
        \cup Errs(rule.policy = "bypass" /\ rule.subjects # {}, "bypass with subjects")

\* Without rules the default policy has to ask for a factor.
ValidateRulesErrors(c) ==
    IF c.acl.rules = <<>>
    THEN Errs(c.acl.defaultPolicy \notin {"one_factor", "two_factor"}, "no rules")
    ELSE UNION {RuleErrors(c, c.acl.rules[i]) : i \in DOMAIN c.acl.rules}

-----------------------------------------------------------------------------
(***************************************************************************)
(* Sessions and regulation.                                                *)
(***************************************************************************)

BadPort(port) == port < 0 \/ port > 65535

\* The nodes up to the first one without a host get the port of a sentinel.
NodeDefaults(nodes) ==
    [i \in DOMAIN nodes |->
        IF \A j \in 1..i : nodes[j].host # ""
        THEN [nodes[i] EXCEPT !.port = DefaultInt(@, 26379)] ELSE nodes[i]]

RedisDefaults(r) ==
    CASE r.ha.given /\ r.ha.sentinel # "" ->
            [r EXCEPT !.port = DefaultInt(@, 26379), !.ha.nodes = NodeDefaults(@)]
      [] ~r.ha.given -> [r EXCEPT !.pool = IF @ <= 0 THEN 8 ELSE @]
      [] OTHER -> r

RedisErrors(r, secret) ==
    CASE r.ha.given /\ r.ha.sentinel = "" -> {"sentinel name"}
      [] r.ha.given /\ r.ha.sentinel # "" ->
            Errs(BadPort(r.port), "redis port")
                \cup Errs(r.host = "" /\ r.ha.nodes = <<>>, "redis host or nodes")
                \cup Errs(secret = "", "session secret")
                \cup Errs(\E i \in DOMAIN r.ha.nodes : r.ha.nodes[i].host = "", "redis node")
      [] OTHER ->
            Errs(r.host = "", "redis host")
                \cup Errs(secret = "", "session secret")
                \cup Errs((r.host # "/socket" /\ r.port = 0) \/ BadPort(r.port), "redis port")

ValidateSession(c) ==
    [c EXCEPT !.session.name = Default(@, "authelia_session"),
              !.session.redis = IF @.given THEN RedisDefaults(@) ELSE @,
              !.session.expiration = DefaultDuration(@, 1, "h"),
              !.session.inactivity = DefaultDuration(@, 5, "m"),
              !.session.rememberMe = DefaultDuration(@, 1, "M"),
              !.session.sameSite = Default(@, "lax")]

SessionDurations(session) == {session.expiration, session.inactivity, session.rememberMe}

ValidateSessionErrors(c) ==
    (IF c.session.redis.given THEN RedisErrors(c.session.redis, Secret(c, "session")) ELSE {})
        \cup Errs(\E d \in SessionDurations(c.session) : ~ParseDurationString(d).ok, "session duration")
        \cup Errs(c.session.domain \in {"", "*.domain"}, "session domain")
        \cup Errs(c.session.sameSite \notin {"", "none", "lax", "strict"}, "same site")

ValidateRegulation(c) ==
    [c EXCEPT !.regulation.given = TRUE,
              !.regulation.findTime =
                  IF c.regulation.given THEN DefaultDuration(@, 2, "m") ELSE DefaultDuration([form |-> ""], 2, "m"),
              !.regulation.banTime =
                  IF c.regulation.given THEN DefaultDuration(@, 5, "m") ELSE DefaultDuration([form |-> ""], 5, "m")]

ValidateRegulationErrors(c) ==
    LET find == ParseDurationString(ValidateRegulation(c).regulation.findTime)
        ban == ParseDurationString(ValidateRegulation(c).regulation.banTime) IN
    Errs(~find.ok, "find time") \cup Errs(~ban.ok, "ban time")
        \cup Errs(find.value > ban.value, "find time above ban time")

-----------------------------------------------------------------------------
(***************************************************************************)
(* Storage and notifier.                                                   *)
(***************************************************************************)

SQLErrors(sql, password) ==
    Errs(password = "" \/ sql.username = "", "sql credentials")
        \cup Errs(sql.database = "", "sql database")

\* MySQL goes first here, and the SSL mode is only filled in for the storage
\* that is looked at.
ValidateStorage(c) ==
    [c EXCEPT !.storage.postgres.sslMode =
        IF c.storage.postgres.given /\ ~c.storage.mysql.given THEN Default(@, "disable") ELSE @]

ValidateStorageErrors(c) ==
    LET s == ValidateStorage(c).storage IN
    CASE s.mysql.given -> SQLErrors(s.mysql, Secret(c, "mysql"))
      [] ~s.mysql.given /\ s.postgres.given ->
            SQLErrors(s.postgres, Secret(c, "postgres"))
                \cup Errs(s.postgres.sslMode \notin {"disable", "require", "verify-ca", "verify-full"}, "ssl mode")
      [] ~s.mysql.given /\ ~s.postgres.given /\ s.local.given -> Errs(s.local.path = "", "storage path")
      [] OTHER -> {"no storage"}

ValidateNotifier(c) ==
    IF c.notifier.given /\ c.notifier.smtp.given /\ ~c.notifier.filesystem.given
    THEN [c EXCEPT !.notifier.smtp.checkAddress = Default(@, "test@authelia.com"),
                   !.notifier.smtp.subject = Default(@, "[Authelia] {title}"),
                   !.notifier.smtp.identifier = Default(@, "localhost"),
                   !.notifier.smtp.tlsServerName = Default(@, c.notifier.smtp.host)]
    ELSE c

ValidateNotifierErrors(c) ==
    LET n == c.notifier IN
    CASE ~n.given -> {"no notifier"}
      [] n.given /\ n.smtp.given = n.filesystem.given -> {"one notifier"}
      [] n.given /\ n.filesystem.given /\ ~n.smtp.given -> Errs(n.filesystem.filename = "", "filename")
      [] OTHER -> Errs(n.smtp.host = "", "smtp host") \cup Errs(n.smtp.port = 0, "smtp port")
                      \cup Errs(n.smtp.sender = "", "smtp sender")

-----------------------------------------------------------------------------
(***************************************************************************)
(* OpenID Connect, and the keys of the file.                               *)
(***************************************************************************)

Lifespans == {"access", "code", "id", "refresh"}

ValidScopes == {"openid", "email", "profile", "groups", "offline_access"}

\* openid is added to scopes that lack it.
ClientDefaults(client) ==
    [client EXCEPT
        !.description = Default(@, client.id),
        !.policy = Default(@, "two_factor"),
        !.scopes = IF @ = {} THEN ValidScopes \ {"offline_access"} ELSE @ \cup {"openid"},
        !.grantTypes = IF @ = {} THEN {"refresh_token", "authorization_code"} ELSE @,
        !.responseModes = IF @ = {} THEN {"form_post", "query", "fragment"} ELSE @,
        !.responseTypes = IF @ = {} THEN {"code"} ELSE @,
        !.algorithm = Default(@, "none")]

ClientErrors(client) ==
    Errs(client.id = "", "client id")
        \cup Errs(client.secret = "", "client secret")
        \cup Errs(client.policy \notin {"", "one_factor", "two_factor"}, "client policy")
        \cup Errs(~(client.scopes \subseteq ValidScopes), "scopes")
        \cup Errs("unknown" \in client.grantTypes, "grant types")
        \cup Errs("unknown" \in client.responseModes, "response modes")
        \cup Errs(client.algorithm \notin {"", "none", "RS256"}, "userinfo algorithm")
        \cup Errs(client.redirectURIs \cap {"unparsable", "ftp"} # {}, "redirect uris")

\* EqualFold.
FoldID(id) == IF id = "A" THEN "a" ELSE id

\* Mutant: only neighbours are compared.
SameIDNeighbours(clients) ==
    \E i \in DOMAIN clients \ {1} : FoldID(clients[i].id) = FoldID(clients[i - 1].id)

SameID(clients) ==
    \E i, j \in DOMAIN clients :
        i < j /\ clients[i].id # "" /\ FoldID(clients[i].id) = FoldID(clients[j].id)

ValidateOIDC(c) ==
    IF ~c.oidc.given THEN c
    ELSE [c EXCEPT
            !.oidc.lifespans = [l \in Lifespans |-> DefaultInt(c.oidc.lifespans[l], 1)],
            !.oidc.clients = [i \in DOMAIN c.oidc.clients |-> ClientDefaults(c.oidc.clients[i])]]

ValidateOIDCErrors(c) ==
    IF ~c.oidc.given THEN {}
    ELSE Errs(Secret(c, "issuer") = "", "issuer key")
            \cup UNION {ClientErrors(c.oidc.clients[i]) : i \in DOMAIN c.oidc.clients}
            \cup Errs(SameID(c.oidc.clients), "duplicate client ids")
            \cup Errs(c.oidc.clients = <<>>, "no clients")

\* Keys that were replaced or removed have an error of their own.
ValidateKeysErrors(c) ==
    Errs("replaced" \in c.keys, "replaced key") \cup Errs("removed" \in c.keys, "removed key")
        \cup Errs("unknown" \in c.keys, "unknown key")

-----------------------------------------------------------------------------
(***************************************************************************)
(* Read.                                                                   *)
(***************************************************************************)

AlgorithmTexts == {"", "argon2id", "ARGON2ID", "sha512", "unknown"}

PasswordConfigurations ==
    [given : BOOLEAN, algorithm : AlgorithmTexts, iterations : Int, saltLength : Int,
     parallelism : Int, memory : Int, keyLength : Int]

\* What viper.Unmarshal fills in: the sections, and the settings of passwords.
IsConfiguration(c) ==
    /\ DOMAIN c = {"root", "duo", "secrets", "log", "totp", "server", "backend", "acl",
                   "session", "regulation", "storage", "notifier", "oidc", "keys"}
    /\ DOMAIN c.backend = {"file", "ldap", "refresh"}
    /\ c.backend.file \in [given : BOOLEAN, path : STRING, password : PasswordConfigurations]

ConfigInit ==
    /\ step = "ValidateSecrets"
    /\ config \in Configurations
    /\ IsConfiguration(config)
    /\ pushed = {}
    /\ stop = ""

\* A validator makes c of the configuration and pushes e.
Validates(function, c, e, next) ==
    /\ step = function
    /\ step' = next
    /\ config' = c
    /\ pushed' = pushed \cup e
    /\ UNCHANGED stop

\* The parts of ValidateConfiguration in their order.
ReadSecrets ==
    Validates("ValidateSecrets", ValidateSecrets(config), ValidateSecretsErrors(config), "root")
ReadRoot ==
    Validates("root", ValidateRoot(config), ValidateRootErrors(config), "ValidateTheme")
ReadTheme ==
    Validates("ValidateTheme", ValidateTheme(config), ValidateThemeErrors(config), "ValidateLogging")
ReadLogging ==
    Validates("ValidateLogging", ValidateLogging(config), ValidateLoggingErrors(config), "ValidateTOTP")
ReadTOTP ==
    Validates("ValidateTOTP", ValidateTOTP(config), ValidateTOTPErrors(config), "ValidateAuthenticationBackend")
ReadBackend ==
    Validates("ValidateAuthenticationBackend", ValidateAuthenticationBackend(config),
              ValidateAuthenticationBackendErrors(config), "ValidateAccessControl")
ReadAccessControl ==
    Validates("ValidateAccessControl", ValidateAccessControl(config),
              ValidateAccessControlErrors(config), "ValidateRules")
ReadRules ==
    Validates("ValidateRules", config, ValidateRulesErrors(config), "ValidateSession")
ReadSession ==
    Validates("ValidateSession", ValidateSession(config), ValidateSessionErrors(config), "ValidateRegulation")
ReadRegulation ==
    Validates("ValidateRegulation", ValidateRegulation(config), ValidateRegulationErrors(config), "ValidateServer")
ReadServer ==
    Validates("ValidateServer", ValidateServer(config), ValidateServerErrors(config), "ValidateStorage")
ReadStorage ==
    Validates("ValidateStorage", ValidateStorage(config), ValidateStorageErrors(config), "ValidateNotifier")
ReadNotifier ==
    Validates("ValidateNotifier", ValidateNotifier(config), ValidateNotifierErrors(config), "validateOIDC")
ReadOIDC ==
    Validates("validateOIDC", ValidateOIDC(config), ValidateOIDCErrors(config), "ValidateKeys")
ReadKeys ==
    Validates("ValidateKeys", config, ValidateKeysErrors(config), "startServer")

ReadConfiguration ==
    \/ ReadSecrets \/ ReadRoot \/ ReadTheme \/ ReadLogging \/ ReadTOTP \/ ReadBackend
    \/ ReadAccessControl \/ ReadRules \/ ReadSession \/ ReadRegulation \/ ReadServer
    \/ ReadStorage \/ ReadNotifier \/ ReadOIDC \/ ReadKeys

-----------------------------------------------------------------------------
(***************************************************************************)
(* startServer.                                                            *)
(***************************************************************************)

Constructors ==
    <<"startServer", "NewX509CertPool", "storage", "backend", "notifier",
      "NewAuthorizer", "NewProvider", "NewRegulator", "NewOpenIDConnectProvider", "serving">>

\* A constructor: why it stops the process, or "".
Constructs(i, reason) ==
    /\ stop = ""
    /\ step = Constructors[i]
    /\ stop' = reason
    /\ step' = IF reason = "" THEN Constructors[i + 1] ELSE step
    /\ UNCHANGED <<config, pushed>>

Reason(condition, reason) == IF condition THEN reason ELSE ""

CheckErrors == Constructs(1, Reason(pushed # {}, "errors"))

\* A directory that cannot be read, or a certificate in it.
NewX509CertPool == Constructs(2, Reason(config.root.certificates = "bad certificate", "certificates"))

\* PostgreSQL goes first here.
StorageUsed(c) ==
    CASE c.storage.postgres.given -> "postgres"
      [] ~c.storage.postgres.given /\ c.storage.mysql.given -> "mysql"
      [] ~c.storage.postgres.given /\ ~c.storage.mysql.given /\ c.storage.local.given -> "local"
      [] OTHER -> ""

NewStorage == Constructs(3, Reason(StorageUsed(config) = "", "unrecognized storage"))

NewBackend ==
    Constructs(4, Reason(~config.backend.file.given /\ ~config.backend.ldap.given, "unrecognized backend"))

\* config.Notifier is a pointer.
NewNotifier ==
    Constructs(5, CASE ~config.notifier.given -> "nil pointer"
                    [] config.notifier.given /\ ~config.notifier.smtp.given
                          /\ ~config.notifier.filesystem.given -> "unrecognized notifier"
                    [] OTHER -> "")

\* NewAccessControlRules: MustCompile, and the domain after a placeholder and
\* the dot that should follow it.
NewAuthorizer ==
    LET rules == {config.acl.rules[i] : i \in DOMAIN config.acl.rules} IN
    Constructs(6, IF \E r \in rules : "{user}" \in r.domains THEN "domain"
                  ELSE Reason(\E r \in rules : \E x \in r.resources : ~IsResourceValid(x),
                              "resource"))

\* The expiration is parsed too, with its error ignored.
NewProvider ==
    Constructs(7, Reason(\E d \in {config.session.rememberMe, config.session.inactivity} :
                            ~ParseDurationString(d).ok, "session duration"))

NewRegulator ==
    LET find == ParseDurationString(config.regulation.findTime)
        ban == ParseDurationString(config.regulation.banTime) IN
    Constructs(8, Reason(~find.ok \/ ~ban.ok \/ find.value > ban.value, "regulation"))

\* The key is parsed here for the first time.
NewOpenIDConnectProvider ==
    Constructs(9, Reason(config.oidc.given /\ Secret(config, "issuer") = "unparsable", "issuer key"))

\* A database, a directory, a mail server or a file cannot be reached.
Unreachable ==
    /\ stop = ""
    /\ step \in {"NewX509CertPool", "storage", "backend", "notifier", "NewProvider"}
    /\ stop' = "unreachable"
    /\ UNCHANGED <<step, config, pushed>>

StartServer ==
    \/ CheckErrors \/ NewX509CertPool \/ NewStorage \/ NewBackend \/ NewNotifier
    \/ NewAuthorizer \/ NewProvider \/ NewRegulator \/ NewOpenIDConnectProvider
    \/ Unreachable

ConfigNext == ReadConfiguration \/ StartServer

ConfigSpec == ConfigInit /\ [][ConfigNext]_configVars

-----------------------------------------------------------------------------
(***************************************************************************)
(* HashPassword (internal/authentication/password_hash.go).                *)
(***************************************************************************)

validateArgon2idSettings(memory, parallelism, iterations, keyLength) ==
    /\ memory >= 8
    /\ parallelism >= 1
    /\ memory >= parallelism * 8
    /\ keyLength >= 16
    /\ iterations >= 1

\* HashPassword as UpdatePassword calls it, with memory in KiB and no salt.
HashPasswordSucceeds(p) ==
    /\ p.algorithm \in {"argon2id", "sha512"}
    /\ p.algorithm = "argon2id" =>
          validateArgon2idSettings(p.memory * 1024, p.parallelism, p.iterations, p.keyLength)
    /\ p.saltLength >= 8

-----------------------------------------------------------------------------
(***************************************************************************)
(* Properties.                                                             *)
(***************************************************************************)

\* Read has returned a configuration.
Accepted == step \in {Constructors[i] : i \in 2..Len(Constructors)}

\* startServer stops for what Read cannot know, or does not look at: a
\* certificate, the OpenID Connect key, a domain that is only a placeholder.  No
\* constructor panics or exits over anything else in a configuration that was
\* accepted.
AcceptedConfigurationStarts ==
    stop \in {"", "errors", "unreachable", "certificates", "issuer key", "domain"}

\* With the accepted settings a new password can be hashed (UpdatePassword):
\* what the validator lets pass HashPassword, which checks again and in another
\* unit, never refuses.  The exception is a parallelism that is too large for the
\* default memory: memory that is left out is not compared with it.
PasswordsCanBeHashed ==
    LET p == config.backend.file.password IN
    Accepted /\ config.backend.file.given
             /\ (p.memory # DefaultPassword.memory \/ p.parallelism <= 8192) =>
        HashPasswordSucceeds(p)

StoragesGiven(c) == {s \in {"postgres", "mysql", "local"} : c.storage[s].given}

ServicesComplete(c) ==
    LET sql == c.storage[StorageUsed(c)]
        redis == c.session.redis IN
    /\ Secret(c, "jwt") # ""
    /\ StoragesGiven(c) \in {{"postgres"}, {"mysql"}} =>
          sql.username # "" /\ sql.database # "" /\ Secret(c, StorageUsed(c)) # ""
    /\ StoragesGiven(c) = {"local"} => c.storage.local.path # ""
    /\ c.notifier.smtp.given # c.notifier.filesystem.given
    /\ c.notifier.smtp.given => c.notifier.smtp.host # "" /\ c.notifier.smtp.tlsServerName # ""
    /\ c.backend.ldap.given => /\ Secret(c, "ldap") # "" /\ c.backend.ldap.url = "ldap"
                               /\ c.backend.ldap.tlsServerName # ""
                               /\ c.backend.ldap.attributes = Attributes
    /\ redis.given =>
          /\ Secret(c, "session") # ""
          /\ \/ redis.host = "/socket"
             \/ redis.host # "" /\ redis.port \in 1..65535
             \/ \E i \in DOMAIN redis.ha.nodes : redis.ha.nodes[i].host # "" /\ redis.ha.nodes[i].port # 0

NumbersFit(c) ==
    /\ c.totp.period > 0 /\ c.totp.skewGiven /\ c.totp.skew >= 0
    /\ c.server.readBuffer > 0 /\ c.server.writeBuffer > 0
    /\ \A l \in Lifespans : c.oidc.given => c.oidc.lifespans[l] # 0

ClientsUsable(clients) ==
    /\ Cardinality({clients[i].id : i \in DOMAIN clients}) = Len(clients)
    /\ \A i \in DOMAIN clients :
          /\ clients[i].id # "" /\ clients[i].secret # ""
          /\ clients[i].policy \in {"one_factor", "two_factor"}
          /\ "openid" \in clients[i].scopes

\* An accepted configuration has all that the running server will use of it.  The
\* services have what it takes to reach them: the storage, if only one is given,
\* the notifier, the directory and the session store; so does signing links, with
\* the secret that ValidateSecrets may have read from a file before the others
\* look for it.  Numbers that become unsigned or sizes (server.go) are not
\* negative, and those that divide or allocate are not 0.  Every client has an
\* entry of its own in the map of NewOpenIDConnectStore, with a policy that asks
\* for a factor, the scope openid and a secret.
AcceptedConfigurationIsUsable ==
    Accepted =>
        /\ ServicesComplete(config)
        /\ NumbersFit(config)
        /\ config.oidc.given => ClientsUsable(config.oidc.clients)
=============================================================================
