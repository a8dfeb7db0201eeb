-------------------------- MODULE MCConfigurations --------------------------
(***************************************************************************)
(* Configuration files for TLC: two complete ones, and every file that     *)
(* differs from one of them in two places.                                 *)
(***************************************************************************)
EXTENDS Integers, Sequences

CONSTANTS SecretNames, Lifespans, Word, MaxInt

Text(form) == [form |-> form, n |-> 0, unit |-> "s"]
Duration(n, unit) == [form |-> "unit", n |-> n, unit |-> unit]
Digits(n) == [form |-> "digits", n |-> n, unit |-> "s"]

NoPasswordSettings ==
    [given |-> FALSE, algorithm |-> "", iterations |-> 0, saltLength |-> 0,
     parallelism |-> 0, memory |-> 0, keyLength |-> 0]
Argon2id(i, s, p, m, k) ==
    [given |-> TRUE, algorithm |-> "argon2id", iterations |-> i,
     saltLength |-> s, parallelism |-> p, memory |-> m, keyLength |-> k]
Other(algorithm, memory, keyLength) ==
    [NoPasswordSettings EXCEPT !.given = TRUE, !.algorithm = algorithm,
                               !.memory = memory, !.keyLength = keyLength]

File(given) ==
    [given |-> given, path |-> "users.yml", password |-> NoPasswordSettings]
Hashing(settings) == [File(TRUE) EXCEPT !.password = settings]

LDAP(given) ==
    [given |-> given, implementation |-> "", tlsVersion |-> "",
     tlsServerName |-> "", usersFilter |-> "good", groupsFilter |-> "good", attributes |-> {"mail"},
     url |-> "ldap", user |-> "cn", baseDN |-> "dc"]
ActiveDirectory == [LDAP(TRUE) EXCEPT !.implementation = "activedirectory"]

HA(given, sentinel, nodes) ==
    [given |-> given, sentinel |-> sentinel, nodes |-> nodes]
Node(host, port) == [host |-> host, port |-> port]
Redis(given, host, port, ha) ==
    [given |-> given, host |-> host, port |-> port, pool |-> 0, ha |-> ha]
NoHA == HA(FALSE, "", <<>>)

SQL(given, ssl) ==
    [given |-> given, username |-> "u", database |-> "d", sslMode |-> ssl]
SMTP(given, host, port) ==
    [given |-> given, host |-> host, port |-> port, sender |-> "s",
     checkAddress |-> "", subject |-> "", identifier |-> "", tlsServerName |-> ""]
Client(id) ==
    [id |-> id, description |-> "", secret |-> "s", policy |-> "", scopes |-> {},
     grantTypes |-> {}, responseModes |-> {}, responseTypes |-> {},
     algorithm |-> "", redirectURIs |-> {"https"}]
Rule ==
    [domains |-> {"name"}, policy |-> "one_factor", networks |-> {"ip"},
     resources |-> {"text"}, subjects |-> {"user:"}, methods |-> {"GET"}]

\* full: LDAP, Redis, PostgreSQL, SMTP and OpenID Connect, else the local ones.
Base(full) ==
    [root |-> [host |-> "", port |-> 0, tlsKey |-> "", tlsCert |-> "",
               certificates |-> "", redirection |-> "", theme |-> ""],
     duo |-> full,
     secrets |-> [s \in SecretNames |-> [value |-> "secret", file |-> ""]],
     log |-> [level |-> "", oldLevel |-> "", format |-> "", oldFormat |-> "",
              path |-> "", oldPath |-> ""],
     totp |-> [given |-> full, period |-> 0, skewGiven |-> FALSE, skew |-> 0],
     server |-> [path |-> "", readBuffer |-> 0, writeBuffer |-> 0],
     backend |-> [file |-> File(~full), ldap |-> LDAP(full),
                  refresh |-> Text("")],
     acl |-> [defaultPolicy |-> "", groups |-> {[name |-> "group", networks |-> {"ip"}]},
              rules |-> <<Rule>>],
     session |-> [name |-> "", redis |-> Redis(full, "redis", 6379, NoHA),
                  expiration |-> Text(""), inactivity |-> Text(""),
                  rememberMe |-> Text(""), domain |-> "domain", sameSite |-> ""],
     regulation |-> [given |-> full, findTime |-> Text(""), banTime |-> Text("")],
     storage |-> [local |-> [given |-> ~full, path |-> "p"], mysql |-> SQL(FALSE, ""),
                  postgres |-> SQL(full, "")],
     notifier |-> [given |-> TRUE, smtp |-> SMTP(full, "h", 25),
                   filesystem |-> [given |-> ~full, filename |-> "f"]],
     oidc |-> [given |-> full, lifespans |-> [l \in Lifespans |-> 0],
               clients |-> <<Client("a")>>],
     keys |-> {"valid"}]

-----------------------------------------------------------------------------
\* What a field is changed to, section by section: <<field, value>>.
RootEdits ==
 << <<"host", "h">>, <<"port", 80>>, <<"tlsKey", "k">>, <<"tlsCert", "c">>,
    <<"certificates", "missing">>, <<"certificates", "bad certificate">>,
    <<"certificates", "directory">>, <<"redirection", "relative">>,
    <<"theme", "unknown">>, <<"theme", "dark">> >>

LogEdits ==
 << <<"level", "debug">>, <<"level", "unknown">>, <<"oldLevel", "unknown">>,
    <<"oldFormat", "json">>, <<"oldPath", "p">> >>

TOTPEdits ==
 << <<"given", TRUE>>, <<"period", -1>>, <<"period", 60>>,
    <<"skewGiven", TRUE>>, <<"skew", -1>> >>

ServerEdits ==
 << <<"path", "letters">>, <<"path", "with dash">>, <<"readBuffer", -1>>,
    <<"readBuffer", 1>>, <<"writeBuffer", -1>> >>

SecretEdits ==
 << <<"jwt", [value |-> "", file |-> ""]>>,
    <<"jwt", [value |-> "", file |-> "content"]>>,
    <<"jwt", [value |-> "", file |-> "empty file"]>>,
    <<"jwt", [value |-> "v", file |-> "content"]>>,
    <<"jwt", [value |-> "v", file |-> "missing"]>>,
    <<"ldap", [value |-> "", file |-> "empty file"]>>,
    <<"session", [value |-> "", file |-> ""]>>,
    <<"postgres", [value |-> "", file |-> ""]>>,
    <<"mysql", [value |-> "", file |-> ""]>>,
    <<"issuer", [value |-> "", file |-> ""]>>,
    <<"issuer", [value |-> "unparsable", file |-> ""]>> >>

BackendEdits ==
 << <<"file", File(TRUE)>>, <<"file", File(FALSE)>>, <<"ldap", LDAP(TRUE)>>,
    <<"ldap", LDAP(FALSE)>>, <<"file", [File(TRUE) EXCEPT !.path = ""]>>,
    <<"file", Hashing([NoPasswordSettings EXCEPT !.given = TRUE])>>,
    <<"file", Hashing(Argon2id(1, 7, 0, 0, 0))>>,
    <<"file", Hashing(Argon2id(1, 8, 0, 63, 16))>>,
    <<"file", Hashing(Argon2id(1, 8, 1, 8, 16))>>,
    <<"file", Hashing(Argon2id(1, 8, 1, 8, 15))>>,
    <<"file", Hashing(Argon2id(1, 8, 16, 0, 16))>>,
    <<"file", Hashing(Argon2id(1, 8, 8192, 0, 16))>>,
    <<"file", Hashing(Argon2id(1, 8, 8193, 0, 16))>>,
    <<"file", Hashing(Argon2id(1, 8, -1, -1, 16))>>,
    <<"file", Hashing(Argon2id(-1, 8, 1, 8, 16))>>,
    <<"file", Hashing(Other("sha512", -5, 1))>>,
    <<"file", Hashing(Other("ARGON2ID", 0, 0))>>,
    <<"file", Hashing(Other("unknown", 0, 0))>>,
    <<"ldap", [ActiveDirectory EXCEPT !.usersFilter = ""]>>,
    <<"ldap", [LDAP(TRUE) EXCEPT !.implementation = "unknown"]>>,
    <<"ldap", [LDAP(TRUE) EXCEPT !.usersFilter = ""]>>,
    <<"ldap", [LDAP(TRUE) EXCEPT !.url = "http"]>>,
    <<"ldap", [LDAP(TRUE) EXCEPT !.tlsVersion = "unknown"]>>,
    <<"refresh", Text("always")>>, <<"refresh", Text("other")>>,
    <<"refresh", Duration(1, "y")>> >>

AccessControlEdits ==
 << <<"defaultPolicy", "bypass">>, <<"defaultPolicy", "two_factor">>,
    <<"defaultPolicy", "unknown">>, <<"rules", <<>>>>, <<"groups", {}>>,
    <<"groups", {[name |-> "group", networks |-> {"other"}]}>>,
    <<"rules", <<Rule, [Rule EXCEPT !.networks = {"group"}]>>>>,
    <<"rules", <<Rule, [Rule EXCEPT !.domains = {"{user}"}]>>>>,
    <<"rules", <<Rule, [Rule EXCEPT !.resources = {"broken"}]>>>>,
    <<"rules", <<Rule, [Rule EXCEPT !.policy = "bypass"]>>>>,
    <<"rules", <<[Rule EXCEPT !.methods = {"other"}, !.domains = {}]>>>> >>

SessionEdits ==
 << <<"redis", Redis(TRUE, "redis", 0, NoHA)>>,
    <<"redis", Redis(TRUE, "/socket", 0, NoHA)>>,
    <<"redis", Redis(TRUE, "", 6379, NoHA)>>,
    <<"redis", Redis(TRUE, "redis", 65536, NoHA)>>,
    <<"redis", Redis(TRUE, "", 0, HA(TRUE, "s", <<Node("n", 0)>>))>>,
    <<"redis", Redis(TRUE, "", 0, HA(TRUE, "s", <<Node("n", 0), Node("", 0)>>))>>,
    <<"redis", Redis(TRUE, "", 0, HA(TRUE, "s", <<>>))>>,
    <<"redis", Redis(TRUE, "redis", 0, HA(TRUE, "", <<>>))>>,
    <<"redis", Redis(TRUE, "redis", -1, HA(TRUE, "s", <<>>))>>,
    <<"expiration", Text("other")>>, <<"inactivity", Digits(Word)>>,
    <<"rememberMe", Digits(Word)>>, <<"rememberMe", Digits(0)>>,
    <<"rememberMe", Duration(Word, "y")>>, <<"domain", "*.domain">>,
    <<"sameSite", "other">> >>

RegulationEdits ==
 << <<"given", TRUE>>, <<"findTime", Duration(5, "m")>>,
    <<"findTime", Digits(Word)>>, <<"findTime", Duration(Word, "m")>>,
    <<"banTime", Duration(5, "m")>>, <<"banTime", Digits(0)>>,
    <<"banTime", Duration(MaxInt, "y")>>, <<"banTime", Text("other")>> >>

StorageEdits ==
 << <<"local", [given |-> FALSE, path |-> ""]>>,
    <<"local", [given |-> TRUE, path |-> ""]>>, <<"mysql", SQL(TRUE, "")>>,
    <<"mysql", [SQL(TRUE, "") EXCEPT !.database = ""]>>,
    <<"postgres", SQL(TRUE, "unknown")>>, <<"postgres", SQL(FALSE, "")>>,
    <<"postgres", [SQL(TRUE, "") EXCEPT !.username = ""]>> >>

NotifierEdits ==
 << <<"given", FALSE>>, <<"smtp", SMTP(TRUE, "h", 25)>>,
    <<"smtp", SMTP(TRUE, "", 25)>>, <<"smtp", SMTP(TRUE, "h", 0)>>,
    <<"smtp", SMTP(FALSE, "", 0)>>,
    <<"filesystem", [given |-> TRUE, filename |-> "f"]>>,
    <<"filesystem", [given |-> FALSE, filename |-> ""]>>,
    <<"filesystem", [given |-> TRUE, filename |-> ""]>> >>

OIDCEdits ==
 << <<"clients", <<>>>>,
    <<"clients", <<Client("a"), Client("b"), Client("a")>>>>,
    <<"clients", <<Client("a"), Client("b")>>>>, <<"clients", <<Client("")>>>>,
    <<"clients", <<Client("a"), Client("A")>>>>,
    <<"clients", <<[Client("a") EXCEPT !.scopes = {"email"}]>>>>,
    <<"clients", <<[Client("a") EXCEPT !.scopes = {"other"}]>>>>,
    <<"clients", <<[Client("a") EXCEPT !.secret = ""]>>>>,
    <<"clients", <<[Client("a") EXCEPT !.policy = "bypass"]>>>>,
    <<"clients", <<[Client("a") EXCEPT !.redirectURIs = {"ftp"}]>>>>,
    <<"lifespans", [l \in Lifespans |-> 60]>> >>

Edits ==
    [root |-> RootEdits, log |-> LogEdits, totp |-> TOTPEdits,
     server |-> ServerEdits, secrets |-> SecretEdits, backend |-> BackendEdits,
     acl |-> AccessControlEdits, session |-> SessionEdits, regulation |-> RegulationEdits,
     storage |-> StorageEdits, notifier |-> NotifierEdits, oidc |-> OIDCEdits]

Places == UNION {{<<section, i>> : i \in DOMAIN Edits[section]} : section \in DOMAIN Edits}

Edit(c, place) ==
    LET edit == Edits[place[1]][place[2]]
    IN  [c EXCEPT ![place[1]][edit[1]] = edit[2]]

EditedConfigurations ==
    {Edit(Edit(Base(full), p), q) : full \in BOOLEAN, p \in Places, q \in Places}
    \cup {[Base(full) EXCEPT !.keys = @ \cup {"unknown"}] : full \in BOOLEAN}
=============================================================================
