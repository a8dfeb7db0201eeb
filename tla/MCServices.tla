----------------------------- MODULE MCServices -----------------------------
(***************************************************************************)
(* The services of a server that share no state, for TLC: the regulator,   *)
(* the LDAP user provider, the user information handlers, the notifier,    *)
(* and the configuration they are all made from.  No step of one reads or  *)
(* writes what another has, so that a state of one is a state of the whole *)
(* whatever the others do: each is explored from its own initial states,   *)
(* with the others at rest.                                                *)
(***************************************************************************)
EXTENDS Regulation, LDAPUserProvider, UserInfo, Notifier, Configuration, TLC

CONSTANTS r1, r2, u1, p1, p2, totp, u2f

VARIABLE part       \* the service that moves

Samples == INSTANCE MCConfigurations

ASSUME LDAPIdle == IdleIsNoCall /\ NoConnectionIsNone

MCConfigurations == Samples!EditedConfigurations

servicesVars == <<part, vars, ldapVars, infoVars, smtpVars, configVars>>

\* At rest, a service is in one of its initial states, always the same, and
\* no configuration is read.  What AUTH the SMTP server has, and whether it is
\* local, is looked at with a password only.
ServicesInit ==
    /\ part \in {"regulator", "ldap", "info", "notifier", "configuration"}
    /\ Init
    /\ LDAPInit
    /\ part = "ldap" \/ (ldapStartTLS /\ directory = [u \in Entries |-> p1])
    /\ InfoInit
    /\ SMTPInit
    /\ part = "notifier" \/ server.filesystem
    /\ server.auth \/ server.local => server.password
    /\ IF part = "configuration"
       THEN ConfigInit
       ELSE step = "" /\ config = <<>> /\ pushed = {} /\ stop = ""

ServicesNext ==
    \/ /\ part = "regulator"
       /\ Next
       /\ UNCHANGED <<part, ldapVars, infoVars, smtpVars, configVars>>
    \/ /\ part = "ldap"
       /\ LDAPNext
       /\ UNCHANGED <<part, vars, infoVars, smtpVars, configVars>>
    \/ /\ part = "info"
       /\ InfoNext
       /\ UNCHANGED <<part, vars, ldapVars, smtpVars, configVars>>
    \/ /\ part = "notifier"
       /\ SMTPNext
       /\ UNCHANGED <<part, vars, ldapVars, infoVars, configVars>>
    \/ /\ part = "configuration"
       /\ ConfigNext
       /\ UNCHANGED <<part, vars, ldapVars, infoVars, smtpVars>>

ServicesSpec == ServicesInit /\ [][ServicesNext]_servicesVars

\* The requests of the regulator, and those of the user information, are told
\* apart by nothing.
RequestSymmetry == Permutations({r1, r2})

-----------------------------------------------------------------------------
(***************************************************************************)
(* What is checked of the services is defined with them, but for this.     *)
(***************************************************************************)

\* The state of the calls of the LDAP provider, of the loads of the user
\* information, and of the calls of the notifier; that the regulator keeps its
\* types is proved.
ServicesTypeOK ==
    /\ part = "ldap" => LDAPTypeOK
    /\ part = "info" => InfoTypeOK
    /\ part = "notifier" => SMTPTypeOK
=============================================================================
