------------------------------ MODULE Registry ------------------------------
(***************************************************************************)
(* dockerutil/registry.go and client.go: the certificates RunE copies for  *)
(* the registry of the inner image, and the credentials runDockerCVM pulls *)
(* it with.                                                                *)
(*                                                                         *)
(* A certificate is a number, its place in the order of ReadDir; 0 is      *)
(* ca.crt, the name a certificate gets that is given as a file.  The       *)
(* destination outlives the program, the rest does not.                    *)
(***************************************************************************)
EXTENDS Naturals

CONSTANTS Entries,   \* entries of the directory of extra certificates
          Subdirs,   \* those that are directories
          Secrets,   \* pull secrets, and docker configs, the user may give
          NoConfig   \* none given

ASSUME RegistryAssumption ==
    /\ Entries \in Nat /\ Subdirs \subseteq 1..Entries
    /\ Secrets \subseteq [own : {"none", "valid", "error"}, others : SUBSET {"valid", "invalid"}]
    /\ NoConfig \notin Secrets

VARIABLES
    source,      \* extraCertsPath: missing, a file or a dir; or not asked for
    certs,       \* what each file of the registry's directory holds
    origin,      \* who made that directory: absent, user, or envbox
    broken,      \* a WriteCertsForRegistry ended after MkdirAll and before its end
    writer,      \* position of WriteCertsForRegistry
    left,        \* certificates it has not copied yet
    auth         \* the credentials of the pull, and the configs they are from

certVars == <<source, certs, origin, broken, writer, left>>

Names == 0..Entries

\* The files that ought to be in the registry's directory.
Wanted == IF source = "file" THEN {0} ELSE (1..Entries) \ Subdirs

NoCerts == [n \in Names |-> "none"]
NoAuth  == [from |-> "nobody", for |-> "nobody", secret |-> NoConfig, file |-> NoConfig]

\* A directory of the user holds whatever they put there.
CertsInit ==
    /\ source \in {"unset", "missing", "file", "dir"}
    /\ origin \in {"absent", "user"}
    /\ certs \in {NoCerts, [NoCerts EXCEPT ![0] = "whole"]}
    /\ origin = "absent" => certs = NoCerts
    /\ broken = FALSE /\ writer = "off" /\ left = {}

AuthInit == auth = NoAuth

-----------------------------------------------------------------------------
(* WriteCertsForRegistry.                                                  *)

\* A directory that exists is taken to be the user's; else it is made.
MakeDir ==
    /\ writer = "off"
    /\ \/ source = "unset" /\ writer' = "done" /\ UNCHANGED origin
       \/ source # "unset" /\ origin # "absent" /\ writer' = "done" /\ UNCHANGED origin
       \/ source # "unset" /\ origin = "absent" /\ writer' = "stat" /\ origin' = "envbox"
    /\ UNCHANGED <<source, certs, broken, left, auth>>

\* A file is one certificate to copy, a directory as many as it has files.
StatSource ==
    /\ writer = "stat" /\ source # "missing"
    /\ left' = Wanted /\ writer' = "open"
    /\ UNCHANGED <<source, certs, origin, broken, auth>>

IsNext(n) == n \in left /\ \A k \in left : n <= k

\* copyCertFile, up to the empty file: Open and Create.
CreateCert ==
    /\ writer = "open"
    /\ \E n \in Names : IsNext(n) /\ certs' = [certs EXCEPT ![n] = "part"]
    /\ writer' = "copy"
    /\ UNCHANGED <<source, origin, broken, left, auth>>

\* Mutant of CopyCert: an error of the copy is logged, and the next file is next.
CopyCertAnyway ==
    /\ writer = "copy"
    /\ \E n \in Names :
          /\ IsNext(n)
          /\ certs' = [certs EXCEPT ![n] = "whole"] \/ UNCHANGED certs
          /\ left' = left \ {n}
    /\ writer' = "open"
    /\ UNCHANGED <<source, origin, broken, auth>>

\* copyCertFile, the contents.
CopyCert ==
    /\ writer = "copy"
    /\ \E n \in Names :
          IsNext(n) /\ certs' = [certs EXCEPT ![n] = "whole"] /\ left' = left \ {n}
    /\ writer' = "open"
    /\ UNCHANGED <<source, origin, broken, auth>>

CertsWritten ==
    /\ writer = "open" /\ left = {}
    /\ writer' = "done"
    /\ UNCHANGED <<source, certs, origin, broken, left, auth>>

\* Any of the calls fails; the source may be missing.  The first error is the end.
CertsFail ==
    /\ writer \in {"off", "stat", "open", "copy"} /\ source # "unset"
    /\ writer = "off" => origin = "absent"
    /\ writer = "open" => left # {}
    /\ writer' = "failed" /\ broken' = (broken \/ origin = "envbox")
    /\ UNCHANGED <<source, certs, origin, left, auth>>

-----------------------------------------------------------------------------
(* The credentials.                                                        *)

\* Mutant of parseConfig: the entry of the registry has no precedence.
parseConfigAny(cfg) ==
    LET own   == IF cfg.own = "valid" THEN {"own"} ELSE {}
        other == IF "valid" \in cfg.others THEN {"other"} ELSE {}
    IN  IF own \cup other = {} THEN {"notExist"} ELSE own \cup other

\* The entry of the registry, or else the first valid one Go's map gives, whose
\* ever it is.  A credential helper may fail.
parseConfig(cfg) ==
    IF cfg.own = "error" THEN {"error"}
    ELSE IF cfg.own = "valid" THEN {"own"}
    ELSE IF "valid" \in cfg.others THEN {"other"} ELSE {"notExist"}

\* The pull secret s: if it has no entry, or for any other error, the startup ends.
FromSecret(s) ==
    IF s = NoConfig THEN {"nobody"} ELSE parseConfig(s)
SecretFails(s) == FromSecret(s) \cap {"error", "notExist"} # {}

\* The docker config f, if it is there, takes the place of the pull secret's
\* credentials, also when it has none: os.ErrNotExist is no error here.  Nor is it
\* if the file goes away after the stat.
Authenticate(s, f) ==
    /\ auth = NoAuth
    /\ \/ /\ f = NoConfig \/ SecretFails(s)
          /\ \E r \in FromSecret(s) : auth' = [from |-> "secret", for |-> r, secret |-> s, file |-> f]
       \/ /\ f # NoConfig /\ ~SecretFails(s)
          /\ \E r \in parseConfig(f) \cup {"notExist"} :
                auth' = [from |-> "file", for |-> r, secret |-> s, file |-> f]
    /\ UNCHANGED certVars

\* Whether runDockerCVM goes on with these.
Authenticated ==
    /\ auth # NoAuth /\ auth.for # "error"
    /\ auth.from = "secret" => auth.for # "notExist"

-----------------------------------------------------------------------------
(* Properties.                                                             *)

RegistryTypeOK ==
    /\ source \in {"unset", "missing", "file", "dir"} /\ origin \in {"absent", "user", "envbox"}
    /\ certs \in [Names -> {"none", "part", "whole"}] /\ broken \in BOOLEAN
    /\ writer \in {"off", "stat", "open", "copy", "done", "failed"} /\ left \subseteq Names
    /\ auth \in [from : {"nobody", "secret", "file"},
                 for : {"nobody", "own", "other", "notExist", "error"},
                 secret : Secrets \cup {NoConfig}, file : Secrets \cup {NoConfig}]

\* If RunE goes on, the certificates of a directory envbox made are all there and
\* whole, unless an earlier run failed or was killed while it wrote them: what
\* that left is then taken for the user's own, in every later run.
MissingCertsTakeFailure ==
    writer = "done" /\ source # "unset" /\ origin = "envbox" /\ ~broken
        => \A n \in Wanted : certs[n] = "whole"

\* Credentials of another registry are sent only if their config has none for this
\* one; those of the pull secret only if there is no docker config; and none, if
\* there was a secret, only because of a docker config.
RightCredentials ==
    Authenticated =>
        /\ auth.for = "other" => (IF auth.from = "file" THEN auth.file ELSE auth.secret).own = "none"
        /\ auth.from = "secret" => auth.file = NoConfig
        /\ auth.for = "notExist" => auth.file # NoConfig
=============================================================================
