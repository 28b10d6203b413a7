--------------------------- MODULE ReaderCredential ---------------------------
(***************************************************************************)
(* The optional provisioned reader (bootstrap.py).  A run reads back what  *)
(* is published, tries it, creates or rotates the role in Galaxy's         *)
(* database when it must, which commits, and only then publishes the new   *)
(* credential in a Kubernetes Secret, reads it back and opens a session.   *)
(* Each of these is a step in which the run may be interrupted, and runs   *)
(* may overlap.                                                            *)
(*                                                                         *)
(* A credential is the number of its password.  A run generates one that   *)
(* nobody holds; a number that nobody holds any more may come back.  The   *)
(* DSN's text, names and grants are left out; a file with the DSN is part   *)
(* of the run's container and goes with it.                                *)
(***************************************************************************)
EXTENDS Naturals

CONSTANTS
  Runs,           \* processes that may run rainstone bootstrap
  MaxPasswords    \* bound: passwords that anybody holds at one time

ASSUME PasswordsAssumption == MaxPasswords \in Nat \ {0}

VARIABLES
  role,       \* the password of the reader's role in Galaxy's database
  secret,     \* the credential in the Secret that collectors mount
  boot        \* each run: its step and what it found and decided

credentialVars == <<role, secret, boot>>

NoRole == 0         \* the role does not exist yet
Empty == 0          \* the Secret is there, as the chart creates it
Deleted == MaxPasswords + 1

Passwords == 1 .. MaxPasswords
Credentials == Passwords \cup {Empty}

NotRunning == [step |-> "off", found |-> Empty, rotates |-> FALSE, password |-> Empty, file |-> Empty]
InProgress == {"read", "try", "provision", "publish", "verify", "session"}

CredentialTypeOK ==
  /\ role \in Credentials
  /\ secret \in Credentials \cup {Deleted}
  /\ boot \in [Runs -> [step : InProgress \cup {"off", "done", "failed"},
                        found : Credentials, rotates : BOOLEAN,
                        password : Credentials, file : Credentials]]

CredentialInit ==
  /\ role = NoRole /\ secret = Empty
  /\ boot = [r \in Runs |-> NotRunning]

Opens(credential) == credential \in Passwords /\ credential = role

\* What a run publishes or goes on with.
CredentialOf(r) == IF boot[r].rotates THEN boot[r].password ELSE boot[r].found

At(r, step) == boot[r].step = step
To(r, step) == [boot EXCEPT ![r].step = step]
Failed == [NotRunning EXCEPT !.step = "failed"]

-----------------------------------------------------------------------------
Start(r) ==
  /\ boot[r].step \notin InProgress
  /\ boot' = [boot EXCEPT ![r] = [NotRunning EXCEPT !.step = "read"]]
  /\ UNCHANGED <<role, secret>>

\* read_kubernetes_secret: a Secret that is not there is no credential either.
ReadPublished(r) ==
  /\ At(r, "read")
  /\ boot' = [boot EXCEPT ![r].step = "try",
                          ![r].found = IF secret = Deleted THEN Empty ELSE secret]
  /\ UNCHANGED <<role, secret>>

\* Mutation: only a missing role is a reason to rotate.
MustRotateForRole(r, forced, answered) == forced \/ role = NoRole

\* Mutation: every run rotates.
RotatesEveryRun(r, forced, answered) == TRUE

\* Any failure of the trial session counts as a credential that does not work.
MustRotate(r, forced, answered) ==
  forced \/ role = NoRole \/ ~(answered /\ Opens(boot[r].found))

Held == {role, secret} \cup UNION {{boot[r].found, boot[r].password, boot[r].file} : r \in Runs}

\* secrets.token_urlsafe; elsewhere are the credentials that others hold.
Fresh(elsewhere) == {p \in Passwords \ (Held \cup elsewhere) :
                       \A q \in 1 .. (p - 1) : q \in Held \cup elsewhere}

\* The new password counts only where it is used.
TryPublished(r, forced, answered, elsewhere) ==
  /\ At(r, "try")
  /\ LET rotates == MustRotate(r, forced, answered)
     IN  \E password \in IF rotates THEN Fresh(elsewhere) ELSE {Empty} :
           boot' = [boot EXCEPT ![r].step = "provision", ![r].rotates = rotates,
                                ![r].password = password,
                                ![r].found = IF rotates THEN Empty ELSE @]
  /\ UNCHANGED <<role, secret>>

\* provision_reader, in a transaction of Galaxy's database.
Provision(r) ==
  /\ At(r, "provision")
  /\ role' = IF role # NoRole /\ ~boot[r].rotates THEN role ELSE boot[r].password
  /\ boot' = CASE CredentialOf(r) = Empty -> [boot EXCEPT ![r] = Failed]
               [] boot[r].rotates -> To(r, "publish")
               [] OTHER -> To(r, "session")
  /\ UNCHANGED secret

\* Mutation: the write is assumed to have landed.
PublishUnanswered(r, landed, answered) ==
  /\ At(r, "publish")
  /\ secret' = IF landed /\ secret # Deleted THEN CredentialOf(r) ELSE secret
  /\ boot' = [boot EXCEPT ![r].step = "session", ![r].file = CredentialOf(r)]
  /\ UNCHANGED role

\* The write may land, with or without its answer coming back.  The chart's role
\* may patch the Secret, not create it.
Publish(r, landed, answered) ==
  /\ At(r, "publish")
  /\ landed => secret # Deleted
  /\ secret' = IF landed THEN CredentialOf(r) ELSE secret
  /\ boot' = IF landed /\ answered
             THEN [boot EXCEPT ![r].step = "verify", ![r].file = CredentialOf(r)]
             ELSE [boot EXCEPT ![r] = Failed]
  /\ UNCHANGED role

VerifyStored(r) ==
  /\ At(r, "verify")
  /\ boot' = IF secret = CredentialOf(r) THEN To(r, "session") ELSE [boot EXCEPT ![r] = Failed]
  /\ UNCHANGED <<role, secret>>

OpenSession(r, answered) ==
  /\ At(r, "session")
  /\ boot' = [boot EXCEPT ![r] =
       IF answered /\ Opens(CredentialOf(r))
       THEN [NotRunning EXCEPT !.step = "done", !.file = boot[r].file] ELSE Failed]
  /\ UNCHANGED <<role, secret>>

\* A step in which everything answers.
BootstrapStep(r, elsewhere) ==
  \/ ReadPublished(r) \/ TryPublished(r, FALSE, TRUE, elsewhere) \/ Provision(r)
  \/ Publish(r, secret # Deleted, TRUE) \/ VerifyStored(r) \/ OpenSession(r, TRUE)
=============================================================================
