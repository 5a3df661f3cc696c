------------------------------ MODULE Sessions ------------------------------
(***************************************************************************)
(* Who is signed in to one account (`web/src/auth.rs`, `routes/auth.rs`,   *)
(* `routes/settings.rs`, `core/src/models/user.rs`).  A session is a cookie *)
(* with a stamp of the account's session version; a remember-me cookie     *)
(* names a row, works once and is replaced.  A browser may send any cookie *)
(* it was ever given, also a copy of an old one.  A request reads the row  *)
(* of the user first and acts on what it read later.                       *)
(*                                                                         *)
(* What is remembered besides the code's state: by what proof a stamp or a *)
(* remember-me row came about, [pw, via], where `pw` counts the passwords  *)
(* of the account and `via` is "token" once a remember-me cookie was used. *)
(***************************************************************************)
EXTENDS Naturals, FiniteSets

CONSTANTS Requests,     \* requests under way
          MaxPasswords, \* bound of the passwords the account has had
          MaxVersion,   \* bound of the session version
          MaxTokens,    \* bound of the remember-me rows at one time
          None

VARIABLES password,  \* the password of the account: the n-th it has
          version,   \* `session_version`
          protected, \* the account asks for a second step
          tokens,    \* the remember-me rows: by their proof
          stamps,    \* the stamps handed out: [ver, by]
          pending,   \* sign-ins that wait for their second step: [ver, by]
          req        \* req[r]: what each request is doing

vars == << password, version, protected, tokens, stamps, pending, req >>

Idle == [at |-> "idle", ver |-> 0, by |-> None]
At(r, step) == req[r].at = step

\* A request goes on with the user it read now, and the proof it came with.
Reads(r, step, by) ==
  req' = [req EXCEPT ![r] = [at |-> step, ver |-> version, by |-> by]]
Ends(r) == req' = [req EXCEPT ![r] = Idle]

Proofs == [pw : 0..MaxPasswords, via : {"password", "token", "passkey"}]
ByToken(by) == [by EXCEPT !.via = "token"]

\* The stamp counts as a login.
Valid(stamp) == stamp.ver = version

\* Versions only grow: what is dated before `v` is of no more use.
Since(dated, v) == {d \in dated : d.ver >= v}

-----------------------------------------------------------------------------

Init ==
  /\ password = 1
  /\ version = 1
  /\ protected \in BOOLEAN
  /\ tokens = {}
  /\ stamps = {}
  /\ pending = {}
  /\ req = [r \in Requests |-> Idle]

\* `login`: `verify_credentials` reads the row; the password is right.  (A
\* wrong one changes nothing here; see Limiter.)
Login(r) ==
  /\ At(r, "idle")
  /\ Reads(r, "proven", [pw |-> password, via |-> "password"])
  /\ UNCHANGED << password, version, protected, tokens, stamps, pending >>

\* Then the second step is asked for, or the user is signed in.
Proven(r) ==
  /\ At(r, "proven")
  /\ IF protected
       THEN pending' = Since(pending \cup {[ver |-> req[r].ver, by |-> req[r].by]}, version)
            /\ Ends(r)
       ELSE req' = [req EXCEPT ![r].at = "signing_in"] /\ UNCHANGED pending
  /\ UNCHANGED << password, version, protected, tokens, stamps >>

\* `second_step` with a right code: `pending_sign_in` reads the row and asks
\* that the version did not change.
SecondStep(r, p) ==
  /\ At(r, "idle") /\ p \in pending /\ p.ver = version
  /\ Reads(r, "signing_in", p.by)
  /\ UNCHANGED << password, version, protected, tokens, stamps, pending >>

\* `sign_in_with_passkey`.
PasskeySignIn(r) ==
  /\ At(r, "idle") /\ protected
  /\ Reads(r, "signing_in", [pw |-> 0, via |-> "passkey"])
  /\ UNCHANGED << password, version, protected, tokens, stamps, pending >>

\* `authenticate_via_remember_cookie`: the row of the cookie is read ...
RememberRow(r, t) ==
  /\ At(r, "idle") /\ t \in tokens
  /\ req' = [req EXCEPT ![r] = [at |-> "remembered", ver |-> 0, by |-> t]]
  /\ UNCHANGED << password, version, protected, tokens, stamps, pending >>

\* ... then the user ...
RememberUser(r) ==
  /\ At(r, "remembered")
  /\ Reads(r, "replacing", req[r].by)
  /\ UNCHANGED << password, version, protected, tokens, stamps, pending >>

\* ... and the row is deleted, whether it is still there or not.
RememberDelete(r) ==
  /\ At(r, "replacing")
  /\ \/ tokens' = tokens \ {req[r].by}
     \/ req[r].by \in tokens /\ UNCHANGED tokens  \* another row of that proof
  /\ req' = [req EXCEPT ![r].at = "signing_in", ![r].by = ByToken(@)]
  /\ UNCHANGED << password, version, protected, stamps, pending >>

\* `create_remember_token`, and the session is stamped with the user as read.
SignIn(r) ==
  /\ At(r, "signing_in")
  /\ Cardinality(tokens \cup {req[r].by}) <= MaxTokens
  /\ tokens' = tokens \cup {req[r].by}
  /\ stamps' = Since(stamps \cup {[ver |-> req[r].ver, by |-> req[r].by]}, version)
  /\ Ends(r)
  /\ UNCHANGED << password, version, protected, pending >>

\* `update_password` by a valid session, with the current password as the row
\* that was read has it.
AskChange(r, s) ==
  /\ At(r, "idle") /\ s \in stamps /\ Valid(s)
  /\ Reads(r, "changing", s.by)
  /\ UNCHANGED << password, version, protected, tokens, stamps, pending >>

\* A mutant of ChangePassword: the version is counted from the row as read,
\* not in SQL.
ChangePasswordStale(r) ==
  /\ At(r, "changing")
  /\ password < MaxPasswords /\ version < MaxVersion
  /\ password' = password + 1
  /\ version' = req[r].ver + 1
  /\ tokens' = {}
  /\ stamps' = Since(stamps, version')
       \cup {[ver |-> version', by |-> [pw |-> password', via |-> "password"]]}
  /\ pending' = Since(pending, version')
  /\ Ends(r)
  /\ UNCHANGED protected

\* `change_password`, one transaction, and this browser is stamped again.
ChangePassword(r) ==
  /\ At(r, "changing")
  /\ password < MaxPasswords /\ version < MaxVersion
  /\ password' = password + 1
  /\ version' = version + 1
  /\ tokens' = {}
  /\ stamps' = Since(stamps, version')
       \cup {[ver |-> version', by |-> [pw |-> password', via |-> "password"]]}
  /\ pending' = Since(pending, version')
  /\ Ends(r)
  /\ UNCHANGED protected

\* `logout`: every session so far is retired ...
Logout(r, s) ==
  /\ At(r, "idle") /\ s \in stamps /\ Valid(s)
  /\ version < MaxVersion
  /\ version' = version + 1
  /\ stamps' = Since(stamps, version')
  /\ pending' = Since(pending, version')
  /\ req' = [req EXCEPT ![r] = [at |-> "signing_out", ver |-> 0, by |-> s.by]]
  /\ UNCHANGED << password, protected, tokens >>

\* ... and then the remember-me row of this browser is deleted, if it has one.
SignOut(r) ==
  /\ At(r, "signing_out")
  /\ tokens' \in {tokens, tokens \ {req[r].by}}
  /\ Ends(r)
  /\ UNCHANGED << password, version, protected, stamps, pending >>

\* The request is dropped where it waits, or a statement fails.
GoAway(r) ==
  /\ ~ At(r, "idle")
  /\ Ends(r)
  /\ UNCHANGED << password, version, protected, tokens, stamps, pending >>

Next ==
  \E r \in Requests :
    \/ Login(r) \/ Proven(r) \/ PasskeySignIn(r) \/ SignIn(r)
    \/ \E p \in pending : SecondStep(r, p)
    \/ \E t \in tokens : RememberRow(r, t)
    \/ RememberUser(r) \/ RememberDelete(r)
    \/ \E s \in stamps : AskChange(r, s) \/ Logout(r, s)
    \/ ChangePassword(r) \/ SignOut(r) \/ GoAway(r)

Spec == Init /\ [][Next]_vars

-----------------------------------------------------------------------------

Asked == [at : {"idle", "proven", "signing_in", "remembered", "replacing", "changing",
                "signing_out"},
          ver : 0..MaxVersion, by : Proofs \cup {None}]
Dated == [ver : 1..MaxVersion, by : Proofs]

TypeOK ==
  /\ password \in 1..MaxPasswords /\ version \in 1..MaxVersion
  /\ protected \in BOOLEAN
  /\ tokens \subseteq Proofs /\ stamps \subseteq Dated /\ pending \subseteq Dated
  /\ req \in [Requests -> Asked]

\* A session that a password opened, directly or with a second step, counts
\* as a login only under that very password: not when the password changed
\* while it was being opened, nor when two changes overlapped.
SessionOfPassword ==
  \A s \in stamps : Valid(s) /\ s.by.via = "password" => s.by.pw = password

\* A new password signs the account out everywhere: once it is set, nothing
\* that an earlier password opened signs anyone in.
SignedOutEverywhere ==
  /\ \A t \in tokens : t.via # "passkey" => t.pw \in {0, password}
  /\ \A s \in stamps : Valid(s) /\ s.by.via # "passkey" => s.by.pw \in {0, password}

-----------------------------------------------------------------------------
(* The inductive invariant behind SessionOfPassword.                       *)

\* What was read of the account, of now or of before, goes with a password
\* only if that is the password of its version.
Dates(d) ==
  /\ d.ver <= version
  /\ d.ver = version /\ d.by.via = "password" => d.by.pw = password

\* A request past its reading of the user holds a version and a proof, one
\* that is about to sign in the proof of its version.
ReadOK(q) ==
  /\ q.at # "idle" => q.by \in Proofs
  /\ q.at \in {"proven", "replacing", "signing_in"} => q.ver \in 1..version
  /\ q.at \in {"proven", "signing_in"} => Dates(q)

Inv ==
  /\ TypeOK
  /\ \A d \in stamps \cup pending : Dates(d)
  /\ \A r \in Requests : ReadOK(req[r])
=============================================================================
