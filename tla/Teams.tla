------------------------------- MODULE Teams -------------------------------
(***************************************************************************)
(* Who is in a team and who runs the instance (`routes/teams.rs`,          *)
(* `routes/invites.rs`, `routes/auth.rs`, `core/src/models/team.rs`,       *)
(* `user.rs`).  One shared team, the accounts and the invites into it.     *)
(*                                                                         *)
(* A request is authenticated first, with the role and the super admin     *)
(* mark its account has then.  It checks a password or hashes one, and     *)
(* only then takes the write lock of the database: `Db::begin` is          *)
(* `BEGIN IMMEDIATE`, so the body of a transaction is one step.            *)
(***************************************************************************)
EXTENDS Naturals, FiniteSets

CONSTANTS Users,     \* the ids of accounts, each given out once
          First,     \* the first one, which set the instance up
          AddressOf, \* the address of each: an account deleted may be made again
          Invites,   \* the ids of invites, each given out once
          Requests   \* requests under way

VARIABLES account,  \* account[u]: "none", "open" or "deleted"
          super,    \* the accounts that are super admins
          role,     \* role[u]: what u is in the team, Out when not in it
          team,     \* the team exists
          invite,   \* invite[i]: the row [state, to, role]
          req,      \* req[r]: what each request is doing
          admitted  \* admitted[i]: how often the invite i made a member

vars == << account, super, role, team, invite, req, admitted >>

Out == 0
Member == 1
Admin == 2
Owner == 3
Roles == {Member, Admin, Owner}

\* `is_admin`, `may_grant` and `may_manage` of a role.
is_admin(own) == own >= Admin
may_grant(own, given) == is_admin(own) /\ given <= own
may_manage(own, other) == is_admin(own) /\ other <= own

Open == {u \in Users : account[u] = "open"}
Members == {u \in Users : role[u] # Out}

\* `find_by_email`: the account of an address.
HasAccount(address) == \E u \in Open : AddressOf[u] = address

NoInvite == [state |-> "none", to |-> 0, role |-> Member]
is_usable(i) == invite[i].state = "pending"

Idle == [at |-> "idle", actor |-> 0, other |-> 0, give |-> Out]
At(r, step) == req[r].at = step
Ends(r) == req' = [req EXCEPT ![r] = Idle]

-----------------------------------------------------------------------------

\* `create_first` and `create_owned`: one person runs the instance and owns
\* the team.  Another may have an account.
Init ==
  /\ super = {First}
  /\ role = [u \in Users |-> IF u = First THEN Owner ELSE Out]
  /\ \E u \in Users :
       /\ u # First => AddressOf[u] # AddressOf[First]
       /\ account = [v \in Users |-> IF v \in {First, u} THEN "open" ELSE "none"]
  /\ team = TRUE
  /\ invite = [i \in Invites |-> NoInvite]
  /\ req = [r \in Requests |-> Idle]
  /\ admitted = [i \in Invites |-> 0]

\* `require_admin` and `require_super_admin`: the request is let through by
\* what its account was when the session was read, and finds the account it
\* names (`find_account`).
Ask(r, op, a, m, g) ==
  /\ At(r, "idle")
  /\ account[a] = "open"
  /\ req' = [req EXCEPT ![r] = [at |-> op, actor |-> a, other |-> m, give |-> g]]
  /\ UNCHANGED << account, super, role, team, invite, admitted >>

AskTeam(r) ==
  \E a, m \in Users, g \in Roles, op \in {"update_member", "destroy_member", "destroy"} :
    /\ is_admin(role[a])
    /\ op = "destroy" => role[a] = Owner /\ m = a
    /\ op # "update_member" => g = Member
    /\ account[m] = "open"
    /\ Ask(r, op, a, m, g)

AskInstance(r) ==
  \E a, m \in Users, g \in {Out, Member}, op \in {"update_super_admin", "destroy_user"} :
    /\ a \in super
    /\ account[m] = "open"
    /\ m # a
    /\ op = "destroy_user" => g = Out
    /\ Ask(r, op, a, m, g)

\* A mutant of Manages: the actor had the rank when the request came.
ManagesUnread(r) ==
  /\ role[req[r].other] # Out
  /\ req[r].other # req[r].actor

\* `member_refusal`, in the transaction: read again, the actor still ranks
\* no lower than the member, who is someone else.
Manages(r) ==
  /\ role[req[r].other] # Out
  /\ req[r].other # req[r].actor
  /\ may_manage(role[req[r].actor], role[req[r].other])

\* `update_member`.
UpdateMember(r) ==
  /\ At(r, "update_member")
  /\ role' = IF Manages(r) /\ may_grant(role[req[r].actor], req[r].give)
               THEN [role EXCEPT ![req[r].other] = req[r].give]
               ELSE role
  /\ Ends(r)
  /\ UNCHANGED << account, super, team, invite, admitted >>

\* `destroy_member`: `Team::detach`.
DestroyMember(r) ==
  /\ At(r, "destroy_member")
  /\ role' = IF Manages(r) THEN [role EXCEPT ![req[r].other] = Out] ELSE role
  /\ Ends(r)
  /\ UNCHANGED << account, super, team, invite, admitted >>

\* The rows of a team go with it.
TeamGoes ==
  /\ team' = FALSE
  /\ role' = [u \in Users |-> Out]
  /\ invite' = [i \in Invites |-> NoInvite]

\* `DELETE /team`: an owner, by the role the request came with.  (A team with
\* MCPs, the Root Team and a personal team are refused: GoAway.)
Destroy(r) ==
  /\ At(r, "destroy")
  /\ TeamGoes
  /\ Ends(r)
  /\ UNCHANGED << account, super, admitted >>

\* `set_super_admin` leaves the mark alone when nobody else has it.
SuperAfter(u, on) ==
  IF on THEN super \union {u}
  ELSE IF super \ {u} = {} THEN super ELSE super \ {u}

\* `update_super_admin`: the actor still is one, read in the transaction
\* (`still_super_admin`).  An account deleted in between is updated nowhere.
UpdateSuperAdmin(r) ==
  /\ At(r, "update_super_admin")
  /\ super' = IF req[r].actor \in super /\ req[r].other \in Open
                THEN SuperAfter(req[r].other, req[r].give = Member)
                ELSE super
  /\ Ends(r)
  /\ UNCHANGED << account, role, team, invite, admitted >>

\* `ensure_owner`: of the members that are left the one who ranks highest
\* owns the team (of equals the one who joined first, left open here).
WithOwner(left, heir) ==
  IF \E u \in Users : left[u] = Owner THEN left ELSE [left EXCEPT ![heir] = Owner]
Highest(left) == {u \in Users : left[u] # Out /\ \A v \in Users : left[v] <= left[u]}

\* `delete_account`: the team the account was alone in goes with it, another
\* one keeps an owner.  A row of the team stays, in the name of an owner.
DeleteAccount(u) ==
  /\ account' = [account EXCEPT ![u] = "deleted"]
  /\ super' = super \ {u}
  /\ \/ /\ role[u] = Out
        /\ UNCHANGED << role, team, invite >>
     \/ /\ Members = {u}
        /\ TeamGoes
     \/ /\ role[u] # Out
        /\ LET left == [role EXCEPT ![u] = Out]
           IN \E heir \in Highest(left) : role' = WithOwner(left, heir)
        /\ UNCHANGED << team, invite >>

\* `destroy_user`: not when the actor is no super admin any more, nor when no
\* other super admin is left.
MayDestroyUser(r) == req[r].actor \in super /\ super \ {req[r].other} # {}

DestroyUser(r) ==
  /\ At(r, "destroy_user")
  /\ \/ /\ MayDestroyUser(r)
        /\ req[r].other \in Open
        /\ DeleteAccount(req[r].other)
     \/ /\ ~(MayDestroyUser(r) /\ req[r].other \in Open)
        /\ UNCHANGED << account, super, role, team, invite >>
  /\ Ends(r)
  /\ UNCHANGED admitted

-----------------------------------------------------------------------------
(* Invites.                                                                *)

\* `POST /invites`: the role is judged by what the actor was; whether the
\* address is a member or has an invite is read next, outside a transaction.
AskInvite(r) ==
  \E a, m \in Users, g \in Roles :
    /\ may_grant(role[a], g)
    /\ \A u \in Members : AddressOf[u] # AddressOf[m]
    /\ \A i \in Invites : is_usable(i) => invite[i].to # AddressOf[m]
    /\ Ask(r, "store", a, AddressOf[m], g)

\* The row is inserted.  The team or the account that makes it may be gone
\* by now: a foreign key refuses the row.
Store(r) ==
  /\ At(r, "store")
  /\ \/ /\ team /\ req[r].actor \in Open
        /\ \E i \in Invites :
             /\ invite[i] = NoInvite /\ admitted[i] = 0
             /\ invite' = [invite EXCEPT
                  ![i] = [state |-> "pending", to |-> req[r].other, role |-> req[r].give]]
     \/ /\ ~(team /\ req[r].actor \in Open)
        /\ UNCHANGED invite
  /\ Ends(r)
  /\ UNCHANGED << account, super, role, team, admitted >>

\* `DELETE /invites/{id}` and the seven days of an invite.
Revoke(i) ==
  /\ is_usable(i)
  /\ \E a \in Open : may_grant(role[a], invite[i].role)
  /\ invite' = [invite EXCEPT ![i].state = "revoked"]
  /\ UNCHANGED << account, super, role, team, req, admitted >>

Expire(i) ==
  /\ is_usable(i)
  /\ invite' = [invite EXCEPT ![i].state = "expired"]
  /\ UNCHANGED << account, super, role, team, req, admitted >>

\* `POST /invite/{token}`: the link can be used.  Someone signed in joins
\* with their account; for a visitor a password is hashed for a new one, when
\* the address has none.
Follow(r) ==
  \E i \in Invites, step \in {"join", "make"} :
    /\ At(r, "idle")
    /\ is_usable(i)
    /\ step = "make" => ~HasAccount(invite[i].to)
    /\ \E a \in IF step = "join" THEN Open ELSE {0} :
         req' = [req EXCEPT ![r] = [Idle EXCEPT !.at = step, !.actor = a, !.other = i]]
    /\ UNCHANGED << account, super, role, team, invite, admitted >>

\* What an accepted invite leaves behind.
Accepts(i, u) ==
  /\ role' = IF role[u] = Out THEN [role EXCEPT ![u] = invite[i].role] ELSE role
  /\ admitted' = IF role[u] = Out THEN [admitted EXCEPT ![i] = @ + 1] ELSE admitted
  /\ invite' = [invite EXCEPT ![i].state = "accepted"]

\* The account of the request is there and has the invited address.
is_invited(r) ==
  req[r].actor \in Open /\ AddressOf[req[r].actor] = invite[req[r].other].to

\* A mutant of Join: the invite is not read again.
JoinUnread(r) ==
  /\ At(r, "join")
  /\ is_invited(r)
  /\ Accepts(req[r].other, req[r].actor)
  /\ Ends(r)
  /\ UNCHANGED << account, super, team >>

\* The transaction of someone signed in: both are read again, under the lock.
Join(r) ==
  /\ At(r, "join")
  /\ \/ /\ is_invited(r) /\ is_usable(req[r].other)
        /\ Accepts(req[r].other, req[r].actor)
     \/ /\ ~(is_invited(r) /\ is_usable(req[r].other))
        /\ UNCHANGED << role, admitted, invite >>
  /\ Ends(r)
  /\ UNCHANGED << account, super, team >>

\* The transaction of a visitor: an account is made, and joins.
Make(r) ==
  /\ At(r, "make")
  /\ LET i == req[r].other
         good == is_usable(i) /\ ~HasAccount(invite[i].to)
     IN \/ /\ good
           /\ \E u \in Users :
                /\ account[u] = "none"
                /\ AddressOf[u] = invite[i].to
                /\ account' = [account EXCEPT ![u] = "open"]
                /\ Accepts(i, u)
        \/ /\ ~good
           /\ UNCHANGED << account, role, admitted, invite >>
  /\ Ends(r)
  /\ UNCHANGED << super, team >>

\* The connection ends, or a check in between refuses the request.
GoAway(r) ==
  /\ ~At(r, "idle")
  /\ Ends(r)
  /\ UNCHANGED << account, super, role, team, invite, admitted >>

Next ==
  \/ \E r \in Requests :
       \/ AskTeam(r) \/ UpdateMember(r) \/ DestroyMember(r) \/ Destroy(r)
       \/ AskInstance(r) \/ UpdateSuperAdmin(r) \/ DestroyUser(r)
       \/ AskInvite(r) \/ Store(r) \/ Follow(r) \/ Join(r) \/ Make(r) \/ GoAway(r)
  \/ \E i \in Invites : Revoke(i) \/ Expire(i)

Spec == Init /\ [][Next]_vars

-----------------------------------------------------------------------------

Addresses == {AddressOf[u] : u \in Users}

InviteRow == [state : {"none", "pending", "accepted", "revoked", "expired"},
              to : Addresses \union {0}, role : Roles]

Asked == [at : {"idle", "update_member", "destroy_member", "destroy", "update_super_admin",
              "destroy_user", "store", "join", "make"},
        actor : Users \union {0}, other : Users \union Addresses \union Invites \union {0},
        give : {Out} \union Roles]

\* Every variable has its type.
TypeOK ==
  /\ account \in [Users -> {"none", "open", "deleted"}]
  /\ super \subseteq Open
  /\ role \in [Users -> {Out} \union Roles]
  /\ team \in BOOLEAN
  /\ invite \in [Invites -> InviteRow]
  /\ req \in [Requests -> Asked]
  /\ admitted \in [Invites -> Nat]

\* A team keeps an owner, whoever demotes, removes and deletes whom at the
\* same time (`member_refusal`, "of two owners who demote each other at once,
\* the second is no longer one"; `ensure_owner`), and none but open accounts
\* are in it.
OwnerRemains ==
  /\ team => \E u \in Users : role[u] = Owner
  /\ Members \subseteq Open

\* Someone runs the instance, also after two super admins removed each other
\* at once (`still_super_admin`, `set_super_admin`, `delete_account`).
InstanceIsRun == super # {}

\* Nobody is locked out of a team or of the instance by requests that cross.
SomeoneInCharge == OwnerRemains /\ InstanceIsRun

\* An invite lets one person in, once, also when it is followed twice at the
\* same time and the person is removed in between (`accept`, "Two requests
\* accepting the same link at once must not both use it").
InviteAdmitsOnce == \A i \in Invites : admitted[i] <= 1

-----------------------------------------------------------------------------
(* The inductive invariant behind them.                                    *)

\* What a request names is of the kind its handler takes.
NamesOK(r) ==
  /\ req[r].at \in {"update_member", "destroy_member", "update_super_admin", "destroy_user"}
       => req[r].actor \in Users /\ req[r].other \in Users
  /\ At(r, "update_member") => req[r].give \in Roles
  /\ At(r, "store") => req[r].other \in Addresses /\ req[r].give \in Roles
  /\ req[r].at \in {"join", "make"} => req[r].other \in Invites

\* An invite that can still be used has let nobody in.
UnusedAdmitsNone == \A i \in Invites : is_usable(i) => admitted[i] = 0

Inv ==
  /\ TypeOK
  /\ \A r \in Requests : NamesOK(r)
  /\ UnusedAdmitsNone
  /\ SomeoneInCharge
  /\ InviteAdmitsOnce
=============================================================================
