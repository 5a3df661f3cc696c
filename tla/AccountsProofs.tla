--------------------------- MODULE AccountsProofs ---------------------------
(***************************************************************************)
(* Proofs about the accounts of an instance, for any number of people,     *)
(* invites and requests.                                                   *)
(***************************************************************************)
EXTENDS Parts, FiniteSetTheorems, TLAPS

-----------------------------------------------------------------------------
(* Teams.                                                                  *)

\* The person who set the instance up owns the team and runs the instance.
LEMMA TeamsInit == Ppl!Init => Ppl!Inv
<1> SUFFICES ASSUME Ppl!Init PROVE Ppl!Inv
  OBVIOUS
<1> USE TeamsAssumption DEF Ppl!Init, Ppl!Out, Ppl!Owner, Ppl!Member, Ppl!Admin, Ppl!Roles
<1>1. Ppl!TypeOK
  BY DEF Ppl!TypeOK, Ppl!Open, Ppl!InviteRow, Ppl!NoInvite, Ppl!Idle, Ppl!Asked
<1>2. \A r \in Requests : Ppl!NamesOK(r)
  BY DEF Ppl!NamesOK, Ppl!At, Ppl!Idle
<1>3. Ppl!SomeoneInCharge
  BY DEF Ppl!SomeoneInCharge, Ppl!OwnerRemains, Ppl!InstanceIsRun, Ppl!Members, Ppl!Open
<1> QED BY <1>1, <1>2, <1>3 DEF Ppl!Inv, Ppl!UnusedAdmitsNone, Ppl!InviteAdmitsOnce,
           Ppl!is_usable, Ppl!NoInvite

\* A request that is answered keeps the types, and what the others name.
LEMMA TeamsEnds ==
  ASSUME Ppl!Inv, NEW r \in Requests, Ppl!Ends(r)
  PROVE  /\ page' \in [Requests -> Ppl!Asked]
         /\ \A q \in Requests : Ppl!NamesOK(q)'
  BY DEF Ppl!Inv, Ppl!TypeOK, Ppl!Ends, Ppl!Idle, Ppl!NamesOK, Ppl!At, Ppl!Out, Ppl!Asked

\* Requests that come: only what they are doing changes.
LEMMA TeamsCome ==
  ASSUME Ppl!Inv, NEW r \in Requests,
         Ppl!AskTeam(r) \/ Ppl!AskInstance(r) \/ Ppl!AskInvite(r) \/ Ppl!Follow(r) \/ Ppl!GoAway(r)
  PROVE  Ppl!Inv'
<1>1. UNCHANGED << account, super, role, team, invite, admitted >>
  BY DEF Ppl!AskTeam, Ppl!AskInstance, Ppl!AskInvite, Ppl!Follow, Ppl!GoAway, Ppl!Ask
<1>2. page' \in [Requests -> Ppl!Asked] /\ \A q \in Requests : Ppl!NamesOK(q)'
  <2> USE DEF Ppl!Inv, Ppl!TypeOK, Ppl!Asked, Ppl!Ask, Ppl!NamesOK, Ppl!At, Ppl!Idle,
              Ppl!Out, Ppl!Member, Ppl!Admin, Ppl!Owner, Ppl!Roles
  <2>1. CASE Ppl!AskTeam(r)
    BY <2>1 DEF Ppl!AskTeam
  <2>2. CASE Ppl!AskInstance(r)
    BY <2>2 DEF Ppl!AskInstance
  <2>3. CASE Ppl!AskInvite(r)
    BY <2>3 DEF Ppl!AskInvite, Ppl!Addresses
  <2>4. CASE Ppl!Follow(r)
    <3>1. PICK i \in Invites, s \in {"join", "make"}, a \in Users \union {0} :
            page' = [page EXCEPT ![r] = [Ppl!Idle EXCEPT !.at = s, !.actor = a, !.other = i]]
      BY <2>4 DEF Ppl!Follow, Ppl!Open
    <3> QED BY <3>1
  <2>5. CASE Ppl!GoAway(r)
    BY <2>5, TeamsEnds DEF Ppl!GoAway
  <2> QED BY <2>1, <2>2, <2>3, <2>4, <2>5
<1> QED BY <1>1, <1>2 DEF Ppl!Inv, Ppl!TypeOK, Ppl!Open, Ppl!UnusedAdmitsNone, Ppl!is_usable,
           Ppl!SomeoneInCharge, Ppl!OwnerRemains, Ppl!InstanceIsRun, Ppl!Members,
           Ppl!InviteAdmitsOnce

\* A change of roles that leaves accounts and invites alone keeps the
\* invariant when an owner remains and nobody without an account comes in.
LEMMA TeamsRoles ==
  ASSUME Ppl!Inv, NEW r \in Requests, Ppl!Ends(r),
         UNCHANGED << account, super, team, invite, admitted >>,
         role' \in [Users -> {Ppl!Out} \union Ppl!Roles],
         team => \E u \in Users : role'[u] = Ppl!Owner,
         \A u \in Users : role'[u] # Ppl!Out => role[u] # Ppl!Out
  PROVE  Ppl!Inv'
<1>1. page' \in [Requests -> Ppl!Asked] /\ \A q \in Requests : Ppl!NamesOK(q)'
  BY TeamsEnds
<1>2. Ppl!TypeOK' /\ Ppl!Open' = Ppl!Open
  BY <1>1 DEF Ppl!Inv, Ppl!TypeOK, Ppl!Open
<1>3. Ppl!SomeoneInCharge'
  BY <1>2 DEF Ppl!Inv, Ppl!SomeoneInCharge, Ppl!OwnerRemains, Ppl!InstanceIsRun, Ppl!Members
<1> QED BY <1>1, <1>2, <1>3 DEF Ppl!Inv, Ppl!UnusedAdmitsNone, Ppl!is_usable, Ppl!InviteAdmitsOnce

\* `update_member` and `destroy_member`: the actor, read again, ranks no lower
\* than the member it changes, so when that one is an owner another stays.
LEMMA TeamsMembers ==
  ASSUME Ppl!Inv, NEW r \in Requests, Ppl!UpdateMember(r) \/ Ppl!DestroyMember(r)
  PROVE  Ppl!Inv'
<1> USE DEF Ppl!Out, Ppl!Member, Ppl!Admin, Ppl!Owner, Ppl!Roles
<1> DEFINE a == page[r].actor
           m == page[r].other
<1>1. Ppl!Ends(r) /\ UNCHANGED << account, super, team, invite, admitted >>
  BY DEF Ppl!UpdateMember, Ppl!DestroyMember
<1>2. a \in Users /\ m \in Users /\ (Ppl!At(r, "update_member") => page[r].give \in Ppl!Roles)
  BY DEF Ppl!Inv, Ppl!NamesOK, Ppl!At, Ppl!UpdateMember, Ppl!DestroyMember
<1>3. CASE role' = role
  <2>1. team => \E u \in Users : role'[u] = Ppl!Owner
    BY <1>3 DEF Ppl!Inv, Ppl!SomeoneInCharge, Ppl!OwnerRemains
  <2> QED BY <1>1, <1>3, <2>1, TeamsRoles DEF Ppl!Inv, Ppl!TypeOK
<1>4. CASE role' # role
  <2>1. /\ Ppl!Manages(r)
        /\ \E g \in {Ppl!Out} \union Ppl!Roles : role' = [role EXCEPT ![m] = g]
    BY <1>2, <1>4 DEF Ppl!UpdateMember, Ppl!DestroyMember
  <2>2. role \in [Users -> 0 .. 3] /\ role' \in [Users -> 0 .. 3]
    BY <1>2, <2>1 DEF Ppl!Inv, Ppl!TypeOK
  <2>3. a # m /\ role[m] # 0 /\ role[a] >= 2 /\ role[m] <= role[a]
    BY <2>1 DEF Ppl!Manages, Ppl!may_manage, Ppl!is_admin
  <2>4. \A u \in Users \ {m} : role'[u] = role[u]
    BY <1>2, <2>1, <2>2
  <2>5. team => \E u \in Users : role'[u] = 3
    <3> SUFFICES ASSUME team PROVE \E u \in Users : role'[u] = 3
      OBVIOUS
    <3>1. PICK u \in Users : role[u] = 3
      BY DEF Ppl!Inv, Ppl!SomeoneInCharge, Ppl!OwnerRemains
    <3>2. u = m => role[a] = 3
      BY <1>2, <2>2, <2>3, <3>1
    <3> QED BY <1>2, <2>3, <2>4, <3>1, <3>2
  <2>6. \A u \in Users : role'[u] # 0 => role[u] # 0
    BY <2>3, <2>4
  <2> QED BY <1>1, <2>1, <2>2, <2>5, <2>6, TeamsRoles
<1> QED BY <1>3, <1>4

\* `DELETE /team`: the rows of the team go with it.
LEMMA TeamsDestroy ==
  ASSUME Ppl!Inv, NEW r \in Requests, Ppl!Destroy(r)
  PROVE  Ppl!Inv'
<1> USE DEF Ppl!Destroy, Ppl!TeamGoes, Ppl!Out, Ppl!Member, Ppl!Owner, Ppl!Admin, Ppl!Roles
<1>1. page' \in [Requests -> Ppl!Asked] /\ \A q \in Requests : Ppl!NamesOK(q)'
  BY TeamsEnds
<1>2. Ppl!TypeOK'
  BY <1>1 DEF Ppl!Inv, Ppl!TypeOK, Ppl!Open, Ppl!InviteRow, Ppl!NoInvite
<1>3. Ppl!SomeoneInCharge'
  BY DEF Ppl!Inv, Ppl!SomeoneInCharge, Ppl!OwnerRemains, Ppl!InstanceIsRun, Ppl!Members
<1> QED BY <1>1, <1>2, <1>3 DEF Ppl!Inv, Ppl!UnusedAdmitsNone, Ppl!is_usable, Ppl!NoInvite,
           Ppl!InviteAdmitsOnce

\* `update_super_admin`: the mark of the last one stays.
LEMMA TeamsSuper ==
  ASSUME Ppl!Inv, NEW r \in Requests, Ppl!UpdateSuperAdmin(r)
  PROVE  Ppl!Inv'
<1> USE DEF Ppl!UpdateSuperAdmin
<1>1. page' \in [Requests -> Ppl!Asked] /\ \A q \in Requests : Ppl!NamesOK(q)'
  BY TeamsEnds
<1>2. super' \subseteq Ppl!Open /\ super' # {}
  BY DEF Ppl!SuperAfter, Ppl!Inv, Ppl!TypeOK, Ppl!SomeoneInCharge, Ppl!InstanceIsRun
<1>3. Ppl!TypeOK' /\ Ppl!SomeoneInCharge'
  BY <1>1, <1>2 DEF Ppl!Inv, Ppl!TypeOK, Ppl!Open, Ppl!SomeoneInCharge, Ppl!OwnerRemains,
     Ppl!InstanceIsRun, Ppl!Members
<1> QED BY <1>1, <1>3 DEF Ppl!Inv, Ppl!UnusedAdmitsNone, Ppl!is_usable, Ppl!InviteAdmitsOnce

\* `delete_account`: of the members left one owns the team, and a super admin
\* other than the one deleted remains.
LEMMA TeamsDelete ==
  ASSUME Ppl!Inv, NEW r \in Requests, Ppl!DestroyUser(r)
  PROVE  Ppl!Inv'
<1> USE DEF Ppl!Out, Ppl!Member, Ppl!Admin, Ppl!Owner, Ppl!Roles
<1> DEFINE m == page[r].other
<1>1. page' \in [Requests -> Ppl!Asked] /\ \A q \in Requests : Ppl!NamesOK(q)'
  BY TeamsEnds DEF Ppl!DestroyUser
<1>2. m \in Users
  BY DEF Ppl!DestroyUser, Ppl!Inv, Ppl!NamesOK, Ppl!At
<1>3. CASE UNCHANGED << account, super, role, team, invite >>
  BY <1>1, <1>3 DEF Ppl!DestroyUser, Ppl!Inv, Ppl!TypeOK, Ppl!Open, Ppl!UnusedAdmitsNone,
     Ppl!is_usable, Ppl!SomeoneInCharge, Ppl!OwnerRemains, Ppl!InstanceIsRun, Ppl!Members,
     Ppl!InviteAdmitsOnce
<1>4. CASE Ppl!MayDestroyUser(r) /\ Ppl!DeleteAccount(m)
  <2>1. /\ account' = [account EXCEPT ![m] = "deleted"]
        /\ super' = super \ {m}
        /\ super' # {}
        /\ UNCHANGED admitted
    BY <1>4 DEF Ppl!MayDestroyUser, Ppl!DeleteAccount, Ppl!DestroyUser
  <2>2. Ppl!Open' = Ppl!Open \ {m}
    BY <1>2, <2>1 DEF Ppl!Inv, Ppl!TypeOK, Ppl!Open
  <2>3. /\ role' \in [Users -> {0, 1, 2, 3}]
        /\ \A u \in Users : role'[u] # 0 => role[u] # 0 /\ u # m
        /\ team' => \E u \in Users : role'[u] = 3
        /\ team' \in BOOLEAN
        /\ invite' = invite \/ invite' = [i \in Invites |-> Ppl!NoInvite]
    <3> USE <1>2 DEF Ppl!Inv, Ppl!TypeOK
    <3>1. CASE role[m] = 0 /\ UNCHANGED << role, team, invite >>
      BY <3>1 DEF Ppl!SomeoneInCharge, Ppl!OwnerRemains
    <3>2. CASE Ppl!TeamGoes
      BY <3>2 DEF Ppl!TeamGoes
    <3>3. ASSUME role[m] # 0, UNCHANGED << team, invite >>,
                 NEW h \in Ppl!Highest([role EXCEPT ![m] = 0]),
                 role' = Ppl!WithOwner([role EXCEPT ![m] = 0], h)
          PROVE  /\ role' \in [Users -> {0, 1, 2, 3}]
                 /\ \A u \in Users : role'[u] # 0 => role[u] # 0 /\ u # m
                 /\ \E u \in Users : role'[u] = 3
      <4> DEFINE left == [role EXCEPT ![m] = 0]
      <4>1. left \in [Users -> {0, 1, 2, 3}] /\ \A u \in Users : left[u] # 0 => role[u] # 0 /\ u # m
        OBVIOUS
      <4>2. h \in Users /\ left[h] # 0
        BY DEF Ppl!Highest
      <4>3. CASE \E u \in Users : left[u] = 3
        BY <3>3, <4>1, <4>3 DEF Ppl!WithOwner
      <4>4. CASE ~ \E u \in Users : left[u] = 3
        <5>1. role' = [left EXCEPT ![h] = 3]
          BY <3>3, <4>4 DEF Ppl!WithOwner
        <5> QED BY <4>1, <4>2, <5>1
      <4> QED BY <4>3, <4>4
    <3> QED BY <1>4, <3>1, <3>2, <3>3 DEF Ppl!DeleteAccount
  <2>4. Ppl!TypeOK'
    <3>1. invite' \in [Invites -> Ppl!InviteRow]
      BY <2>3 DEF Ppl!Inv, Ppl!TypeOK, Ppl!InviteRow, Ppl!NoInvite
    <3>2. account' \in [Users -> {"none", "open", "deleted"}] /\ super' \subseteq Ppl!Open'
      BY <2>1, <2>2 DEF Ppl!Inv, Ppl!TypeOK
    <3>3. admitted' \in [Invites -> Nat] /\ role' \in [Users -> {Ppl!Out} \union Ppl!Roles]
      BY <2>1, <2>3 DEF Ppl!Inv, Ppl!TypeOK
    <3> QED BY <1>1, <2>3, <3>1, <3>2, <3>3 DEF Ppl!TypeOK
  <2>5. Ppl!SomeoneInCharge'
    BY <2>1, <2>2, <2>3 DEF Ppl!Inv, Ppl!SomeoneInCharge, Ppl!OwnerRemains, Ppl!InstanceIsRun,
       Ppl!Members
  <2>6. Ppl!UnusedAdmitsNone'
    BY <2>1, <2>3 DEF Ppl!Inv, Ppl!UnusedAdmitsNone, Ppl!is_usable, Ppl!NoInvite
  <2> QED BY <1>1, <2>1, <2>4, <2>5, <2>6 DEF Ppl!Inv, Ppl!InviteAdmitsOnce
<1> QED BY <1>3, <1>4 DEF Ppl!DestroyUser

\* An invite that is made, withdrawn or runs out: only its row changes, and
\* the row that is made has let nobody in.
LEMMA TeamsInvites ==
  ASSUME Ppl!Inv,
         \/ \E r \in Requests : Ppl!Store(r)
         \/ \E i \in Invites : Ppl!Revoke(i) \/ Ppl!Expire(i)
  PROVE  Ppl!Inv'
<1>1. UNCHANGED << account, super, role, team, admitted >>
  BY DEF Ppl!Store, Ppl!Revoke, Ppl!Expire
<1>2. page' \in [Requests -> Ppl!Asked] /\ \A q \in Requests : Ppl!NamesOK(q)'
  <2>1. CASE \E r \in Requests : Ppl!Store(r)
    BY <2>1, TeamsEnds DEF Ppl!Store
  <2>2. CASE \E i \in Invites : Ppl!Revoke(i) \/ Ppl!Expire(i)
    <3>1. page' = page
      BY <2>2 DEF Ppl!Revoke, Ppl!Expire
    <3> QED BY <3>1 DEF Ppl!Inv, Ppl!TypeOK, Ppl!NamesOK, Ppl!At
  <2> QED BY <2>1, <2>2
<1>3. /\ invite' \in [Invites -> Ppl!InviteRow]
      /\ \A i \in Invites : invite'[i].state = "pending" => admitted[i] = 0
  <2> USE DEF Ppl!Inv, Ppl!TypeOK, Ppl!InviteRow, Ppl!UnusedAdmitsNone, Ppl!is_usable
  <2>1. ASSUME NEW r \in Requests, Ppl!Store(r)
        PROVE  <1>3
    <3>1. page[r].other \in Ppl!Addresses /\ page[r].give \in Ppl!Roles
      BY <2>1 DEF Ppl!Store, Ppl!NamesOK
    <3> QED BY <2>1, <3>1 DEF Ppl!Store
  <2>2. ASSUME NEW i \in Invites, Ppl!Revoke(i) \/ Ppl!Expire(i)
        PROVE  <1>3
    BY <2>2 DEF Ppl!Revoke, Ppl!Expire
  <2> QED BY <2>1, <2>2
<1> QED BY <1>1, <1>2, <1>3 DEF Ppl!Inv, Ppl!TypeOK, Ppl!Open, Ppl!UnusedAdmitsNone,
           Ppl!is_usable, Ppl!SomeoneInCharge, Ppl!OwnerRemains, Ppl!InstanceIsRun, Ppl!Members,
           Ppl!InviteAdmitsOnce

\* An accepted invite, read again in the transaction, has let nobody in yet;
\* it lets one person in and can be used no more.
LEMMA TeamsAccepts ==
  ASSUME Ppl!Inv, NEW i \in Invites, Ppl!is_usable(i), NEW u \in Users, Ppl!Accepts(i, u)
  PROVE  /\ role' \in [Users -> {Ppl!Out} \union Ppl!Roles]
         /\ \A v \in Users : v # u \/ role[v] # Ppl!Out => role'[v] = role[v]
         /\ admitted' \in [Invites -> Nat]
         /\ invite' \in [Invites -> Ppl!InviteRow]
         /\ Ppl!UnusedAdmitsNone'
         /\ Ppl!InviteAdmitsOnce'
<1> USE DEF Ppl!Inv, Ppl!TypeOK, Ppl!Accepts
<1>1. admitted[i] = 0
  BY DEF Ppl!UnusedAdmitsNone
<1>2. invite' = [invite EXCEPT ![i].state = "accepted"] /\ invite' \in [Invites -> Ppl!InviteRow]
  BY DEF Ppl!InviteRow
<1>3. /\ admitted' \in [Invites -> Nat] /\ admitted'[i] <= 1
      /\ \A j \in Invites \ {i} : admitted'[j] = admitted[j]
  BY <1>1
<1>4. invite[i].role \in Ppl!Roles
  BY DEF Ppl!InviteRow
<1>5. role' \in [Users -> {Ppl!Out} \union Ppl!Roles]
  BY <1>4
<1>6. \A v \in Users : v # u \/ role[v] # Ppl!Out => role'[v] = role[v]
  OBVIOUS
<1>7. Ppl!UnusedAdmitsNone'
  BY <1>2, <1>3 DEF Ppl!UnusedAdmitsNone, Ppl!is_usable, Ppl!InviteRow
<1>8. Ppl!InviteAdmitsOnce'
  BY <1>3 DEF Ppl!InviteAdmitsOnce
<1> QED BY <1>2, <1>3, <1>5, <1>6, <1>7, <1>8

\* The two ways to accept: with an account that is there, or with a new one.
LEMMA TeamsAccept ==
  ASSUME Ppl!Inv, NEW r \in Requests, Ppl!Join(r) \/ Ppl!Make(r)
  PROVE  Ppl!Inv'
<1> USE DEF Ppl!Out, Ppl!Owner
<1> DEFINE i == page[r].other
<1>1. page' \in [Requests -> Ppl!Asked] /\ \A q \in Requests : Ppl!NamesOK(q)'
  BY TeamsEnds DEF Ppl!Join, Ppl!Make
<1>2. i \in Invites /\ UNCHANGED << super, team >>
  BY DEF Ppl!Join, Ppl!Make, Ppl!Inv, Ppl!NamesOK, Ppl!At
<1>3. CASE UNCHANGED << account, role, admitted, invite >>
  BY <1>1, <1>2, <1>3 DEF Ppl!Inv, Ppl!TypeOK, Ppl!Open, Ppl!UnusedAdmitsNone,
     Ppl!is_usable, Ppl!SomeoneInCharge, Ppl!OwnerRemains, Ppl!InstanceIsRun, Ppl!Members,
     Ppl!InviteAdmitsOnce
<1>4. ASSUME NEW u \in Users, Ppl!is_usable(i), Ppl!Accepts(i, u),
             account' = [account EXCEPT ![u] = "open"]
      PROVE  Ppl!Inv'
  <2>1. /\ role' \in [Users -> {Ppl!Out} \union Ppl!Roles]
        /\ \A v \in Users : v # u \/ role[v] # Ppl!Out => role'[v] = role[v]
        /\ admitted' \in [Invites -> Nat]
        /\ invite' \in [Invites -> Ppl!InviteRow]
        /\ Ppl!UnusedAdmitsNone'
        /\ Ppl!InviteAdmitsOnce'
    BY <1>2, <1>4, TeamsAccepts
  <2>2. Ppl!Open \union {u} = Ppl!Open' /\ account' \in [Users -> {"none", "open", "deleted"}]
    BY <1>4 DEF Ppl!Open, Ppl!Inv, Ppl!TypeOK
  <2>3. Ppl!TypeOK'
    BY <1>1, <1>2, <2>1, <2>2 DEF Ppl!Inv, Ppl!TypeOK
  <2>4. Ppl!SomeoneInCharge'
    BY <1>2, <2>1, <2>2 DEF Ppl!Inv, Ppl!SomeoneInCharge, Ppl!OwnerRemains, Ppl!InstanceIsRun,
       Ppl!Members
  <2> QED BY <1>1, <2>1, <2>3, <2>4 DEF Ppl!Inv
<1>5. CASE Ppl!Join(r)
  <2>1. CASE Ppl!is_invited(r) /\ Ppl!is_usable(i) /\ Ppl!Accepts(i, page[r].actor)
    <3>1. page[r].actor \in Users /\ account' = [account EXCEPT ![page[r].actor] = "open"]
      BY <1>5, <2>1 DEF Ppl!Join, Ppl!is_invited, Ppl!Open, Ppl!Inv, Ppl!TypeOK
    <3> QED BY <1>4, <2>1, <3>1
  <2> QED BY <1>3, <1>5, <2>1 DEF Ppl!Join
<1>6. CASE Ppl!Make(r)
  BY <1>3, <1>4, <1>6 DEF Ppl!Make
<1> QED BY <1>5, <1>6

\* Every step of a request about teams keeps the invariant of the teams.
LEMMA TeamsNext == Ppl!Inv /\ [Ppl!Next]_pplVars => Ppl!Inv'
<1> SUFFICES ASSUME Ppl!Inv, [Ppl!Next]_pplVars PROVE Ppl!Inv'
  OBVIOUS
<1>1. CASE UNCHANGED pplVars
  BY <1>1 DEF pplVars, Ppl!Inv, Ppl!TypeOK, Ppl!Open, Ppl!NamesOK, Ppl!At, Ppl!UnusedAdmitsNone,
     Ppl!is_usable, Ppl!SomeoneInCharge, Ppl!OwnerRemains, Ppl!InstanceIsRun, Ppl!Members,
     Ppl!InviteAdmitsOnce
<1>2. CASE Ppl!Next
  BY <1>2, TeamsCome, TeamsMembers, TeamsDestroy, TeamsSuper, TeamsDelete, TeamsInvites,
     TeamsAccept DEF Ppl!Next
<1> QED BY <1>1, <1>2

\* A step of the parts moves the teams by a step of their own, or not at all.
LEMMA TeamsMove == [Next]_allVars => [Ppl!Next]_pplVars
  BY DEF Next, Moves, allVars, pplVars

\* Who is in a team, who owns it and who an invite admitted agree with the pages
\* the requests read.
LEMMA TeamsInvariant == Spec => []Ppl!Inv
<1>1. Init => Ppl!Inv
  BY TeamsInit DEF Init
<1>2. Ppl!Inv /\ [Next]_allVars => Ppl!Inv'
  BY TeamsNext, TeamsMove
<1> QED BY <1>1, <1>2, PTL DEF Spec

\* A team keeps an owner, none but open accounts are in it, and the instance
\* keeps a super admin (`member_refusal`, `ensure_owner`, `set_super_admin`,
\* `delete_account`), whatever requests cross.
THEOREM SomeoneStaysInCharge == Spec => []SomeoneInCharge
<1>1. Ppl!Inv => SomeoneInCharge
  BY DEF Ppl!Inv, SomeoneInCharge
<1> QED BY <1>1, TeamsInvariant, PTL

\* An invite admits one person, once (`accept`).
THEOREM InvitesAdmitOnce == Spec => []InviteAdmitsOnce
<1>1. Ppl!Inv => InviteAdmitsOnce
  BY DEF Ppl!Inv, InviteAdmitsOnce
<1> QED BY <1>1, TeamsInvariant, PTL

-----------------------------------------------------------------------------
(* Sessions.                                                               *)

\* An instance starts with one password and nobody signed in.
LEMMA SessionsInit == Ses!Init => Ses!Inv
  BY SessionsAssumption DEF Ses!Init, Ses!Inv, Ses!TypeOK, Ses!Idle, Ses!Asked, Ses!ReadOK

\* The account only moves on: its version grows, and its password changes with
\* it.  What was true of what is handed out or under way stays true, so a step
\* has to show the invariant for what is new.
LEMMA SessionsStep ==
  ASSUME Ses!Inv, NEW r \in Requests, NEW q \in Ses!Asked,
         signin' = [signin EXCEPT ![r] = q],
         password' \in 1..MaxPasswords, version' \in version..MaxVersion,
         version' = version => password' = password,
         protected' \in BOOLEAN,
         tokens' \subseteq Ses!Proofs,
         \A d \in stamps' \union pending' :
           d \in stamps \union pending \/ (d \in Ses!Dated /\ Ses!Dates(d)'),
         Ses!ReadOK(q)'
  PROVE  Ses!Inv'
<1>1. signin \in [Requests -> Ses!Asked] /\ version \in 1..MaxVersion
  BY DEF Ses!Inv, Ses!TypeOK
<1>2. \A d : d.ver \in Nat /\ Ses!Dates(d) => Ses!Dates(d)'
  BY <1>1, SessionsAssumption DEF Ses!Dates
<1>3. \A d \in stamps \union pending : d \in Ses!Dated /\ Ses!Dates(d)
  BY DEF Ses!Inv, Ses!TypeOK
<1>4. \A d \in stamps' \union pending' : d \in Ses!Dated /\ Ses!Dates(d)'
  BY <1>2, <1>3, SessionsAssumption DEF Ses!Dated
<1>5. Ses!TypeOK'
  <2>1. version' \in 1..MaxVersion
    BY <1>1, SessionsAssumption
  <2> QED BY <1>1, <1>4, <2>1 DEF Ses!TypeOK
<1>6. ASSUME NEW k \in Requests PROVE Ses!ReadOK(signin[k])'
  <2>1. CASE k = r
    BY <1>1, <2>1
  <2>2. CASE k # r
    <3>1. signin'[k] = signin[k] /\ signin[k] \in Ses!Asked /\ Ses!ReadOK(signin[k])
      BY <1>1, <2>2 DEF Ses!Inv
    <3>2. signin[k].ver \in Nat
      BY <3>1, SessionsAssumption DEF Ses!Asked
    <3> QED BY <1>1, <1>2, <3>1, <3>2, SessionsAssumption DEF Ses!ReadOK
  <2> QED BY <2>1, <2>2
<1> QED BY <1>4, <1>5, <1>6 DEF Ses!Inv

\* A request that reads, or ends: nothing is handed out.
LEMMA SessionsRead ==
  ASSUME Ses!Inv, NEW r \in Requests, NEW q \in Ses!Asked,
         signin' = [signin EXCEPT ![r] = q], Ses!ReadOK(q),
         UNCHANGED << password, version, protected, stamps, pending >>, tokens' \subseteq Ses!Proofs
  PROVE  Ses!Inv'
<1>1. Ses!ReadOK(q)'
  BY DEF Ses!ReadOK, Ses!Dates
<1>2. password' \in 1..MaxPasswords /\ version' \in version..MaxVersion /\ protected' \in BOOLEAN
  BY SessionsAssumption DEF Ses!Inv, Ses!TypeOK
<1> QED BY <1>1, <1>2, SessionsStep

\* Sign-ins, cookies, log-outs and changes of the password keep the dates right.
LEMMA SessionsNext == Ses!Inv /\ [Ses!Next]_sesVars => Ses!Inv'
<1> SUFFICES ASSUME Ses!Inv, [Ses!Next]_sesVars PROVE Ses!Inv'
  OBVIOUS
<1>1. CASE UNCHANGED sesVars
  BY <1>1 DEF sesVars, Ses!Inv, Ses!TypeOK, Ses!Dates, Ses!ReadOK
<1>2. ASSUME NEW r \in Requests,
             \/ Ses!Login(r) \/ Ses!Proven(r) \/ Ses!PasskeySignIn(r) \/ Ses!SignIn(r)
             \/ \E p \in pending : Ses!SecondStep(r, p)
             \/ \E t \in tokens : Ses!RememberRow(r, t)
             \/ Ses!RememberUser(r) \/ Ses!RememberDelete(r)
             \/ \E s \in stamps : Ses!AskChange(r, s) \/ Ses!Logout(r, s)
             \/ Ses!ChangePassword(r) \/ Ses!SignOut(r) \/ Ses!GoAway(r)
      PROVE  Ses!Inv'
  <2> USE SessionsAssumption
  <2>1. /\ password \in 1..MaxPasswords /\ version \in 1..MaxVersion /\ protected \in BOOLEAN
        /\ tokens \subseteq Ses!Proofs
        /\ stamps \subseteq Ses!Dated /\ pending \subseteq Ses!Dated
        /\ signin \in [Requests -> Ses!Asked]
        /\ \A d \in stamps \union pending : Ses!Dates(d)
        /\ Ses!ReadOK(signin[r])
    BY DEF Ses!Inv, Ses!TypeOK
  <2>2. PICK idle \in Ses!Asked : idle = Ses!Idle /\ Ses!ReadOK(idle) /\ Ses!ReadOK(idle)'
    <3>0. PICK idle : idle = Ses!Idle
      OBVIOUS
    <3> QED BY <3>0 DEF Ses!Idle, Ses!Asked, Ses!ReadOK
  <2>3. CASE Ses!Login(r)
    <3> DEFINE q == [at |-> "proven", ver |-> version,
                     by |-> [pw |-> password, via |-> "password"]]
    <3>1. q \in Ses!Asked /\ Ses!ReadOK(q)
      BY <2>1 DEF Ses!Asked, Ses!Proofs, Ses!ReadOK, Ses!Dates
    <3> QED BY <2>1, <2>3, <3>1, SessionsRead DEF Ses!Login, Ses!Reads
  <2>4. CASE Ses!PasskeySignIn(r)
    <3> DEFINE q == [at |-> "signing_in", ver |-> version, by |-> [pw |-> 0, via |-> "passkey"]]
    <3>1. q \in Ses!Asked /\ Ses!ReadOK(q)
      BY <2>1 DEF Ses!Asked, Ses!Proofs, Ses!ReadOK, Ses!Dates
    <3> QED BY <2>1, <2>4, <3>1, SessionsRead DEF Ses!PasskeySignIn, Ses!Reads
  <2>5. ASSUME NEW p \in pending, Ses!SecondStep(r, p) PROVE Ses!Inv'
    <3> DEFINE q == [at |-> "signing_in", ver |-> version, by |-> p.by]
    <3>1. q \in Ses!Asked /\ Ses!ReadOK(q)
      BY <2>1, <2>5 DEF Ses!SecondStep, Ses!Asked, Ses!Dated, Ses!ReadOK, Ses!Dates
    <3> QED BY <2>1, <2>5, <3>1, SessionsRead DEF Ses!SecondStep, Ses!Reads
  <2>6. ASSUME NEW t \in tokens, Ses!RememberRow(r, t) PROVE Ses!Inv'
    <3> DEFINE q == [at |-> "remembered", ver |-> 0, by |-> t]
    <3>1. q \in Ses!Asked /\ Ses!ReadOK(q)
      BY <2>1 DEF Ses!Asked, Ses!ReadOK
    <3> QED BY <2>1, <2>6, <3>1, SessionsRead DEF Ses!RememberRow
  <2>7. CASE Ses!RememberUser(r)
    <3> DEFINE q == [at |-> "replacing", ver |-> version, by |-> signin[r].by]
    <3>1. q \in Ses!Asked /\ Ses!ReadOK(q)
      BY <2>1, <2>7 DEF Ses!RememberUser, Ses!At, Ses!Asked, Ses!ReadOK
    <3> QED BY <2>1, <2>7, <3>1, SessionsRead DEF Ses!RememberUser, Ses!Reads
  <2>8. CASE Ses!RememberDelete(r)
    <3> DEFINE q == [signin[r] EXCEPT !.at = "signing_in", !.by = Ses!ByToken(@)]
    <3>1. signin[r].by \in Ses!Proofs /\ signin[r].ver \in 1..version
      BY <2>1, <2>8 DEF Ses!RememberDelete, Ses!At, Ses!ReadOK
    <3>2. Ses!ByToken(signin[r].by) \in Ses!Proofs /\ Ses!ByToken(signin[r].by).via = "token"
      BY <3>1 DEF Ses!ByToken, Ses!Proofs
    <3>3. q \in Ses!Asked /\ Ses!ReadOK(q)
      <4>1. q \in Ses!Asked
        BY <2>1, <3>2 DEF Ses!Asked
      <4>2. q.at = "signing_in" /\ q.ver = signin[r].ver /\ q.by = Ses!ByToken(signin[r].by)
        BY <2>1 DEF Ses!Asked
      <4>3. Ses!ReadOK(q)
        BY <2>1, <3>1, <3>2, <4>2 DEF Ses!ReadOK, Ses!Dates
      <4> QED BY <4>1, <4>3
    <3>4. signin' = [signin EXCEPT ![r] = q]
      BY <2>1, <2>8 DEF Ses!RememberDelete
    <3> QED BY <2>1, <2>8, <3>3, <3>4, SessionsRead DEF Ses!RememberDelete
  <2>9. ASSUME NEW s \in stamps, Ses!AskChange(r, s) PROVE Ses!Inv'
    <3> DEFINE q == [at |-> "changing", ver |-> version, by |-> s.by]
    <3>1. q \in Ses!Asked /\ Ses!ReadOK(q)
      BY <2>1 DEF Ses!Asked, Ses!Dated, Ses!ReadOK
    <3> QED BY <2>1, <2>9, <3>1, SessionsRead DEF Ses!AskChange, Ses!Reads
  <2>10. CASE Ses!SignOut(r) \/ Ses!GoAway(r)
    BY <2>1, <2>2, <2>10, SessionsRead DEF Ses!SignOut, Ses!GoAway, Ses!Ends
  <2>11. CASE Ses!Proven(r) \/ Ses!SignIn(r)
    <3>0. PICK d : d = [ver |-> signin[r].ver, by |-> signin[r].by]
      OBVIOUS
    <3>1. d \in Ses!Dated /\ Ses!Dates(d)
      BY <2>1, <2>11, <3>0 DEF Ses!Proven, Ses!SignIn, Ses!At, Ses!ReadOK, Ses!Dates, Ses!Dated
    <3>2. CASE signin' = [signin EXCEPT ![r].at = "signing_in"] /\ UNCHANGED << pending, stamps >>
      <4> DEFINE q == [signin[r] EXCEPT !.at = "signing_in"]
      <4>1. q \in Ses!Asked /\ Ses!ReadOK(q)
        BY <2>1, <2>11, <3>0, <3>1 DEF Ses!Asked, Ses!Proven, Ses!SignIn, Ses!At, Ses!ReadOK, Ses!Dates
      <4>2. signin' = [signin EXCEPT ![r] = q]
        BY <2>1, <3>2
      <4>3. UNCHANGED << password, version, protected >> /\ tokens' \subseteq Ses!Proofs
        BY <2>1, <2>11, <3>0, <3>1 DEF Ses!Proven, Ses!SignIn, Ses!Dated
      <4> QED BY <3>2, <4>1, <4>2, <4>3, SessionsRead
    <3>3. CASE Ses!Ends(r)
      <4>1. UNCHANGED << password, version, protected >> /\ tokens' \subseteq Ses!Proofs
        BY <2>1, <2>11, <3>0, <3>1 DEF Ses!Proven, Ses!SignIn, Ses!Dated
      <4>2. Ses!Dates(d)'
        BY <3>1, <4>1 DEF Ses!Dates
      <4>3. \A e \in stamps' \union pending' : e \in stamps \union pending \union {d}
        BY <2>11, <3>0, <3>3 DEF Ses!Proven, Ses!SignIn, Ses!Since
      <4>4. \A e \in stamps' \union pending' :
              e \in stamps \union pending \/ (e \in Ses!Dated /\ Ses!Dates(e)')
        BY <3>1, <4>2, <4>3
      <4>5. version' \in version..MaxVersion /\ password' \in 1..MaxPasswords /\ protected' \in BOOLEAN
        BY <2>1, <4>1
      <4>6. signin' = [signin EXCEPT ![r] = idle]
        BY <2>2, <3>3 DEF Ses!Ends
      <4> QED BY <2>2, <4>1, <4>4, <4>5, <4>6, SessionsStep
    <3> QED BY <2>11, <3>2, <3>3 DEF Ses!Proven, Ses!SignIn
  <2>12. ASSUME NEW s \in stamps, Ses!Logout(r, s) PROVE Ses!Inv'
    <3>0. PICK q : q = [at |-> "signing_out", ver |-> 0, by |-> s.by]
      OBVIOUS
    <3>1. q \in Ses!Asked /\ Ses!ReadOK(q)'
      BY <2>1, <3>0 DEF Ses!Asked, Ses!Dated, Ses!ReadOK
    <3>2. \A e \in stamps' \union pending' : e \in stamps \union pending
      BY <2>12 DEF Ses!Logout, Ses!Since
    <3>3. version' = version + 1 /\ version' \in version..MaxVersion
      BY <2>1, <2>12 DEF Ses!Logout
    <3>4. signin' = [signin EXCEPT ![r] = q]
      BY <2>12, <3>0 DEF Ses!Logout
    <3> QED BY <2>1, <2>12, <3>1, <3>2, <3>3, <3>4, SessionsStep DEF Ses!Logout
  <2>13. CASE Ses!ChangePassword(r)
    <3>0. PICK d : d = [ver |-> version', by |-> [pw |-> password', via |-> "password"]]
      OBVIOUS
    <3>1. version' = version + 1 /\ version' \in version..MaxVersion /\ password' \in 1..MaxPasswords
      BY <2>1, <2>13 DEF Ses!ChangePassword
    <3>2. d \in Ses!Dated /\ Ses!Dates(d)'
      BY <2>1, <3>0, <3>1 DEF Ses!Dated, Ses!Proofs, Ses!Dates
    <3>3. \A e \in stamps' \union pending' : e \in stamps \union pending \/ e = d
      BY <2>13, <3>0 DEF Ses!ChangePassword, Ses!Since
    <3>4. \A e \in stamps' \union pending' :
            e \in stamps \union pending \/ (e \in Ses!Dated /\ Ses!Dates(e)')
      BY <3>2, <3>3
    <3>5. signin' = [signin EXCEPT ![r] = idle] /\ protected' \in BOOLEAN /\ tokens' \subseteq Ses!Proofs
      BY <2>1, <2>2, <2>13 DEF Ses!ChangePassword, Ses!Ends
    <3>6. version' # version
      BY <2>1, <3>1
    <3> QED BY <2>2, <3>1, <3>4, <3>5, <3>6, SessionsStep
  <2> QED BY <1>2, <2>3, <2>4, <2>5, <2>6, <2>7, <2>8, <2>9, <2>10, <2>11, <2>12, <2>13
<1> QED BY <1>1, <1>2 DEF Ses!Next

\* What was read of an account, and what was handed out for it, is dated rightly.
LEMMA SessionsInvariant == Spec => []Ses!Inv
<1>1. Init => Ses!Inv
  BY SessionsInit DEF Init
<1>2. Ses!Inv /\ [Next]_allVars => Ses!Inv'
  <2>1. [Next]_allVars => [Ses!Next]_sesVars
    BY DEF Next, Moves, allVars, sesVars
  <2> QED BY <2>1, SessionsNext
<1> QED BY <1>1, <1>2, PTL DEF Spec

\* A session that a password opened counts as a login under that password
\* only (`change_password`, `authenticate`): not when the password changed
\* while it was opened, whatever else was under way.
THEOREM SessionsGoWithPassword == Spec => []SessionOfPassword
<1>1. Ses!Inv => SessionOfPassword
  BY DEF Ses!Inv, Ses!Dates, SessionOfPassword, Ses!SessionOfPassword, Ses!Valid
<1> QED BY <1>1, SessionsInvariant, PTL

-----------------------------------------------------------------------------
(* The second step.                                                        *)

\* An account starts without a second step.
LEMMA TwoFactorInit == Two!Init => Two!Inv
<1> SUFFICES ASSUME Two!Init PROVE Two!Inv
  OBVIOUS
<1> USE TwoFactorAssumption DEF Two!Init
<1>1. Two!TypeOK /\ Two!AcceptedBefore /\ Two!SpentIsUsed /\ secret <= secrets /\ codes <= gens
  <2>1. unused \in BOOLEAN
    BY Zenon
  <2> QED BY <2>1 DEF Two!TypeOK, Two!AcceptedBefore, Two!SpentIsUsed
<1>2. second \in [Requests -> Two!Read] /\ \A r \in Requests : Two!ReadOK(r)
  BY DEF Two!Idle, Two!Asked, Two!Read, Two!ReadOK, Two!Is
<1> QED BY <1>1, <1>2 DEF Two!Inv

\* What the requests other than r hold stays right as secrets are only added.
LEMMA TwoFactorReads ==
  ASSUME Two!Inv, NEW r \in Requests, NEW q \in Two!Read, second' = [second EXCEPT ![r] = q],
         secrets' \in Nat, secrets <= secrets',
         q.secret <= secrets',
         q.op = "enable" => q.setup \in 1..secrets',
         q.op = "app_code" => q.secret > 0 /\ q.code \in 1..MaxStep,
         q.op = "recovery_code" => q.code > 0
  PROVE  second' \in [Requests -> Two!Read] /\ \A k \in Requests : Two!ReadOK(k)'
<1>1. second \in [Requests -> Two!Read] /\ secrets \in Nat
  BY TwoFactorAssumption DEF Two!Inv, Two!TypeOK
<1>2. second' \in [Requests -> Two!Read]
  BY <1>1
<1>3. ASSUME NEW k \in Requests PROVE Two!ReadOK(k)'
  <2>1. CASE k = r
    BY <1>1, <2>1 DEF Two!ReadOK, Two!Is
  <2>2. CASE k # r
    <3>1. /\ second'[k] = second[k] /\ second[k].secret \in Nat /\ second[k].setup \in Nat
          /\ Two!ReadOK(k)
      BY <1>1, <2>2 DEF Two!Inv, Two!Read
    <3> QED BY <1>1, <3>1 DEF Two!ReadOK, Two!Is
  <2> QED BY <2>1, <2>2
<1> QED BY <1>2, <1>3

\* A request that ends forgets what it read (the handler returns).
LEMMA TwoFactorEnds ==
  ASSUME Two!Inv, NEW r \in Requests, Two!Ends(r), secrets' \in Nat, secrets <= secrets'
  PROVE  second' \in [Requests -> Two!Read] /\ \A k \in Requests : Two!ReadOK(k)'
<1>0. PICK q : q = Two!Idle
  OBVIOUS
<1>1. q \in Two!Read /\ q.secret = 0 /\ q.op = "idle"
  BY <1>0, TwoFactorAssumption DEF Two!Idle, Two!Asked, Two!Read
<1>2. second' = [second EXCEPT ![r] = q] /\ q.secret <= secrets'
  BY <1>0, <1>1 DEF Two!Ends
<1> QED BY <1>1, <1>2, TwoFactorReads

\* Requests that come, and ones that are dropped.
LEMMA TwoFactorCome ==
  ASSUME Two!Inv, NEW r \in Requests,
         \/ \E op \in Two!Writes \ {"enable"} : Two!Ask(r, op)
         \/ \E setup \in 1..MaxSecrets : Two!Confirm(r, setup)
         \/ \E s \in 1..MaxStep : Two!TypeAppCode(r, s)
         \/ Two!TypeRecoveryCode(r, codes)
         \/ Two!GoAway(r)
  PROVE  Two!Inv'
<1> USE TwoFactorAssumption
<1>1. UNCHANGED << secret, last, passkeys, codes, unused, gens, accepted, spent >>
  BY DEF Two!Ask, Two!Confirm, Two!TypeAppCode, Two!TypeRecoveryCode, Two!GoAway, Two!row,
         Two!recovery
<1>2. /\ secret \in Nat /\ secret <= secrets /\ secrets \in 0..MaxSecrets /\ last \in 0..MaxStep
      /\ codes \in Nat /\ secrets' \in 0..MaxSecrets /\ secrets' \in Nat /\ secrets <= secrets'
  <2>1. secrets \in 0..MaxSecrets
    BY DEF Two!Inv, Two!TypeOK
  <2>2. secrets' \in 0..MaxSecrets /\ secrets <= secrets'
    BY <2>1 DEF Two!Ask, Two!Confirm, Two!TypeAppCode, Two!TypeRecoveryCode, Two!GoAway,
                Two!row, Two!recovery
  <2> QED BY <2>1, <2>2 DEF Two!Inv, Two!TypeOK
<1>3. second' \in [Requests -> Two!Read] /\ \A k \in Requests : Two!ReadOK(k)'
  <2>1. ASSUME NEW op \in Two!Writes \ {"enable"}, Two!Ask(r, op) PROVE <1>3
    <3>1. PICK q : q = Two!Asked(op, secret, last, 0, 0)
      OBVIOUS
    <3>2. /\ q \in Two!Read /\ q.secret <= secrets'
          /\ q.op \notin {"enable", "app_code", "recovery_code"}
      BY <1>1, <1>2, <3>1 DEF Two!Asked, Two!Read, Two!Writes
    <3>4. second' = [second EXCEPT ![r] = q]
      BY <2>1, <3>1 DEF Two!Ask
    <3> QED BY <1>2, <3>2, <3>4, TwoFactorReads
  <2>5. ASSUME NEW setup \in 1..MaxSecrets, Two!Confirm(r, setup) PROVE <1>3
    <3>1. PICK q : q = Two!Asked("enable", 0, last, 0, setup)
      OBVIOUS
    <3>2. q \in Two!Read /\ q.secret <= secrets' /\ q.op = "enable" /\ q.setup = setup
      BY <1>1, <1>2, <3>1 DEF Two!Asked, Two!Read, Two!Writes
    <3>3. setup \in 1..secrets'
      BY <1>2, <2>5 DEF Two!Confirm
    <3>4. second' = [second EXCEPT ![r] = q]
      BY <2>5, <3>1 DEF Two!Confirm
    <3> QED BY <1>2, <3>2, <3>3, <3>4, TwoFactorReads
  <2>2. ASSUME NEW s \in 1..MaxStep, Two!TypeAppCode(r, s) PROVE <1>3
    <3>1. PICK q : q = Two!Asked("app_code", secret, last, s, 0)
      OBVIOUS
    <3>2. /\ q \in Two!Read /\ q.op = "app_code" /\ q.secret <= secrets' /\ q.secret > 0
          /\ q.code \in 1..MaxStep
      BY <1>1, <1>2, <2>2, <3>1 DEF Two!Asked, Two!Read, Two!TypeAppCode
    <3>4. second' = [second EXCEPT ![r] = q]
      BY <2>2, <3>1 DEF Two!TypeAppCode
    <3> QED BY <1>2, <3>2, <3>4, TwoFactorReads
  <2>3. CASE Two!TypeRecoveryCode(r, codes)
    <3>1. PICK q : q = Two!Asked("recovery_code", 0, 0, codes, 0)
      OBVIOUS
    <3>2. q \in Two!Read /\ q.secret <= secrets' /\ q.op = "recovery_code" /\ q.code > 0
      BY <1>1, <1>2, <2>3, <3>1 DEF Two!Asked, Two!Read, Two!TypeRecoveryCode
    <3>4. second' = [second EXCEPT ![r] = q]
      BY <2>3, <3>1 DEF Two!TypeRecoveryCode
    <3> QED BY <1>2, <3>2, <3>4, TwoFactorReads
  <2>4. CASE Two!GoAway(r)
    BY <1>2, <2>4, TwoFactorEnds DEF Two!GoAway
  <2> QED BY <2>1, <2>2, <2>3, <2>4, <2>5
<1> QED BY <1>1, <1>2, <1>3 DEF Two!Inv, Two!TypeOK, Two!AcceptedBefore, Two!SpentIsUsed

\* Every other step answers its request; what is left to show is about the row
\* of the user, the codes that were accepted and the recovery codes.
LEMMA TwoFactorWrite ==
  ASSUME Two!Inv, NEW r \in Requests, Two!Ends(r),
         passkeys' \in 0..MaxPasskeys, secrets' \in secrets..MaxSecrets,
         secret' \in 0..secrets', last' \in 0..MaxStep,
         accepted' \subseteq [secret : 1..MaxSecrets, step : 1..MaxStep], Two!AcceptedBefore',
         gens' \in 0..MaxGens, codes' \in 0..gens', unused' \in BOOLEAN,
         spent' \subseteq 1..gens', codes' \in spent' => ~ unused'
  PROVE  Two!Inv'
<1> USE TwoFactorAssumption
<1>1. second' \in [Requests -> Two!Read] /\ \A k \in Requests : Two!ReadOK(k)'
  <2>1. secrets' \in Nat /\ secrets <= secrets'
    BY DEF Two!Inv, Two!TypeOK
  <2> QED BY <2>1, TwoFactorEnds
<1>2. Two!TypeOK' /\ secret' <= secrets' /\ codes' <= gens'
  BY DEF Two!Inv, Two!TypeOK
<1>3. Two!SpentIsUsed'
  BY DEF Two!SpentIsUsed
<1> QED BY <1>1, <1>2, <1>3 DEF Two!Inv

\* What the invariant says of the recovery codes holds when they stay as they
\* are, are replaced by a new set, or are deleted.
LEMMA TwoFactorCodes ==
  ASSUME Two!Inv, UNCHANGED Two!recovery \/ Two!NewCodes \/ Two!NoCodes, UNCHANGED spent
  PROVE  /\ gens' \in 0..MaxGens /\ codes' \in 0..gens' /\ unused' \in BOOLEAN
         /\ spent' \subseteq 1..gens' /\ (codes' \in spent' => ~ unused')
<1> USE TwoFactorAssumption DEF Two!Inv, Two!TypeOK, Two!SpentIsUsed
<1>0. codes \in 0..gens /\ spent \subseteq 1..gens
  OBVIOUS
<1>1. CASE UNCHANGED Two!recovery
  BY <1>0, <1>1 DEF Two!recovery
<1>2. CASE Two!NewCodes
  BY <1>0, <1>2 DEF Two!NewCodes
<1>3. CASE Two!NoCodes
  <2>1. unused' \in BOOLEAN /\ ~ unused'
    BY <1>3, Zenon DEF Two!NoCodes
  <2> QED BY <1>0, <1>3, <2>1 DEF Two!NoCodes
<1> QED BY <1>1, <1>2, <1>3

\* Every handler of the second step keeps what was read no newer than what is.
LEMMA TwoFactorNext == Two!Inv /\ [Two!Next]_twoVars => Two!Inv'
<1> SUFFICES ASSUME Two!Inv, [Two!Next]_twoVars PROVE Two!Inv'
  OBVIOUS
<1> USE TwoFactorAssumption
<1>1. CASE UNCHANGED twoVars
  BY <1>1 DEF twoVars, Two!Inv, Two!TypeOK, Two!ReadOK, Two!Is, Two!AcceptedBefore, Two!SpentIsUsed
<1>2. ASSUME NEW r \in Requests,
             \/ \E op \in Two!Writes \ {"enable"} : Two!Ask(r, op)
             \/ \E setup \in 1..MaxSecrets : Two!Confirm(r, setup)
             \/ \E s \in 1..MaxStep : Two!Enable(r, s) \/ Two!TypeAppCode(r, s)
             \/ Two!TypeRecoveryCode(r, codes)
             \/ Two!Disable(r) \/ Two!Store(r) \/ Two!Destroy(r) \/ Two!Renew(r) \/ Two!Reset(r)
             \/ Two!AcceptAppCode(r) \/ Two!ConsumeRecoveryCode(r) \/ Two!GoAway(r)
      PROVE  Two!Inv'
  <2>1. /\ secrets \in 0..MaxSecrets /\ secret \in 0..secrets /\ last \in 0..MaxStep
        /\ passkeys \in 0..MaxPasskeys
        /\ gens \in 0..MaxGens /\ codes \in 0..gens /\ unused \in BOOLEAN
        /\ accepted \subseteq [secret : 1..MaxSecrets, step : 1..MaxStep]
        /\ \A c \in accepted : c.secret <= secrets /\ (c.secret = secret => c.step <= last)
        /\ spent \subseteq 1..gens /\ (codes \in spent => ~ unused)
    BY DEF Two!Inv, Two!TypeOK, Two!AcceptedBefore, Two!SpentIsUsed
  <2>2. ASSUME NEW s \in 1..MaxStep, Two!Enable(r, s) PROVE Two!Inv'
    <3>0. second[r].setup \in 1..secrets
      BY <2>2 DEF Two!Enable, Two!Inv, Two!ReadOK
    <3>1. /\ secrets' = secrets /\ secrets' \in secrets..MaxSecrets /\ secret' \in 1..secrets'
          /\ accepted' = {c \in accepted : c.secret # secret'}
          /\ last' \in 0..MaxStep /\ Two!Ends(r) /\ UNCHANGED << passkeys, spent >>
          /\ UNCHANGED Two!recovery \/ Two!NewCodes
      BY <2>1, <2>2, <3>0 DEF Two!Enable, Two!Saved
    <3>2. Two!AcceptedBefore'
      BY <2>1, <3>1 DEF Two!AcceptedBefore
    <3> QED BY <2>1, <3>1, <3>2, TwoFactorCodes, TwoFactorWrite
  <2>3. CASE Two!Disable(r)
    <3>1. /\ secret' \in {secret, 0} /\ last' \in {last, 0} /\ Two!Ends(r)
          /\ accepted' = {} \/ UNCHANGED << secret, last, accepted >>
          /\ UNCHANGED << passkeys, secrets, spent >>
          /\ UNCHANGED Two!recovery \/ Two!NoCodes
      BY <2>3 DEF Two!Disable, Two!Disabled, Two!row, Two!Saved, Two!settle_recovery_codes
    <3>2. Two!AcceptedBefore'
      BY <2>1, <3>1 DEF Two!AcceptedBefore
    <3>3. /\ secrets' \in secrets..MaxSecrets /\ secret' \in 0..secrets' /\ last' \in 0..MaxStep
          /\ accepted' \subseteq [secret : 1..MaxSecrets, step : 1..MaxStep]
      BY <2>1, <3>1
    <3> QED BY <2>1, <3>1, <3>2, <3>3, TwoFactorCodes, TwoFactorWrite
  <2>4. CASE Two!Store(r) \/ Two!Destroy(r) \/ Two!Renew(r)
    <3>1. /\ UNCHANGED << secret, last, secrets, accepted, spent >> /\ Two!Ends(r)
          /\ UNCHANGED Two!recovery \/ Two!NoCodes \/ Two!NewCodes
      BY <2>4 DEF Two!Store, Two!Destroy, Two!Renew, Two!row, Two!settle_recovery_codes
    <3>2. passkeys' \in 0..MaxPasskeys
      BY <2>1, <2>4 DEF Two!Store, Two!Destroy, Two!Renew
    <3>3. Two!AcceptedBefore' /\ secrets' \in secrets..MaxSecrets
      BY <2>1, <3>1 DEF Two!AcceptedBefore
    <3> QED BY <2>1, <3>1, <3>2, <3>3, TwoFactorCodes, TwoFactorWrite
  <2>5. CASE Two!Reset(r)
    <3>1. /\ secret' \in {secret, 0} /\ last' \in {last, 0} /\ passkeys' = 0
          /\ accepted' = {} \/ UNCHANGED << secret, last, accepted >>
          /\ Two!NoCodes /\ Two!Ends(r) /\ UNCHANGED << secrets, spent >>
      BY <2>5 DEF Two!Reset, Two!remove_protection, Two!Disabled, Two!row, Two!Saved
    <3>2. Two!AcceptedBefore'
      BY <2>1, <3>1 DEF Two!AcceptedBefore
    <3>3. /\ secrets' \in secrets..MaxSecrets /\ secret' \in 0..secrets' /\ last' \in 0..MaxStep
          /\ passkeys' \in 0..MaxPasskeys
          /\ accepted' \subseteq [secret : 1..MaxSecrets, step : 1..MaxStep]
      BY <2>1, <3>1
    <3> QED BY <2>1, <3>1, <3>2, <3>3, TwoFactorCodes, TwoFactorWrite
  <2>6. CASE Two!AcceptAppCode(r)
    <3>0. second[r].secret \in 1..secrets /\ second[r].code \in 1..MaxStep
      BY <2>6 DEF Two!AcceptAppCode, Two!Inv, Two!ReadOK, Two!Read
    <3>1. /\ UNCHANGED << secret, passkeys, secrets, codes, unused, gens, spent >> /\ Two!Ends(r)
      BY <2>6 DEF Two!AcceptAppCode, Two!recovery
    <3>2. /\ last' \in 0..MaxStep /\ last <= last'
          /\ accepted' \subseteq accepted \union {[secret |-> second[r].secret, step |-> last']}
      BY <2>1, <2>6, <3>0 DEF Two!AcceptAppCode
    <3>3. CASE UNCHANGED << last, accepted >>
      <4>1. Two!AcceptedBefore' /\ secrets' \in secrets..MaxSecrets
        BY <2>1, <3>1, <3>3 DEF Two!AcceptedBefore
      <4> QED BY <2>1, <3>1, <3>3, <4>1, TwoFactorWrite
    <3>4. CASE last' = second[r].code
      <4>1. Two!AcceptedBefore'
        BY <2>1, <3>0, <3>1, <3>2 DEF Two!AcceptedBefore
      <4>2. accepted' \subseteq [secret : 1..MaxSecrets, step : 1..MaxStep]
        BY <2>1, <3>0, <3>2, <3>4
      <4>3. secrets' \in secrets..MaxSecrets
        BY <2>1, <3>1
      <4> QED BY <2>1, <3>1, <3>2, <4>1, <4>2, <4>3, TwoFactorWrite
    <3> QED BY <2>6, <3>3, <3>4 DEF Two!AcceptAppCode
  <2>7. CASE Two!ConsumeRecoveryCode(r)
    <3>1. /\ UNCHANGED << secret, last, passkeys, secrets, codes, gens, accepted >> /\ Two!Ends(r)
      BY <2>7 DEF Two!ConsumeRecoveryCode, Two!row
    <3>2. unused' \in BOOLEAN /\ spent' \subseteq 1..gens /\ (codes \in spent' => ~ unused')
      <4>1. CASE codes = second[r].code /\ unused
        <5>1. second[r].code > 0
          BY <2>7 DEF Two!ConsumeRecoveryCode, Two!Inv, Two!ReadOK
        <5>2. unused' \in BOOLEAN /\ ~ unused'
          BY <2>7, <4>1, Zenon DEF Two!ConsumeRecoveryCode
        <5>3. spent' = spent \union {codes} /\ codes \in 1..gens
          BY <2>1, <2>7, <4>1, <5>1 DEF Two!ConsumeRecoveryCode
        <5> QED BY <2>1, <5>2, <5>3
      <4>2. CASE ~ (codes = second[r].code /\ unused)
        BY <2>1, <2>7, <4>2 DEF Two!ConsumeRecoveryCode
      <4> QED BY <4>1, <4>2
    <3>3. Two!AcceptedBefore' /\ secrets' \in secrets..MaxSecrets
      BY <2>1, <3>1 DEF Two!AcceptedBefore
    <3> QED BY <2>1, <3>1, <3>2, <3>3, TwoFactorWrite
  <2> QED BY <1>2, <2>2, <2>3, <2>4, <2>5, <2>6, <2>7, TwoFactorCome
<1> QED BY <1>1, <1>2 DEF Two!Next

\* What was read and accepted of a second step is no newer than what was made.
LEMMA TwoFactorInvariant == Spec => []Two!Inv
<1>1. Init => Two!Inv
  BY TwoFactorInit DEF Init
<1>2. Two!Inv /\ [Next]_allVars => Two!Inv'
  <2>1. [Next]_allVars => [Two!Next]_twoVars
    BY DEF Next, Moves, allVars, twoVars
  <2> QED BY <2>1, TwoFactorNext
<1> QED BY <1>1, <1>2, PTL DEF Spec

\* A recovery code signs in once (`consume`), and a code of an app once until an app
\* is turned off or its secret confirmed again (`accept_authenticator_code`), however
\* requests that use them and that set them up overlap.
THEOREM CodesAreSpent == Spec => CodesWorkOnce
<1>1. [Next]_allVars => [Two!Next]_twoVars
  BY DEF Next, Moves, allVars, twoVars
<1>2. Two!Inv /\ Two!Inv' /\ [Next]_allVars => [Two!WorksOnce]_(Two!vars)
  <2> SUFFICES ASSUME Two!Inv, Two!Inv', Two!Next PROVE Two!WorksOnce
    BY <1>1 DEF twoVars, Two!vars
  <2>1. codes' \in spent' => ~ unused'
    BY DEF Two!Inv, Two!SpentIsUsed
  <2>2. ASSUME NEW r \in Requests, Two!Is(r, "app_code"), second[r].secret = secret,
               second'[r] = Two!Idle, last' = second[r].code, last' # last
        PROVE  [secret |-> secret, step |-> second[r].code] \notin accepted
    <3>0. PICK k \in Requests :
             \/ \E op \in Two!Writes \ {"enable"} : Two!Ask(k, op)
             \/ \E setup \in 1..MaxSecrets : Two!Confirm(k, setup)
             \/ \E s \in 1..MaxStep : Two!Enable(k, s) \/ Two!TypeAppCode(k, s)
             \/ Two!TypeRecoveryCode(k, codes)
             \/ Two!Disable(k) \/ Two!Store(k) \/ Two!Destroy(k) \/ Two!Renew(k) \/ Two!Reset(k)
             \/ Two!AcceptAppCode(k) \/ Two!ConsumeRecoveryCode(k) \/ Two!GoAway(k)
      BY DEF Two!Next
    <3>1. k = r
      <4>1. \A q \in Requests \ {k} : second'[q] = second[q]
        BY <3>0 DEF Two!Ask, Two!Confirm, Two!Enable, Two!TypeAppCode, Two!TypeRecoveryCode, Two!Disable,
           Two!Store, Two!Destroy, Two!Renew, Two!Reset, Two!AcceptAppCode,
           Two!ConsumeRecoveryCode, Two!GoAway, Two!Ends, Two!Inv
      <4> QED BY <2>2, <4>1 DEF Two!Is, Two!Idle, Two!Asked
    <3>2. Two!AcceptAppCode(r)
      BY <2>2, <3>0, <3>1 DEF Two!Is, Two!Ask, Two!Confirm, Two!Enable, Two!TypeAppCode, Two!TypeRecoveryCode,
         Two!Disable, Two!Store, Two!Destroy, Two!Renew, Two!Reset, Two!ConsumeRecoveryCode,
         Two!GoAway, Two!row
    <3> QED BY <2>2, <3>2, TwoFactorAssumption DEF Two!AcceptAppCode, Two!Inv, Two!TypeOK,
                                                 Two!AcceptedBefore, Two!ReadOK, Two!Is
  <2> QED BY <2>1, <2>2 DEF Two!WorksOnce
<1> QED BY <1>2, TwoFactorInvariant, PTL DEF Spec, CodesWorkOnce, Two!CodesWorkOnce

-----------------------------------------------------------------------------
(* The limits of the sign-in form.                                         *)

\* The instance counts as the library does.
LEMMA LimiterCardinality == ASSUME NEW S PROVE Lim!Cardinality(S) = Cardinality(S)
  BY DEF Lim!Cardinality, Cardinality, Lim!IsFiniteSet, IsFiniteSet

\* No guess is given at first.
LEMMA LimiterInit == Lim!Init => Lim!Inv
<1> SUFFICES ASSUME Lim!Init PROVE Lim!Inv
  OBVIOUS
<1> USE LimiterAssumption DEF Lim!Init
<1>1. Lim!Charged = {}
  BY DEF Lim!Charged, Lim!Idle
<1>2. wrong + Lim!Cardinality(Lim!Charged) <= Lim!Given
  <2>1. Lim!Cardinality(Lim!Charged) = 0
    BY <1>1, LimiterCardinality, FS_EmptySet
  <2> QED BY <2>1 DEF Lim!Given
<1>3. Lim!TypeOK
  BY DEF Lim!TypeOK, Lim!Idle
<1>4. form \in [Requests -> Lim!Posts] /\ \A r \in Requests : Lim!At(r, "idle")
  BY DEF Lim!Posts, Lim!Idle, Lim!At
<1> QED BY <1>2, <1>3, <1>4 DEF Lim!Inv

\* A request that is charged for, or that is done, counts as one.
LEMMA LimiterCharge ==
  ASSUME Lim!Inv, NEW r \in Requests, NEW q, q \in Lim!Posts, form' = [form EXCEPT ![r] = q]
  PROVE  LET n == Lim!Cardinality(Lim!Charged)
             m == Lim!Cardinality(Lim!Charged')
         IN /\ n \in Nat /\ m \in Nat /\ m <= n + 1
            /\ r \in Lim!Charged => m <= n
            /\ q.at \in {"idle", "posted"} => m <= n /\ (r \in Lim!Charged => m = n - 1)
<1> DEFINE C == Lim!Charged
           D == Lim!Charged'
<1> USE LimiterAssumption
<1>1. form \in [Requests -> Lim!Posts] /\ C \subseteq Requests /\ D \subseteq Requests
  BY DEF Lim!Inv, Lim!Charged
<1>2. /\ IsFiniteSet(C) /\ IsFiniteSet(D)
      /\ Cardinality(C) \in Nat /\ Cardinality(D) \in Nat
  BY <1>1, FS_Subset, FS_CardinalityType
<1>3. D \subseteq C \union {r} /\ (r \in C => D \subseteq C)
  BY <1>1 DEF Lim!Charged
<1>4. Cardinality(D) <= Cardinality(C) + 1 /\ (r \in C => Cardinality(D) <= Cardinality(C))
  <2>1. IsFiniteSet(C \union {r}) /\ Cardinality(C \union {r}) <= Cardinality(C) + 1
    <3>1. /\ IsFiniteSet(C \union {r})
          /\ Cardinality(C \union {r})
               = IF r \in C THEN Cardinality(C) ELSE Cardinality(C) + 1
      BY <1>2, FS_AddElement, Zenon
    <3> QED BY <1>2, <3>1
  <2>2. D \in SUBSET (C \union {r}) /\ (r \in C => D \in SUBSET C)
    BY <1>3
  <2>3. Cardinality(D) <= Cardinality(C \union {r}) /\ (r \in C => Cardinality(D) <= Cardinality(C))
    BY <1>2, <2>1, <2>2, FS_Subset
  <2>4. Cardinality(C \union {r}) \in Nat
    BY <2>1, FS_CardinalityType
  <2> QED BY <1>2, <2>1, <2>3, <2>4
<1>5. ASSUME q.at \in {"idle", "posted"}
      PROVE  /\ Cardinality(D) <= Cardinality(C)
             /\ r \in C => Cardinality(D) = Cardinality(C) - 1
  <2>1. D = C \ {r}
    BY <1>1, <1>5 DEF Lim!Charged
  <2> QED BY <1>2, <2>1, FS_RemoveElement
<1> HIDE DEF C, D
<1>6. Lim!Cardinality(C) = Cardinality(C) /\ Lim!Cardinality(D) = Cardinality(D)
  BY LimiterCardinality
<1> QED BY <1>2, <1>4, <1>5, <1>6 DEF C, D

\* What the windows have given is at most the allowance of each.
LEMMA LimiterGiven ==
  ASSUME Lim!Inv
  PROVE  /\ windows \in Nat /\ windows * AddressLimit \in Nat
         /\ Lim!Given \in Int /\ Lim!Given <= windows * AddressLimit
<1> USE LimiterAssumption
<1>1. windows \in Nat /\ (address # None => address.points \in Nat)
  BY DEF Lim!Inv, Lim!TypeOK, Lim!Counter
<1>2. \A n, l \in Nat : n * l \in Nat /\ (n - 1) * l = n * l - l
  OBVIOUS
<1>3. windows * AddressLimit \in Nat
      /\ (windows - 1) * AddressLimit = windows * AddressLimit - AddressLimit
  BY <1>1, <1>2
<1> QED BY <1>1, <1>3 DEF Lim!Given, Lim!Less

\* What the windows give from the counter of the address.
LEMMA LimiterGivenBy ==
  ASSUME NEW w \in Nat, address' \in Lim!Counter, windows' = w
  PROVE  /\ Lim!Given' \in Int
         /\ \/ Lim!Given' = w * AddressLimit
            \/ Lim!Given' = w * AddressLimit - AddressLimit + Lim!Less(address'.points, AddressLimit)
<1> USE LimiterAssumption
<1>1. \A n, l \in Nat : n * l \in Nat /\ (n - 1) * l = n * l - l
  OBVIOUS
<1>2. w * AddressLimit \in Nat /\ (w - 1) * AddressLimit = w * AddressLimit - AddressLimit
  BY <1>1
<1> QED BY <1>2 DEF Lim!Given, Lim!Less, Lim!Counter

\* `add` of one more: what is given grows by one, unless the window is used up.
LEMMA LimiterAddOne ==
  ASSUME Lim!Inv, NEW now \in Nat,
         address' = Lim!add(address, 1, now), windows' = Lim!Started(address, now)
  PROVE  /\ address' \in Lim!Counter /\ windows' \in Nat /\ windows' > 0
         /\ Lim!Given' \in Int /\ Lim!Given' >= Lim!Given
         /\ address'.points <= AddressLimit => Lim!Given' >= Lim!Given + 1
<1> USE LimiterAssumption
<1>0. /\ windows \in Nat /\ address \in Lim!Counter \union {None} /\ (address # None => windows > 0)
      /\ windows * AddressLimit \in Nat /\ Lim!Given \in Int
      /\ Lim!Given <= windows * AddressLimit
  BY LimiterGiven DEF Lim!Inv, Lim!TypeOK
<1>1. CASE Lim!Running(address, now)
  <2>1. /\ address # None /\ address \in Lim!Counter /\ windows' = windows
        /\ address' \in Lim!Counter /\ address'.points = address.points + 1
    BY <1>0, <1>1 DEF Lim!Running, Lim!add, Lim!Started, Lim!Counter
  <2>2. Lim!Given = windows * AddressLimit - AddressLimit + Lim!Less(address.points, AddressLimit)
    <3>1. \A n, l \in Nat : (n - 1) * l = n * l - l
      OBVIOUS
    <3>2. (windows - 1) * AddressLimit = windows * AddressLimit - AddressLimit
      BY <1>0, <3>1
    <3> QED BY <2>1, <3>2 DEF Lim!Given
  <2>3. /\ Lim!Given' \in Int
        /\ \/ Lim!Given' = windows * AddressLimit
           \/ Lim!Given' = windows * AddressLimit - AddressLimit
                             + Lim!Less(address'.points, AddressLimit)
    BY <1>0, <2>1, LimiterGivenBy
  <2> QED BY <1>0, <2>1, <2>2, <2>3 DEF Lim!Less, Lim!Counter
<1>2. CASE ~ Lim!Running(address, now)
  <2>1. /\ windows' = windows + 1 /\ windows' \in Nat
        /\ address' \in Lim!Counter /\ address'.points = 1
    BY <1>0, <1>2 DEF Lim!add, Lim!Started, Lim!Counter
  <2>2. (windows + 1) * AddressLimit = windows * AddressLimit + AddressLimit
    <3>1. \A n, l \in Nat : (n + 1) * l = n * l + l
      OBVIOUS
    <3> QED BY <1>0, <3>1
  <2>3. /\ Lim!Given' \in Int
        /\ \/ Lim!Given' = (windows + 1) * AddressLimit
           \/ Lim!Given' = (windows + 1) * AddressLimit - AddressLimit
                             + Lim!Less(address'.points, AddressLimit)
    BY <1>0, <2>1, LimiterGivenBy
  <2> QED BY <1>0, <2>1, <2>2, <2>3 DEF Lim!Less
<1> QED BY <1>1, <1>2

\* `add` of one less takes back one at most.
LEMMA LimiterTakeOne ==
  ASSUME Lim!Inv, NEW now \in Nat,
         address' = Lim!add(address, -1, now), windows' = Lim!Started(address, now)
  PROVE  /\ address' \in Lim!Counter /\ windows' \in Nat /\ windows' > 0
         /\ Lim!Given' \in Int /\ Lim!Given' >= Lim!Given - 1
<1> USE LimiterAssumption
<1>0. /\ windows \in Nat /\ address \in Lim!Counter \union {None} /\ (address # None => windows > 0)
      /\ windows * AddressLimit \in Nat /\ Lim!Given \in Int
      /\ Lim!Given <= windows * AddressLimit
  BY LimiterGiven DEF Lim!Inv, Lim!TypeOK
<1>1. CASE Lim!Running(address, now)
  <2>1. /\ address # None /\ address \in Lim!Counter /\ windows' = windows
        /\ address' \in Lim!Counter /\ address'.points >= address.points - 1
    BY <1>0, <1>1 DEF Lim!Running, Lim!add, Lim!Started, Lim!Counter
  <2>2. Lim!Given = windows * AddressLimit - AddressLimit + Lim!Less(address.points, AddressLimit)
    <3>1. \A n, l \in Nat : (n - 1) * l = n * l - l
      OBVIOUS
    <3>2. (windows - 1) * AddressLimit = windows * AddressLimit - AddressLimit
      BY <1>0, <3>1
    <3> QED BY <2>1, <3>2 DEF Lim!Given
  <2>3. /\ Lim!Given' \in Int
        /\ \/ Lim!Given' = windows * AddressLimit
           \/ Lim!Given' = windows * AddressLimit - AddressLimit
                             + Lim!Less(address'.points, AddressLimit)
    BY <1>0, <2>1, LimiterGivenBy
  <2> QED BY <1>0, <2>1, <2>2, <2>3 DEF Lim!Less, Lim!Counter
<1>2. CASE ~ Lim!Running(address, now)
  <2>1. /\ windows' = windows + 1 /\ windows' \in Nat
        /\ address' \in Lim!Counter /\ address'.points = 0
    BY <1>0, <1>2 DEF Lim!add, Lim!Started, Lim!Counter
  <2>2. (windows + 1) * AddressLimit = windows * AddressLimit + AddressLimit
    <3>1. \A n, l \in Nat : (n + 1) * l = n * l + l
      OBVIOUS
    <3> QED BY <1>0, <3>1
  <2>3. /\ Lim!Given' \in Int
        /\ \/ Lim!Given' = (windows + 1) * AddressLimit
           \/ Lim!Given' = (windows + 1) * AddressLimit - AddressLimit
                             + Lim!Less(address'.points, AddressLimit)
    BY <1>0, <2>1, LimiterGivenBy
  <2> QED BY <1>0, <2>1, <2>2, <2>3 DEF Lim!Less
<1> QED BY <1>1, <1>2

\* Of an account no more is guessed in its window than its counter has.
LimiterAccounts(acc, g) ==
  /\ acc \in [Accounts -> Lim!Counter \union {None}] /\ g \in [Accounts -> Nat]
  /\ \A a \in Accounts :
       g[a] <= AccountLimit /\ (acc[a] # None => g[a] <= acc[a].points)

\* A step of one request: what it holds, the counters, and the sum of what was
\* wrong and may yet be wrong.
LEMMA LimiterStep ==
  ASSUME Lim!Inv, NEW r \in Requests, NEW q, q \in Lim!Posts, form' = [form EXCEPT ![r] = q],
         q.now <= clock, q.at # "idle" => q.acc \in Accounts, UNCHANGED clock,
         address' \in Lim!Counter \union {None}, windows' \in 0..MaxWindows,
         address' # None => windows' > 0, wrong' \in Nat,
         LimiterAccounts(counter', guessed'),
         wrong' + Lim!Cardinality(Lim!Charged') <= Lim!Given'
  PROVE  Lim!Inv'
<1>1. form \in [Requests -> Lim!Posts] /\ form' \in [Requests -> Lim!Posts]
  BY DEF Lim!Inv
<1>2. \A k \in Requests : form'[k].now <= clock'
  BY <1>1 DEF Lim!Inv, Lim!TypeOK
<1>3. \A k \in Requests : form'[k].at # "idle" => form'[k].acc \in Accounts
  BY <1>1 DEF Lim!Inv, Lim!At
<1>4. Lim!TypeOK'
  BY <1>2 DEF Lim!Inv, Lim!TypeOK, LimiterAccounts
<1>5. wrong' + Lim!Cardinality(Lim!Charged)' <= Lim!Given'
  OBVIOUS
<1> QED BY <1>1, <1>3, <1>4, <1>5 DEF Lim!Inv, Lim!At, LimiterAccounts

\* A request that leaves the counter of the address alone: it is charged for
\* no more than before, less by one for each wrong password.
LEMMA LimiterKeep ==
  ASSUME Lim!Inv, NEW r \in Requests, NEW q, q \in Lim!Posts, form' = [form EXCEPT ![r] = q],
         q.now <= clock, q.at # "idle" => q.acc \in Accounts,
         UNCHANGED << clock, address, windows >>,
         LimiterAccounts(counter', guessed'),
         \/ UNCHANGED wrong /\ (r \in Lim!Charged \/ q.at = "posted" \/ q.at = "idle")
         \/ wrong' = wrong + 1 /\ r \in Lim!Charged /\ q.at = "idle"
  PROVE  Lim!Inv'
<1> DEFINE n == Lim!Cardinality(Lim!Charged)
           m == Lim!Cardinality(Lim!Charged')
<1>1. /\ n \in Nat /\ m \in Nat
      /\ r \in Lim!Charged => m <= n
      /\ q.at \in {"idle", "posted"} => m <= n /\ (r \in Lim!Charged => m = n - 1)
  BY LimiterCharge
<1>2. wrong \in Nat /\ wrong + n <= Lim!Given /\ Lim!Given \in Int
  BY LimiterGiven DEF Lim!Inv, Lim!TypeOK
<1>3. Lim!Given' = Lim!Given
  BY DEF Lim!Given
<1> HIDE DEF n, m
<1>4. wrong' \in Nat /\ wrong' + m <= Lim!Given'
  BY <1>1, <1>2, <1>3
<1> QED BY <1>4, LimiterStep DEF m, Lim!Inv, Lim!TypeOK

\* The requests of the form.
LEMMA LimiterRequests ==
  ASSUME Lim!Inv, NEW r \in Requests,
         \/ \E a \in Accounts : Lim!Post(r, a)
         \/ Lim!CountAddress(r) \/ Lim!CountAccount(r) \/ Lim!Check(r) \/ Lim!Forget(r)
         \/ Lim!Get(r) \/ Lim!Subtract(r) \/ Lim!GoAway(r)
  PROVE  Lim!Inv'
<1> USE LimiterAssumption
<1>0. /\ form \in [Requests -> Lim!Posts] /\ clock \in Nat /\ form[r].now \in Nat
      /\ form[r] \in Lim!Posts /\ form[r].now <= clock
      /\ form[r].at # "idle" => form[r].acc \in Accounts
      /\ LimiterAccounts(counter, guessed)
  BY DEF Lim!Inv, Lim!TypeOK, Lim!Posts, Lim!At, LimiterAccounts
<1>1. PICK idle : idle = Lim!Idle
  OBVIOUS
<1>2. idle \in Lim!Posts /\ idle.at = "idle" /\ idle.now <= clock
  BY <1>0, <1>1 DEF Lim!Idle, Lim!Posts
<1>3. ASSUME NEW a \in Accounts, Lim!Post(r, a) PROVE Lim!Inv'
  <2>0. PICK q : q = [at |-> "posted", acc |-> a, now |-> clock]
    OBVIOUS
  <2>1. q \in Lim!Posts /\ q.now <= clock /\ q.acc \in Accounts /\ q.at = "posted"
    BY <1>0, <2>0 DEF Lim!Posts
  <2> QED BY <1>0, <1>3, <2>0, <2>1, LimiterKeep DEF Lim!Post
<1>4. CASE Lim!GoAway(r)
  BY <1>0, <1>1, <1>2, <1>4, LimiterKeep DEF Lim!GoAway
<1>5. CASE Lim!Check(r)
  <2>1. r \in Lim!Charged
    BY <1>5 DEF Lim!Check, Lim!At, Lim!Charged
  <2>2. CASE wrong' = wrong + 1 /\ form' = [form EXCEPT ![r] = Lim!Idle]
    BY <1>0, <1>1, <1>2, <1>5, <2>1, <2>2, LimiterKeep DEF Lim!Check
  <2>3. CASE form' = [form EXCEPT ![r].at = "signed_in"] /\ UNCHANGED wrong
    <3>0. PICK q : q = [form[r] EXCEPT !.at = "signed_in"]
      OBVIOUS
    <3>1. q \in Lim!Posts /\ q.now <= clock /\ q.acc \in Accounts
      BY <1>0, <1>5, <3>0 DEF Lim!Posts, Lim!Check, Lim!At
    <3>2. form' = [form EXCEPT ![r] = q]
      BY <2>3, <3>0
    <3> QED BY <1>0, <1>5, <2>1, <2>3, <3>1, <3>2, LimiterKeep DEF Lim!Check
  <2> QED BY <1>5, <2>2, <2>3 DEF Lim!Check
<1>6. CASE Lim!Get(r)
  <2>1. r \in Lim!Charged
    BY <1>6 DEF Lim!Get, Lim!At, Lim!Charged
  <2>2. PICK q : q = [form[r] EXCEPT !.at = "subtracting", !.now = clock]
    OBVIOUS
  <2>3. q \in Lim!Posts /\ q.now <= clock /\ q.acc \in Accounts
    <3>1. q \in Lim!Posts
      BY <1>0, <2>2 DEF Lim!Posts
    <3>2. q.now = clock /\ q.acc = form[r].acc
      BY <1>0, <2>2 DEF Lim!Posts
    <3> QED BY <1>0, <1>6, <3>1, <3>2 DEF Lim!Get, Lim!At
  <2>4. form' = [form EXCEPT ![r] = q] \/ form' = [form EXCEPT ![r] = idle]
    BY <1>1, <1>6, <2>2 DEF Lim!Get
  <2> QED BY <1>0, <1>2, <1>6, <2>1, <2>3, <2>4, LimiterKeep DEF Lim!Get
<1>7. CASE Lim!Forget(r)
  <2>1. r \in Lim!Charged /\ form[r].acc \in Accounts
    BY <1>0, <1>7 DEF Lim!Forget, Lim!At, Lim!Charged
  <2>2. PICK q : q = [form[r] EXCEPT !.at = "giving_back"]
    OBVIOUS
  <2>3. q \in Lim!Posts /\ q.now <= clock /\ q.acc \in Accounts
    BY <1>0, <2>1, <2>2 DEF Lim!Posts
  <2>4. form' = [form EXCEPT ![r] = q]
    BY <1>7, <2>2 DEF Lim!Forget
  <2>5. LimiterAccounts(counter', guessed')
    BY <1>0, <1>7, <2>1 DEF Lim!Forget, LimiterAccounts
  <2> QED BY <1>7, <2>1, <2>3, <2>4, <2>5, LimiterKeep DEF Lim!Forget
<1>8. CASE Lim!CountAccount(r)
  <2> DEFINE a == form[r].acc
             row0 == Lim!add(counter[a], 1, form[r].now)
  <2>1. r \in Lim!Charged /\ a \in Accounts
    BY <1>0, <1>8 DEF Lim!CountAccount, Lim!At, Lim!Charged
  <2>2. PICK q : q = [form[r] EXCEPT !.at = "counted"]
    OBVIOUS
  <2>3. q \in Lim!Posts /\ q.now <= clock /\ q.acc \in Accounts
    BY <1>0, <2>1, <2>2 DEF Lim!Posts
  <2>4. form' = [form EXCEPT ![r] = q] \/ form' = [form EXCEPT ![r] = idle]
    BY <1>1, <1>8, <2>2 DEF Lim!CountAccount
  <2>5. LimiterAccounts(counter', guessed')
    <3>1. /\ counter[a] \in Lim!Counter \union {None} /\ guessed[a] \in Nat
          /\ guessed[a] <= AccountLimit /\ (counter[a] # None => guessed[a] <= counter[a].points)
      BY <1>0, <2>1 DEF LimiterAccounts
    <3> DEFINE g == (IF Lim!Running(counter[a], form[r].now) THEN guessed[a] ELSE 0)
                     + (IF row0.points > AccountLimit THEN 0 ELSE 1)
    <3>2. g \in Nat /\ guessed' = [guessed EXCEPT ![a] = g]
      BY <1>8, <3>1 DEF Lim!CountAccount
    <3>3. row0 \in Lim!Counter /\ g <= row0.points /\ g <= AccountLimit
      BY <1>0, <3>1 DEF Lim!add, Lim!Running, Lim!Counter
    <3>4. counter' = [counter EXCEPT ![a] = row0]
      BY <1>8 DEF Lim!CountAccount
    <3> HIDE DEF row0, g
    <3> QED BY <1>0, <2>1, <3>2, <3>3, <3>4 DEF LimiterAccounts
  <2> QED BY <1>2, <1>8, <2>1, <2>3, <2>4, <2>5, LimiterKeep DEF Lim!CountAccount
<1>9. CASE Lim!CountAddress(r) \/ Lim!Subtract(r)
  <2> DEFINE n == Lim!Cardinality(Lim!Charged)
             m == Lim!Cardinality(Lim!Charged')
  <2>0. /\ wrong \in Nat /\ wrong + n <= Lim!Given /\ Lim!Given \in Int /\ windows \in 0..MaxWindows
        /\ UNCHANGED << clock, counter, wrong, guessed >>
        /\ windows' = Lim!Started(address, form[r].now) /\ Lim!Room(address, form[r].now)
    BY <1>9, LimiterGiven DEF Lim!Inv, Lim!TypeOK, Lim!CountAddress, Lim!Subtract
  <2>1. windows' \in 0..MaxWindows
    BY <2>0 DEF Lim!Started, Lim!Room
  <2>2. CASE Lim!Subtract(r)
    <3>1. /\ address' \in Lim!Counter /\ windows' > 0
          /\ Lim!Given' \in Int /\ Lim!Given' >= Lim!Given - 1
      BY <1>0, <2>0, <2>2, LimiterTakeOne DEF Lim!Subtract
    <3>2. r \in Lim!Charged /\ form' = [form EXCEPT ![r] = idle]
      BY <1>1, <2>2 DEF Lim!Subtract, Lim!At, Lim!Charged
    <3>3. n \in Nat /\ m = n - 1
      BY <1>2, <3>2, LimiterCharge
    <3> HIDE DEF n, m
    <3>4. wrong' + m <= Lim!Given'
      BY <2>0, <3>1, <3>3
    <3> QED BY <1>0, <1>2, <2>0, <2>1, <3>1, <3>2, <3>4, LimiterStep DEF m
  <2>3. CASE Lim!CountAddress(r)
    <3>1. /\ address' \in Lim!Counter /\ windows' > 0
          /\ Lim!Given' \in Int /\ Lim!Given' >= Lim!Given
          /\ address'.points <= AddressLimit => Lim!Given' >= Lim!Given + 1
      BY <1>0, <2>0, <2>3, LimiterAddOne DEF Lim!CountAddress
    <3>2. PICK q : q = [form[r] EXCEPT !.at = "allowed", !.now = clock]
      OBVIOUS
    <3>3. q \in Lim!Posts /\ q.now <= clock /\ q.acc \in Accounts
      <4>1. q \in Lim!Posts
        BY <1>0, <3>2 DEF Lim!Posts
      <4>2. q.now = clock /\ q.acc = form[r].acc
        BY <1>0, <3>2 DEF Lim!Posts
      <4> QED BY <1>0, <2>3, <4>1, <4>2 DEF Lim!CountAddress, Lim!At
    <3>4. CASE address'.points > AddressLimit
      <4>1. form' = [form EXCEPT ![r] = idle]
        BY <1>1, <2>3, <3>4 DEF Lim!CountAddress
      <4>2. n \in Nat /\ m \in Nat /\ m <= n
        BY <1>2, <4>1, LimiterCharge
      <4> HIDE DEF n, m
      <4>3. wrong' + m <= Lim!Given'
        BY <2>0, <3>1, <4>2
      <4> QED BY <1>0, <1>2, <2>0, <2>1, <3>1, <4>1, <4>3, LimiterStep DEF m
    <3>5. CASE ~ (address'.points > AddressLimit)
      <4>1. form' = [form EXCEPT ![r] = q]
        BY <2>3, <3>2, <3>5 DEF Lim!CountAddress
      <4>2. n \in Nat /\ m \in Nat /\ m <= n + 1
        BY <3>3, <4>1, LimiterCharge
      <4>3. address'.points <= AddressLimit
        BY <3>1, <3>5 DEF Lim!Counter
      <4> HIDE DEF n, m
      <4>4. wrong' + m <= Lim!Given'
        BY <2>0, <3>1, <4>2, <4>3
      <4> QED BY <1>0, <2>0, <2>1, <3>1, <3>3, <4>1, <4>4, LimiterStep DEF m
    <3> QED BY <3>4, <3>5
  <2> QED BY <1>9, <2>2, <2>3
<1> QED BY <1>3, <1>4, <1>5, <1>6, <1>7, <1>8, <1>9

\* A sweep deletes counters, which takes back nothing; the clock ticks.
LEMMA LimiterTime ==
  ASSUME Lim!Inv, Lim!Tick \/ \E now \in 0..LoginClock : Lim!Sweep(now)
  PROVE  Lim!Inv'
<1> USE LimiterAssumption
<1>0. /\ UNCHANGED << form, windows, wrong, guessed >>
      /\ address' \in {address, None} /\ counter' \in [Accounts -> Lim!Counter \union {None}]
      /\ \A a \in Accounts : counter'[a] \in {counter[a], None}
      /\ clock \in Nat /\ clock' \in 0..LoginClock /\ clock <= clock'
  BY DEF Lim!Inv, Lim!TypeOK, Lim!Tick, Lim!Sweep, Lim!swept
<1>1. Lim!Charged' = Lim!Charged
  BY <1>0 DEF Lim!Charged
<1>2. Lim!Given' \in Int /\ Lim!Given' >= Lim!Given
  BY <1>0, LimiterGiven DEF Lim!Given
<1>3. wrong' + Lim!Cardinality(Lim!Charged)' <= Lim!Given'
  <2>1. Lim!Cardinality(Lim!Charged) \in Nat
    <3>1. IsFiniteSet(Lim!Charged)
      BY FS_Subset DEF Lim!Charged
    <3> QED BY <3>1, LimiterCardinality, FS_CardinalityType
  <2>2. wrong \in Nat /\ wrong + Lim!Cardinality(Lim!Charged) <= Lim!Given /\ Lim!Given \in Int
    BY LimiterGiven DEF Lim!Inv, Lim!TypeOK
  <2> QED BY <1>0, <1>1, <1>2, <2>1, <2>2
<1>4. Lim!TypeOK'
  <2>1. \A r \in Requests : form[r].now <= clock'
    <3> SUFFICES ASSUME NEW r \in Requests PROVE form[r].now <= clock'
      OBVIOUS
    <3>1. form[r].now \in Nat /\ form[r].now <= clock
      BY DEF Lim!Inv, Lim!TypeOK, Lim!Posts
    <3> QED BY <1>0, <3>1
  <2> QED BY <1>0, <2>1 DEF Lim!Inv, Lim!TypeOK
<1> QED BY <1>0, <1>3, <1>4 DEF Lim!Inv, Lim!At

\* The form, the counters, the sweep and the clock keep the guesses covered.
LEMMA LimiterNext == Lim!Inv /\ [Lim!Next]_limVars => Lim!Inv'
<1> SUFFICES ASSUME Lim!Inv, [Lim!Next]_limVars PROVE Lim!Inv'
  OBVIOUS
<1>1. CASE UNCHANGED limVars
  <2>1. Lim!Charged' = Lim!Charged /\ Lim!Given' = Lim!Given
    BY <1>1 DEF limVars, Lim!Charged, Lim!Given
  <2> QED BY <1>1, <2>1 DEF limVars, Lim!Inv, Lim!TypeOK, Lim!At
<1>2. CASE Lim!Next
  BY <1>2, LimiterRequests, LimiterTime DEF Lim!Next
<1> QED BY <1>1, <1>2

\* The counters of the sign-in form cover the guesses they gave.
LEMMA LimiterInvariant == Spec => []Lim!Inv
<1>1. Init => Lim!Inv
  BY LimiterInit DEF Init
<1>2. Lim!Inv /\ [Next]_allVars => Lim!Inv'
  <2>1. [Next]_allVars => [Lim!Next]_limVars
    BY DEF Next, Moves, allVars, limVars
  <2> QED BY <2>1, LimiterNext
<1> QED BY <1>1, <1>2, PTL DEF Spec

\* An address has no more wrong passwords checked than its allowance for the
\* windows it had, and an account none above its own in one window (`login`,
\* `consume`, `decrement`), for any allowances and any number of requests.
THEOREM GuessesAreLimited == Spec => []LoginBudget
<1>1. Lim!Inv => LoginBudget
  <2> SUFFICES ASSUME Lim!Inv PROVE Lim!AddressBudget /\ Lim!AccountBudget
    BY DEF LoginBudget, Lim!LoginBudget
  <2>1. Lim!Cardinality(Lim!Charged) \in Nat
    <3>1. IsFiniteSet(Lim!Charged)
      BY LimiterAssumption, FS_Subset DEF Lim!Charged
    <3> QED BY <3>1, LimiterCardinality, FS_CardinalityType
  <2>2. /\ wrong \in Nat /\ wrong + Lim!Cardinality(Lim!Charged) <= Lim!Given
        /\ Lim!Given \in Int /\ Lim!Given <= windows * AddressLimit
        /\ windows * AddressLimit \in Nat
    BY LimiterGiven DEF Lim!Inv, Lim!TypeOK
  <2>3. Lim!AddressBudget
    BY <2>1, <2>2 DEF Lim!AddressBudget
  <2> QED BY <2>3 DEF Lim!Inv, Lim!AccountBudget
<1> QED BY <1>1, LimiterInvariant, PTL
=============================================================================
