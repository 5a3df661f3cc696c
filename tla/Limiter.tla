------------------------------ MODULE Limiter ------------------------------
(***************************************************************************)
(* Fixed windows of requests (`core/src/limiter.rs`), and the sign-in form *)
(* that counts guesses of passwords with them (`POST /login`).  A counter  *)
(* is one row, changed by one statement; the time that statement compares  *)
(* with was read before it, and operations of two statements can be        *)
(* overtaken in between.                                                   *)
(***************************************************************************)
EXTENDS Integers, FiniteSets

CONSTANTS Accounts,      \* accounts a client signs in to
          Requests,      \* `POST /login` under way at once
          AddressLimit,  \* the allowance of the client's address
          AccountLimit,  \* the allowance of one account from that address
          Duration,      \* of a window, in ticks
          MaxClock,      \* bound of the clock
          MaxWindows,    \* bound of the windows of the address
          Over,          \* bound of what a counter holds above its allowance
          None

VARIABLES clock,
          address,  \* the counter of the address: [points, expire], or None
          account,  \* account[a]: the counter of an account, or None
          req,      \* req[r]: what each request is doing
          windows,  \* windows of the address started so far
          wrong,    \* wrong passwords that were checked so far
          guessed   \* guessed[a]: passwords checked for a in its window

vars == << clock, address, account, req, windows, wrong, guessed >>

Idle == [at |-> "idle", acc |-> None, now |-> 0]
At(r, step) == req[r].at = step

\* The window of a counter runs at `now`.
Running(row, now) == row # None /\ row.expire > now

\* A mutant of add: a counter goes below zero.
addUnclamped(row, points, now) ==
  IF Running(row, now)
    THEN [row EXCEPT !.points = @ + points]
    ELSE [points |-> points, expire |-> now + Duration]

\* `add`: one more or one less in the window that runs, or in a new one.
add(row, points, now) ==
  IF Running(row, now)
    THEN [row EXCEPT !.points = IF @ + points < 0 THEN 0 ELSE @ + points]
    ELSE [points |-> IF points < 0 THEN 0 ELSE points, expire |-> now + Duration]

\* `sweep_database` deletes the counters whose window ended.
swept(row, now) == IF Running(row, now) THEN row ELSE None

-----------------------------------------------------------------------------

Init ==
  /\ clock = 0
  /\ address = None
  /\ account = [a \in Accounts |-> None]
  /\ req = [r \in Requests |-> Idle]
  /\ windows = 0
  /\ wrong = 0
  /\ guessed = [a \in Accounts |-> 0]

\* A form is posted: `consume` of the address reads the time.
Post(r, a) ==
  /\ At(r, "idle")
  /\ req' = [req EXCEPT ![r] = [at |-> "posted", acc |-> a, now |-> clock]]
  /\ UNCHANGED << clock, address, account, windows, wrong, guessed >>

Started(row, now) == IF Running(row, now) THEN windows ELSE windows + 1
Room(row, now) == Running(row, now) \/ windows < MaxWindows

\* The statement of `consume` for the address; refused above the allowance.
CountAddress(r) ==
  /\ At(r, "posted") /\ Room(address, req[r].now)
  /\ LET row == add(address, 1, req[r].now) IN
       /\ row.points <= AddressLimit + Over
       /\ address' = row
       /\ req' = [req EXCEPT ![r] = IF row.points > AddressLimit THEN Idle
                                    ELSE [@ EXCEPT !.at = "allowed", !.now = clock]]
  /\ windows' = Started(address, req[r].now)
  /\ UNCHANGED << clock, account, wrong, guessed >>

\* A mutant of CountAccount: the guess is judged by the counter before it.
CountAccountBefore(r) ==
  /\ At(r, "allowed")
  /\ LET a == req[r].acc
         full == Running(account[a], req[r].now) /\ account[a].points > AccountLimit
     IN /\ account[a] # None => account[a].points < AccountLimit + Over
        /\ account' = [account EXCEPT ![a] = add(@, 1, req[r].now)]
        /\ req' = [req EXCEPT ![r] = IF full THEN Idle ELSE [@ EXCEPT !.at = "counted"]]
        /\ guessed' = [guessed EXCEPT ![a] =
             (IF Running(account[a], req[r].now) THEN @ ELSE 0) + (IF full THEN 0 ELSE 1)]
  /\ UNCHANGED << clock, address, windows, wrong >>

\* The same for the account.
CountAccount(r) ==
  /\ At(r, "allowed")
  /\ LET a == req[r].acc
         row == add(account[a], 1, req[r].now)
     IN /\ row.points <= AccountLimit + Over
        /\ account' = [account EXCEPT ![a] = row]
        /\ req' = [req EXCEPT ![r] = IF row.points > AccountLimit THEN Idle
                                     ELSE [@ EXCEPT !.at = "counted"]]
        /\ guessed' = [guessed EXCEPT ![a] =
             (IF Running(account[a], req[r].now) THEN @ ELSE 0)
             + (IF row.points > AccountLimit THEN 0 ELSE 1)]
  /\ UNCHANGED << clock, address, windows, wrong >>

\* `verify_credentials`: the password is wrong, and the request is answered,
\* or right.
Check(r) ==
  /\ At(r, "counted")
  /\ \/ /\ wrong' = wrong + 1
        /\ req' = [req EXCEPT ![r] = Idle]
     \/ /\ req' = [req EXCEPT ![r].at = "signed_in"]
        /\ UNCHANGED wrong
  /\ UNCHANGED << clock, address, account, windows, guessed >>

\* A sign-in forgets the counter of its account.
Forget(r) ==
  /\ At(r, "signed_in")
  /\ account' = [account EXCEPT ![req[r].acc] = None]
  /\ req' = [req EXCEPT ![r].at = "giving_back"]
  /\ guessed' = [guessed EXCEPT ![req[r].acc] = 0]
  /\ UNCHANGED << clock, address, windows, wrong >>

\* `decrement` of the address, first `get`: nothing to do without a window.
Get(r) ==
  /\ At(r, "giving_back")
  /\ req' = [req EXCEPT ![r] = IF Running(address, clock)
                                 THEN [@ EXCEPT !.at = "subtracting", !.now = clock]
                                 ELSE Idle]
  /\ UNCHANGED << clock, address, account, windows, wrong, guessed >>

\* Then `add` of -1, into whatever window runs by then.
Subtract(r) ==
  /\ At(r, "subtracting") /\ Room(address, req[r].now)
  /\ address' = add(address, -1, req[r].now)
  /\ windows' = Started(address, req[r].now)
  /\ req' = [req EXCEPT ![r] = Idle]
  /\ UNCHANGED << clock, account, wrong, guessed >>

\* The request is dropped where it waits, or a statement fails.
GoAway(r) ==
  /\ ~ At(r, "idle")
  /\ req' = [req EXCEPT ![r] = Idle]
  /\ UNCHANGED << clock, address, account, windows, wrong, guessed >>

\* Some `add` sweeps the table, by a time that may already be past.
Sweep(now) ==
  /\ now <= clock
  /\ address' = swept(address, now)
  /\ account' = [a \in Accounts |-> swept(account[a], now)]
  /\ UNCHANGED << clock, req, windows, wrong, guessed >>

Tick ==
  /\ clock < MaxClock
  /\ clock' = clock + 1
  /\ UNCHANGED << address, account, req, windows, wrong, guessed >>

Next ==
  \/ \E r \in Requests, a \in Accounts : Post(r, a)
  \/ \E r \in Requests :
       \/ CountAddress(r) \/ CountAccount(r) \/ Check(r) \/ Forget(r)
       \/ Get(r) \/ Subtract(r) \/ GoAway(r)
  \/ \E now \in 0..MaxClock : Sweep(now)
  \/ Tick

Spec == Init /\ [][Next]_vars

-----------------------------------------------------------------------------

Counter == [points : Nat, expire : Nat]

TypeOK ==
  /\ clock \in 0..MaxClock /\ windows \in 0..MaxWindows /\ wrong \in Nat
  /\ address \in Counter \cup {None}
  /\ account \in [Accounts -> Counter \cup {None}]
  /\ guessed \in [Accounts -> Nat]
  /\ \A r \in Requests : req[r].now <= clock

\* Signing in to one account never buys guesses against another: over all its
\* windows an address has no more wrong passwords checked than its allowance
\* for that many windows, however requests and the ends of windows fall.
AddressBudget == wrong <= windows * AddressLimit

\* A burst of parallel guesses at one account does not slip past its
\* allowance: within one window of it no more passwords are checked.
AccountBudget == \A a \in Accounts : guessed[a] <= AccountLimit

\* Neither an address nor an account gets more guesses than its limiter gives
\* (`login`, "signing in to one account never buys more guesses against
\* another").
LoginBudget == AddressBudget /\ AccountBudget

-----------------------------------------------------------------------------
(* The inductive invariant behind LoginBudget.                             *)

\* The requests the address was charged for, whose password may be wrong yet
\* or who did not give back what they were charged.
Charged == {r \in Requests : req[r].at \notin {"idle", "posted"}}

Less(a, b) == IF a < b THEN a ELSE b

\* What the windows of the address have given out.
Given ==
  IF address = None THEN windows * AddressLimit
  ELSE (windows - 1) * AddressLimit + Less(address.points, AddressLimit)

Posts == [at : {"idle", "posted", "allowed", "counted", "signed_in", "giving_back",
                "subtracting"},
          acc : Accounts \cup {None}, now : Nat]

Inv ==
  /\ TypeOK
  /\ req \in [Requests -> Posts]
  /\ \A r \in Requests : ~ At(r, "idle") => req[r].acc \in Accounts
  /\ address # None => windows > 0
  /\ wrong + Cardinality(Charged) <= Given
  /\ \A a \in Accounts :
       /\ guessed[a] <= AccountLimit
       /\ account[a] # None => guessed[a] <= account[a].points
=============================================================================
