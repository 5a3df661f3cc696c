---------------------------- MODULE PartsProofs ----------------------------
(***************************************************************************)
(* What holds of all parts together, from the inductive invariant of each: *)
(* AccountsProofs, DaemonsProofs and StorageProofs prove them.             *)
(***************************************************************************)
EXTENDS AccountsProofs, DaemonsProofs, StorageProofs

\* Every variable of every part keeps its type, for any sets, limits and bounds:
\* counters do not go below zero, and what is handed on is what the next step
\* reads.
THEOREM PartsTypes == Spec => []PartsTypeOK
<1>1. Spec => [](Net!TypeOK /\ Npm!TypeOK /\ Timer!TypeOK /\ Child!TypeOK)
  <2>1. /\ Net!Inv => Net!TypeOK
        /\ Npm!Inv => Npm!TypeOK
        /\ Timer!Inv => Timer!TypeOK
        /\ Child!Inv => Child!TypeOK
    BY DEF Net!Inv, Npm!Inv, Timer!Inv, Child!Inv
  <2> QED BY <2>1, DaemonsInvariant, PackagesInvariant, UpdatesInvariant, ChildInvariant, PTL
<1>2. Spec => [](Lim!TypeOK /\ Ses!TypeOK /\ Two!TypeOK /\ Ppl!TypeOK)
  <2>1. /\ Lim!Inv => Lim!TypeOK
        /\ Ses!Inv => Ses!TypeOK
        /\ Two!Inv => Two!TypeOK
        /\ Ppl!Inv => Ppl!TypeOK
    BY DEF Lim!Inv, Ses!Inv, Two!Inv, Ppl!Inv
  <2> QED BY <2>1, LimiterInvariant, SessionsInvariant, TwoFactorInvariant, TeamsInvariant, PTL
<1>3. Spec => [](Bak!TypeOK /\ Upl!TypeOK /\ Log!TypeOK)
  <2>1. /\ Bak!Inv => Bak!TypeOK
        /\ Upl!Inv => Upl!TypeOK
        /\ Log!Inv => Log!TypeOK
    BY DEF Bak!Inv, Upl!Inv, Log!Inv
  <2> QED BY <2>1, BackupsInvariant, UploadsInvariant, LogInvariant, PTL
<1>4. Spec => [](Req!TypeOK /\ Mail!TypeOK)
  <2>1. (Req!Inv => Req!TypeOK) /\ (Mail!Inv => Mail!TypeOK)
    BY DEF Req!Inv, Mail!Inv
  <2> QED BY <2>1, RequestsInvariant, MailInvariant, PTL
<1>5. /\ Net!TypeOK /\ Npm!TypeOK /\ Timer!TypeOK /\ Child!TypeOK
      /\ Lim!TypeOK /\ Ses!TypeOK /\ Two!TypeOK /\ Ppl!TypeOK
      /\ Bak!TypeOK /\ Upl!TypeOK /\ Log!TypeOK
      /\ Req!TypeOK /\ Mail!TypeOK
      => PartsTypeOK
  BY DEF PartsTypeOK
<1> QED BY <1>1, <1>2, <1>3, <1>4, <1>5, PTL
=============================================================================
