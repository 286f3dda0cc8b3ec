---------------------------- MODULE MCSponsorship ----------------------------
(***************************************************************************)
(* Small instances of Sponsorship for TLC.                                 *)
(***************************************************************************)
EXTENDS Sponsorship, TLC

CONSTANTS a1, a2, p1, p2, p3, c1, c2, c3, x1, x2, x3, s1, s2,
          Horizon,      \* bound on time: the clock shows 0 .. Horizon
          MinuteLength, DayLength, MonthLength

MCTimes == 0 .. Horizon
MCMinute == [t \in MCTimes |-> t \div MinuteLength]
MCDay == [t \in MCTimes |-> t \div DayLength]
MCMonth == [t \in MCTimes |-> t \div MonthLength]

\* Identifiers of one kind are interchangeable; liveness runs do not use this.
Symmetric == Permutations(Accounts) \cup Permutations(Payloads) \cup Permutations(Tokens)
             \cup Permutations(Transactions) \cup Permutations(Servers)
=============================================================================
