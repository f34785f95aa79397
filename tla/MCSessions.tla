----------------------------- MODULE MCSessions -----------------------------
(***************************************************************************)
(* Small instances of Sessions.  The run of the races has two scenes: three   *)
(* tokens of one session whose refreshes race every kind of revocation, and   *)
(* two tokens on a longer clock, where a password change and a refresh inside *)
(* the grace window are both as slow as a request may be.                     *)
(***************************************************************************)
EXTENDS Sessions, TLC

VARIABLE scene

Racing == INSTANCE Sessions WITH GracePeriod <- 1, MaxTime <- 1
Slow == INSTANCE Sessions WITH Offered <- {"refresh", "reset"}

TwoTokens == Cardinality({t \in Tokens : rt'[t] # NoRow}) <= 2

RacesInit == Init /\ scene \in {"racing", "slow"}

RacesNext ==
  /\ \/ scene = "racing" /\ Racing!Next
     \/ scene = "slow" /\ Slow!Next /\ TwoTokens
  /\ UNCHANGED scene

RacesSpec == RacesInit /\ [][RacesNext]_<<vars, scene>>

\* The other runs have no scenes.
OneScene == scene = "only"
OneInit == Init /\ OneScene
OneNext == Next /\ UNCHANGED scene
OneSpec == OneInit /\ [][OneNext]_<<vars, scene>>

\* Requests are interchangeable.
Symmetric == Permutations(Requests)
=============================================================================
