---------------------------- MODULE MCProtection ----------------------------
(* Instances of what guards accounts, endpoints and providers, for TLC:     *)
(* Accounts, RateLimit, Resilience and EnhancedResilience.  They share      *)
(* nothing: a behaviour is one of the one, and leaves the others be.        *)
EXTENDS Resilience, EnhancedResilience, RateLimit, Accounts, TLC

CONSTANTS p1, m1, Parts

VARIABLE part

MCOwner  == [m \in Model |-> p1]
MCLimits == << [scope |-> "ip", requests |-> 2], [scope |-> "user", requests |-> 2] >>

\* Places and names of accounts are interchangeable.
Symmetry == Permutations(Request) \cup Permutations(Name)

Init ==
  /\ part \in Parts /\ RInit /\ EInit /\ LInit /\ AInit
  /\ part = "ratelimit" \/ redisUp

Next ==
  \/ part = "resilience" /\ RNext /\ UNCHANGED <<evars, lvars, avars>>
  \/ part = "enhanced"   /\ ENext /\ UNCHANGED <<rvars, lvars, avars>>
  \/ part = "ratelimit"  /\ LNext /\ UNCHANGED <<rvars, evars, avars>>
  \/ part = "accounts"   /\ ANext /\ UNCHANGED <<rvars, evars, lvars>>

Spec == Init /\ [][Next /\ UNCHANGED part]_<<part, rvars, evars, lvars, avars>>
=============================================================================
