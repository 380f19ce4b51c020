---------------------------- MODULE ScopeLeases ----------------------------
(***************************************************************************)
(* What the claim registry promises the agents: leases on sets of keys.    *)
(* A lease is taken whole or not at all, only when it clashes with no      *)
(* lease already given, and is given back whole; giving back some leases   *)
(* never touches another one.  AgentTree implements it.                    *)
(***************************************************************************)
EXTENDS UrlClaims

CONSTANT Owner    \* who may hold a lease

VARIABLE lease    \* the keys each owner holds

LeaseType == lease \in [Owner -> SUBSET Key]

Init == lease = [o \in Owner |-> {}]

Free(K) == \A o \in Owner : \A l \in lease[o], k \in K : ~Clash(k, l)

Acquire(o, s) ==
  /\ lease[o] = {}
  /\ Free(KeysOf(s))
  /\ lease' = [lease EXCEPT ![o] = KeysOf(s)]

Release(S) == lease' = [o \in Owner |-> IF o \in S THEN {} ELSE lease[o]]

Next ==
  \/ \E o \in Owner, s \in Scope : Acquire(o, s)
  \/ \E S \in SUBSET Owner : Release(S)

Spec == Init /\ [][Next]_lease

\* No two owners hold clashing keys.
Exclusive ==
  \A o, p \in Owner : o # p => \A k \in lease[o], l \in lease[p] : ~Clash(k, l)
=============================================================================
