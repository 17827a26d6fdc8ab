--------------------------- MODULE ReplayContract ---------------------------
(***************************************************************************)
(* What GraphCache promises the callers of lookup, with no registry, locks *)
(* or single-flight: an executable becomes available under a key with a    *)
(* generation above all earlier ones of that key; a lookup examines an     *)
(* executable only while it is the key's current, unrevoked one; a hit is  *)
(* granted at one instant, at which the executable is not revoked; a lease *)
(* is handed out only for such a grant; revocation is for good.            *)
(*                                                                         *)
(* The lease itself may come after a revocation that followed the grant:   *)
(* "granted" and "held" are different states, and only the first needs an  *)
(* unrevoked executable.                                                   *)
(***************************************************************************)
EXTENDS Naturals

CONSTANTS Callers, None

VARIABLES
  published,   \* set of [entry, key, generation]
  authority,   \* key -> generation that makes a publication current
  revoked,     \* entries invalidated
  examining,   \* caller -> entry its lookup is looking at, or None
  granted,     \* caller -> entry its lookup will return a lease for, or None
  held         \* lease -> entry

contractVars == <<published, authority, revoked, examining, granted, held>>

Nobody == [c \in Callers |-> None]

ContractInit ==
  /\ published = {} /\ authority = << >> /\ revoked = {}
  /\ examining = Nobody /\ granted = Nobody /\ held = << >>

Announce(p) ==
  /\ \A q \in published : q.entry # p.entry
  /\ p.key \in DOMAIN authority => authority[p.key] < p.generation
  /\ published' = published \cup {p}
  /\ authority' = [k \in DOMAIN authority \cup {p.key} |->
                     IF k = p.key THEN p.generation ELSE authority[k]]
  /\ UNCHANGED <<revoked, examining, granted, held>>

Examine(c, p) ==
  /\ examining[c] = None /\ granted[c] = None
  /\ p \in published /\ p.entry \notin revoked
  /\ p.key \in DOMAIN authority /\ authority[p.key] = p.generation
  /\ examining' = [examining EXCEPT ![c] = p.entry]
  /\ UNCHANGED <<published, authority, revoked, granted, held>>

Miss(c) ==
  /\ examining[c] # None
  /\ examining' = [examining EXCEPT ![c] = None]
  /\ UNCHANGED <<published, authority, revoked, granted, held>>

Grant(c) ==
  /\ examining[c] # None /\ examining[c] \notin revoked
  /\ granted' = [granted EXCEPT ![c] = examining[c]]
  /\ examining' = [examining EXCEPT ![c] = None]
  /\ UNCHANGED <<published, authority, revoked, held>>

Hand(c, l) ==
  /\ granted[c] # None /\ l \notin DOMAIN held
  /\ held' = [m \in DOMAIN held \cup {l} |-> IF m = l THEN granted[c] ELSE held[m]]
  /\ granted' = [granted EXCEPT ![c] = None]
  /\ UNCHANGED <<published, authority, revoked, examining>>

Revoke(e) ==
  /\ \E p \in published : p.entry = e
  /\ revoked' = revoked \cup {e}
  /\ UNCHANGED <<published, authority, examining, granted, held>>

GiveBack(l) ==
  /\ l \in DOMAIN held
  /\ held' = [m \in DOMAIN held \ {l} |-> held[m]]
  /\ UNCHANGED <<published, authority, revoked, examining, granted>>

\* What a step publishes, hands out, revokes or takes back is read off the next state.
ContractNext ==
  \/ \E p \in published' \ published : Announce(p)
  \/ \E c \in Callers :
       \/ Miss(c) \/ Grant(c)
       \/ \E p \in published : Examine(c, p)
       \/ \E l \in DOMAIN held' \ DOMAIN held : Hand(c, l)
  \/ \E e \in revoked' \ revoked : Revoke(e)
  \/ \E l \in DOMAIN held \ DOMAIN held' : GiveBack(l)

ContractSpec == ContractInit /\ [][ContractNext]_contractVars
=============================================================================
