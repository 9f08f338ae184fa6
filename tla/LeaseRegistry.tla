--------------------------- MODULE LeaseRegistry ---------------------------
(***************************************************************************)
(* What the protocol LockRegistry of memu/neighborhood_lock.py promises of *)
(* a slug's lock, whoever calls it and however it is stored: a live lease  *)
(* is not granted to somebody else and not shortened, and every grant      *)
(* carries a fencing token higher than all earlier ones.                   *)
(***************************************************************************)
EXTENDS Integers

CONSTANTS Slug, NoLease

VARIABLES
    lease,  \* the lease of each slug
    fence,  \* the fencing token of the last grant
    clock

regVars == <<lease, fence, clock>>

\* Nobody holds the slug: try_acquire may grant it.
Free(s) == lease[s] = NoLease \/ lease[s].expires_at <= clock

OnlySlug(s, f, g) == \A t \in Slug \ {s} : f[t] = g[t]

Init ==
    /\ lease = [s \in Slug |-> NoLease]
    /\ fence = [s \in Slug |-> 0]
    /\ clock = 0

\* try_acquire: a free slug goes to a holder, under a new token.
Grant(s) ==
    /\ Free(s)
    /\ lease'[s] # NoLease
    /\ fence'[s] > fence[s]
    /\ lease'[s].fencing_token = fence'[s]
    /\ OnlySlug(s, lease', lease) /\ OnlySlug(s, fence', fence)
    /\ UNCHANGED clock

\* renew: the lease is extended, for the same holder and token.
Extend(s) ==
    /\ lease[s] # NoLease /\ lease'[s] # NoLease
    /\ lease'[s].holder_id = lease[s].holder_id
    /\ lease'[s].fencing_token = lease[s].fencing_token
    /\ lease'[s].expires_at >= lease[s].expires_at
    /\ OnlySlug(s, lease', lease)
    /\ UNCHANGED <<fence, clock>>

\* release, and the clearing of an expired lease.
Drop(s) ==
    /\ lease'[s] = NoLease
    /\ OnlySlug(s, lease', lease)
    /\ UNCHANGED <<fence, clock>>

Pass == clock' >= clock /\ UNCHANGED <<lease, fence>>

Next ==
    \/ \E s \in Slug : Grant(s) \/ Extend(s) \/ Drop(s)
    \/ Pass

Spec == Init /\ [][Next]_regVars

=============================================================================
