------------------------------ MODULE KvHomes ------------------------------
(* What a router's KV tier promises, whatever its requests do: a session gets a
   home once and keeps it until the tier is cleared; a start restores what was
   saved last.  A home that was never saved may be forgotten, or be replaced by
   what an older index names, which another process wrote; one that was saved
   is never moved.  The routers implement it (RouterState, Homes): their
   lustre_kv_tier_map is home, their own index file on Lustre is saved, and
   older holds what the file EXISTING_LUSTRE_INDEX may name when it is read.    *)
EXTENDS Integers

CONSTANTS Sessions, Backends, None

VARIABLES home, saved, older

Nowhere == [s \in Sessions |-> None]

\* What the homes can be after a start.
Reloaded(map) ==
    /\ map \in [Sessions -> Backends \cup {None}]
    /\ \E file \in older : \A s \in Sessions :
           map[s] \in IF saved[s] # None THEN {saved[s]} ELSE {None, file[s]}

Init == saved = Nowhere /\ Reloaded(home)

\* A session without a home gets one.
Settle(s, b) ==
    /\ home[s] = None
    /\ home' = [home EXCEPT ![s] = b]
    /\ UNCHANGED saved

Clear == home' = Nowhere /\ UNCHANGED saved

\* The file is written, after the homes were cleared or not.
Save == home' \in {home, Nowhere} /\ saved' = home'

Restart == Reloaded(home') /\ UNCHANGED saved

Next == \/ \E s \in Sessions, b \in Backends : Settle(s, b)
        \/ Clear \/ Save \/ Restart

Spec == Init /\ [][Next /\ UNCHANGED older]_<<home, saved, older>>
=============================================================================
