------------------------------ MODULE ChunkPolicies ------------------------------
(***************************************************************************)
(* The chunk loading policies of rolling_bonxai                            *)
(* (chunk_loading_policies.cpp) at work: which chunks updateRolling        *)
(* requests, keeps and evicts as the reference chunk moves and the chunks  *)
(* age.  TransitionManager says when the reference chunk changes; here it  *)
(* may become any of Refs.                                                 *)
(*                                                                         *)
(* How AsyncChunkManager answers is RollingOccupancyMap's matter: a load   *)
(* is accepted, and answered by the next update unless the chunk is in     *)
(* Late, when it may take longer or fail.  Priorities only order the       *)
(* answers.  A worker leaves the manager's table some time after its       *)
(* answer, and a chunk in it counts as loading: of Late, any may still be  *)
(* there.  The clock is steady_clock, whose zero lies before the start of  *)
(* the program; the spatial policies do not read it.                       *)
(***************************************************************************)
EXTENDS Integers, FiniteSets

CONSTANTS
    Refs,        (* chunks the robot may be in                               *)
    Late,        (* chunks whose loads may be late, or fail, and whose       *)
                 (* workers may be slow to leave the manager's table         *)
    Radius,      (* nb_radius                                                *)
    Bands,       (* planar: [z_min, z_max, use_relative]                     *)
    MaxAge,      (* temporal_max_age_s                                       *)
    Uptimes,     (* what the clock may show at the start                     *)
    MaxClock     (* bound of the models                                      *)

CoordT == Int \X Int \X Int

ASSUME RefsAssumption == Refs \subseteq CoordT /\ Refs # {}
ASSUME RadiusAssumption == Radius \in Nat
ASSUME BandsAssumption ==
    \A b \in Bands : IF b.use_relative THEN {b.z_min, b.z_max} \subseteq Nat
                                       ELSE {b.z_min, b.z_max} \subseteq Int /\ b.z_min <= b.z_max
ASSUME ClockAssumption == {MaxAge, MaxClock} \subseteq Nat /\ Uptimes \subseteq 0 .. MaxClock

VARIABLES
    policy,      (* loading_policy_                                          *)
    now,         (* steady_clock::now()                                      *)
    refs,        (* getRefChunkCoord(), in a set: none before the first      *)
    active,      (* the keys of active_chunks_                               *)
    pending,     (* the keys of pending_loads_                               *)
    answered,    (* chunks whose worker, when the last transition asked, had *)
                 (* answered but not left the manager's table; after that,   *)
                 (* those answered since, of which the next one asks         *)
    creation,    (* chunk_metadata_: creation_time                           *)
    born,        (* history: when a chunk was first promoted                 *)
    tainted,     (* history: reference chunks not yet promoted when they were*)
    excused,     (* history: promoted, or failed, since the last transition  *)
    judged       (* history: when the last transition was                    *)

policyVars ==
    <<policy, now, refs, active, pending, answered, creation, born, tainted, excused, judged>>

Temporal == [name |-> "temporal"]
Policies ==
    {Temporal, [name |-> "neighbourhood"]} \cup {[name |-> "planar", band |-> b] : b \in Bands}

PolicyInit ==
    /\ policy \in Policies
    /\ now \in Uptimes
    /\ refs = {} /\ active = {} /\ pending = {} /\ answered = {}
    /\ creation = [c \in {} |-> 0]
    /\ born = [c \in {} |-> 0]
    /\ tainted = {}
    /\ excused = {}
    /\ judged = now

-----------------------------------------------------------------------------
magnitude(i) == IF i < 0 THEN -i ELSE i
distance(c, d) ==
    CHOOSE n \in {magnitude(c[i] - d[i]) : i \in 1 .. 3} :
        \A i \in 1 .. 3 : magnitude(c[i] - d[i]) <= n

forEachNeighbour(c, r) ==
    {<<c[1] + dx, c[2] + dy, c[3] + dz>> : dx, dy, dz \in -r .. r} \ {c}

(* PlanarNeighborhoodPolicy: a band of heights, around the robot or fixed. *)
InBand(b, c, here) ==
    IF b.use_relative THEN c[3] - here[3] \in -b.z_min .. b.z_max
                      ELSE c[3] \in b.z_min .. b.z_max

(* shouldLoad of the three policies, given the metadata M. *)
shouldLoad(c, here, M) ==
    /\ distance(c, here) <= Radius
    /\ policy.name = "planar" => InBand(policy.band, c, here)
    /\ policy.name = "temporal" /\ c \in DOMAIN M => now - M[c] < MaxAge

shouldEvict(c, here, M) == ~shouldLoad(c, here, M)

-----------------------------------------------------------------------------
(* pollPendingLoads: metadata of a chunk is made once, and never renewed.  *)

Dated_Anew(P) == [c \in DOMAIN creation \cup P |-> IF c \in P THEN now ELSE creation[c]]

Dated_Unset(P) ==
    [c \in DOMAIN creation \cup P |-> IF c \in DOMAIN creation THEN creation[c] ELSE 0]

Dated(P) == [c \in DOMAIN creation \cup P |-> IF c \in DOMAIN creation THEN creation[c] ELSE now]

(* updateRolling counts an access of the reference chunk; operator[] makes *)
(* its metadata, created at 0, if the chunk has not been promoted yet.     *)
Accessed(M, here) == [c \in DOMAIN M \cup {here} |-> IF c \in DOMAIN M THEN M[c] ELSE 0]

desired_WithoutRef(here, M) == {c \in forEachNeighbour(here, Radius) : shouldLoad(c, here, M)}

desired_set(here, M) ==
    {here} \cup {c \in forEachNeighbour(here, Radius) : shouldLoad(c, here, M)}

(* performTransition, after a poll that left A active and W pending, while *)
(* the manager is loading what is in W and, for isLoading, what is busy.   *)
performTransition(here, A, W, busy, M) ==
    /\ pending' = W \cup (desired_set(here, M) \ (A \cup busy))
    /\ active' = {c \in A : c = here \/ ~shouldEvict(c, here, M)}

updateRolling(here) ==
    \E lost \in SUBSET (pending \cap Late) :
    \E waiting \in SUBSET ((pending \cap Late) \ lost) :
        LET P == pending \ (lost \cup waiting)
            M == Dated(P)
            taken == answered \cup ((P \cup lost) \cap Late)
        IN  /\ IF refs = {here}
               THEN active' = active \cup P /\ pending' = waiting /\ answered' = taken
               ELSE \E busy \in SUBSET taken :
                       /\ performTransition(here, active \cup P, waiting, busy, M)
                       /\ answered' = busy
            /\ refs' = {here}
            /\ creation' = Accessed(M, here)
            /\ born' = [c \in DOMAIN born \cup P |-> IF c \in DOMAIN born THEN born[c] ELSE now]
            /\ tainted' = tainted \cup ({here} \ DOMAIN born')
            /\ excused' = IF refs = {here} THEN excused \cup P \cup lost ELSE {}
            /\ judged' = IF refs = {here} THEN judged ELSE now
            /\ UNCHANGED <<policy, now>>

elapse ==
    /\ policy = Temporal
    /\ now < MaxClock
    /\ now' = now + 1
    /\ UNCHANGED <<policy, refs, active, pending, answered>>
    /\ UNCHANGED <<creation, born, tainted, excused, judged>>

PolicyNext == elapse \/ \E c \in Refs : updateRolling(c)

PolicySpec == PolicyInit /\ [][PolicyNext]_policyVars

-----------------------------------------------------------------------------
(* Properties. *)

(* Every variable keeps its type. *)
PolicyTypeOK ==
    /\ policy \in Policies
    /\ now \in 0 .. MaxClock /\ judged \in 0 .. now
    /\ refs \in {{}} \cup {{c} : c \in Refs}
    /\ active \cup pending \cup answered \cup excused \cup tainted \subseteq CoordT
    /\ DOMAIN creation \subseteq CoordT /\ DOMAIN born \subseteq DOMAIN creation
    /\ \A c \in DOMAIN creation : creation[c] \in 0 .. now
    /\ \A c \in DOMAIN born : born[c] \in 0 .. now

(* The documentation of the policies, in terms of what happened: chunks    *)
(* within the radius and the band, except those that were first loaded     *)
(* MaxAge ago or more when the last transition was.                        *)
Around(here) == {<<here[1] + dx, here[2] + dy, here[3] + dz>> : dx, dy, dz \in -Radius .. Radius}
InZone(here) ==
    {c \in Around(here) :
        policy.name = "planar" =>
            LET b == policy.band
                low == IF b.use_relative THEN here[3] - b.z_min ELSE b.z_min
                high == IF b.use_relative THEN here[3] + b.z_max ELSE b.z_max
            IN  low <= c[3] /\ c[3] <= high}
Old(c, t) == policy = Temporal /\ c \in DOMAIN born /\ t - born[c] >= MaxAge

(* The reference chunk, old or not and inside the band or not, and every   *)
(* chunk of the zone that is not old is in memory or on its way, unless    *)
(* its load failed since the last transition, or it was the reference chunk*)
(* before it was ever loaded and so has the age of the clock, or its worker*)
(* had answered, before the last transition, and was still in the table:   *)
(* then it was not asked for again, and is not until the next transition.  *)
WantedIsServed ==
    \A here \in refs :
        {here} \cup {c \in InZone(here) : ~Old(c, judged)}
            \subseteq active \cup pending \cup excused \cup answered \cup (tainted \ {here})

(* A chunk that the policy does not want stays only until the next         *)
(* transition, and only if its load was answered after the last one: all   *)
(* else in memory is the reference chunk or was in the zone, and not old,  *)
(* when the last transition was.                                           *)
UnwantedIsLate ==
    \A here \in refs : \A c \in active \ (excused \cup {here}) :
        c \in InZone(here) /\ ~Old(c, judged)

(* "Excludes chunks created more than max_age ago": a chunk of the zone    *)
(* that was first loaded less than MaxAge ago is not evicted, except that  *)
(* one that was the reference chunk before it was loaded may be.           *)
YoungIsKept ==
    [][\A here \in refs', c \in active \ active' :
          c \in InZone(here) /\ c \in DOMAIN born => Old(c, now) \/ c \in tainted]_policyVars
=============================================================================
