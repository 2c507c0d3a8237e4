-------------------------- MODULE OccupancyMapProofs --------------------------
(***************************************************************************)
(* Theorems about OccupancyMap, for every grid, sensor model and clamping: *)
(* what update_id means, that a remote layer shows what it was told, that  *)
(* RayIterator visits the voxels of its reference, and what a batch does.  *)
(***************************************************************************)
EXTENDS OccupancyMap, FiniteSetTheorems, WellFoundedInduction, TLAPS

(* The log-odds of an observed voxel stay within the clamps. *)
LEMMA LogsClamped ==
    ASSUME NEW log \in ClampMin .. ClampMax
    PROVE  /\ AfterHit(log) \in ClampMin .. ClampMax
           /\ AfterMiss(log) \in ClampMin .. ClampMax
  BY OptionsAssumption DEF AfterHit, AfterMiss, AtMost, AtLeast

(* A hit marks its voxel, and no other, with the current cycle. *)
LEMMA HitFacts ==
    ASSUME NEW cs \in [Coords -> Cell], NEW c \in Coords, update_count \in 1 .. 3
    PROVE  /\ Hit(cs, c) \in [Coords -> Cell]
           /\ Hit(cs, c)[c].id = update_count
           /\ \A d \in Coords \ {c} : Hit(cs, c)[d] = cs[d]
           /\ IsNew(cs, c) => Hit(cs, c)[c].log = AfterHit(cs[c].log)
           /\ ~IsNew(cs, c) => Hit(cs, c)[c].log = cs[c].log
  <1>1. cs[c] \in Cell
    OBVIOUS
  <1>2. AfterHit(cs[c].log) \in ClampMin .. ClampMax
    BY <1>1, LogsClamped DEF Cell
  <1>3. CASE IsNew(cs, c)
    <2>1. [id |-> update_count, log |-> AfterHit(cs[c].log)] \in Cell
      BY <1>2 DEF Cell
    <2>2. QED
      BY <1>3, <2>1 DEF Hit
  <1>4. CASE ~IsNew(cs, c)
    BY <1>1, <1>4 DEF Hit, IsNew
  <1>5. QED
    BY <1>3, <1>4

(* Misses mark the voxels of the set, and no others. *)
LEMMA MissesFacts ==
    ASSUME NEW cs \in [Coords -> Cell], NEW S, update_count \in 1 .. 3
    PROVE  /\ Misses(cs, S) \in [Coords -> Cell]
           /\ \A d \in Coords :
                /\ d \in S => Misses(cs, S)[d].id = update_count
                /\ d \notin S => Misses(cs, S)[d] = cs[d]
                /\ d \in S /\ IsNew(cs, d)
                     => Misses(cs, S)[d].log = AfterMiss(cs[d].log)
                /\ ~IsNew(cs, d) => Misses(cs, S)[d].log = cs[d].log
  <1>1. \A d \in Coords :
            [id |-> update_count, log |-> AfterMiss(cs[d].log)] \in Cell
    BY LogsClamped DEF Cell
  <1>2. QED
    BY <1>1 DEF Misses, IsNew

(* A reset voxel is unknown and open to an update of the current cycle. *)
LEMMA ResetFacts ==
    ASSUME NEW cs \in [Coords -> Cell], NEW c \in Coords, update_count \in 1 .. 3
    PROVE  /\ Reset(cs, c) \in [Coords -> Cell]
           /\ Reset(cs, c)[c] = [id |-> 4, log |-> Threshold]
           /\ \A d \in Coords \ {c} : Reset(cs, c)[d] = cs[d]
           /\ IsNew(Reset(cs, c), c)
  <1>1. [id |-> 4, log |-> Threshold] \in Cell
    BY OptionsAssumption DEF Cell
  <1>2. QED
    BY <1>1 DEF Reset, IsNew

-----------------------------------------------------------------------------
(* The inductive invariant.  In the middle of a batch a voxel shows its    *)
(* log-odds at the start, changed by what the batch observed of it first,  *)
(* and rays will be traced to the endpoints that were taken.               *)

SoFar(c) ==
    IF Aliased(c) THEN start[c]
    ELSE IF first[c] = "hit" THEN AfterHit(start[c])
    ELSE IF first[c] = "miss" THEN AfterMiss(start[c])
    ELSE start[c]

BatchSoFar == \A c \in Coords : cells[c].log = SoFar(c)
EndsTaken == user = "cloud" => ends = RayEnds
DeltaResets ==
    user = "delta" =>
        \A c \in Coords : first[c] # "none" => seen[c] = 0 /\ start[c] = Threshold

(* A batch that updated a voxel took an endpoint, so its cycle will end. *)
EndsSeen ==
    user # "cloud" =>
        \A c \in Coords : first[c] # "none" /\ ~Aliased(c) => ends # {}

Inv == /\ TypeOK /\ IdTellsBatch
       /\ BatchSoFar /\ EndsTaken /\ EndsSeen /\ DeltaResets

(* The cycle of a batch, and when two batches share it. *)
LEMMA CycleFacts ==
    ASSUME NEW m \in Nat \ {0}, NEW n \in Nat \ {0}
    PROVE  /\ Cycle(m) \in 1 .. 3
           /\ Cycle(m) = Cycle(n) <=> m % 3 = n % 3
           /\ Cycle(m + 1) = IF Cycle(m) + 1 = 4 THEN 1 ELSE Cycle(m) + 1
  BY DEF Cycle

(* A cell is open to an update iff the batch has not seen its voxel yet    *)
(* and its id is not an alias of the current cycle.                        *)
LEMMA NewMeans ==
    ASSUME Inv, NEW c \in Coords
    PROVE  IsNew(cells, c) <=> first[c] = "none" /\ ~Aliased(c)
  <1>1. /\ batch \in Nat \ {0} /\ seen[c] \in Nat
        /\ update_count = Cycle(batch)
        /\ cells[c].id = IF first[c] # "none" THEN update_count
                         ELSE IF seen[c] = 0 THEN 4 ELSE Cycle(seen[c])
    BY DEF Inv, TypeOK, IdTellsBatch
  <1>2. CASE seen[c] = 0
    BY <1>1, <1>2, CycleFacts DEF IsNew, Aliased
  <1>3. CASE seen[c] # 0
    BY <1>1, <1>3, CycleFacts DEF IsNew, Aliased
  <1>4. QED
    BY <1>2, <1>3

(* Any step that observes e as k, then the voxels of ray as free. *)
LEMMA ObservesKeepsInv ==
    ASSUME Inv, NEW e, NEW k \in Evidence, NEW ray, user # "delta",
           Observes(e, k, ray),
           update_count' = update_count,
           cells' \in [Coords -> Cell],
           \A c \in Coords :
              /\ c = e \/ c \in ray => cells'[c].id = update_count
              /\ c # e /\ c \notin ray => cells'[c] = cells[c]
              /\ ~IsNew(cells, c) => cells'[c].log = cells[c].log
              /\ IsNew(cells, c) /\ c = e =>
                   cells'[c].log = IF k = "hit" THEN AfterHit(cells[c].log)
                                   ELSE AfterMiss(cells[c].log)
              /\ IsNew(cells, c) /\ c # e /\ c \in ray =>
                   cells'[c].log = AfterMiss(cells[c].log),
           ends' \subseteq Coords,
           user = "cloud" => ends' = RayEnds',
           user # "cloud" => EndsSeen'
    PROVE  Inv'
  <1>1. /\ \A c \in Coords :
              first'[c] = IF first[c] # "none" THEN first[c]
                          ELSE IF c = e THEN k
                          ELSE IF c \in ray THEN "miss" ELSE "none"
        /\ first' \in [Coords -> Evidence \cup {"none"}]
        /\ UNCHANGED <<user, origin, batch, seen, start>>
    <2>1. first \in [Coords -> Evidence \cup {"none"}]
      BY DEF Inv, TypeOK
    <2>2. QED
      BY <2>1 DEF Observes, Evidence
  <1>2. TypeOK'
    BY <1>1 DEF Inv, TypeOK, Observes
  <1>3. IdTellsBatch'
    <2>1. \A c \in Coords : first[c] # "none" => cells[c].id = update_count
      BY DEF Inv, IdTellsBatch
    <2>2. ASSUME NEW c \in Coords, first'[c] # "none" PROVE cells'[c].id = update_count
      <3>1. CASE c = e \/ c \in ray
        BY <3>1
      <3>2. CASE c # e /\ c \notin ray
        BY <1>1, <2>1, <2>2, <3>2
      <3>3. QED
        BY <3>1, <3>2
    <2>3. ASSUME NEW c \in Coords, first'[c] = "none"
          PROVE  cells'[c].id = IF seen[c] = 0 THEN 4 ELSE Cycle(seen[c])
      <3>1. first[c] = "none" /\ c # e /\ c \notin ray
        BY <1>1, <2>3 DEF Evidence
      <3>2. QED
        BY <3>1 DEF Inv, IdTellsBatch
    <2>4. QED
      BY <1>1, <2>2, <2>3 DEF Inv, IdTellsBatch, Cycle
  <1>4. BatchSoFar'
    <2> SUFFICES ASSUME NEW c \in Coords PROVE cells'[c].log = SoFar(c)'
      BY DEF BatchSoFar
    <2>1. cells[c].log = SoFar(c) /\ (Aliased(c)' <=> Aliased(c)) /\ start'[c] = start[c]
      BY <1>1 DEF Inv, BatchSoFar, Aliased
    <2>2. CASE ~IsNew(cells, c)
      <3>1. Aliased(c) \/ first'[c] = first[c]
        BY <1>1, <2>2, NewMeans
      <3>2. QED
        BY <2>1, <2>2, <3>1 DEF SoFar
    <2>3. CASE IsNew(cells, c)
      <3>1. ~Aliased(c) /\ first[c] = "none" /\ cells[c].log = start[c]
        BY <2>1, <2>3, NewMeans DEF SoFar
      <3>2. CASE c = e
        BY <1>1, <2>1, <2>3, <3>1, <3>2 DEF SoFar, Evidence
      <3>3. CASE c # e /\ c \in ray
        BY <1>1, <2>1, <2>3, <3>1, <3>3 DEF SoFar
      <3>4. CASE c # e /\ c \notin ray
        BY <1>1, <2>1, <3>1, <3>4 DEF SoFar
      <3>5. QED
        BY <3>2, <3>3, <3>4
    <2>4. QED
      BY <2>2, <2>3
  <1>5. EndsTaken' /\ EndsSeen' /\ DeltaResets'
    BY <1>1 DEF Inv, EndsTaken, EndsSeen, DeltaResets, Observes
  <1>6. QED
    BY <1>2, <1>3, <1>4, <1>5 DEF Inv

(* The end of a batch that observed the voxels T. *)
LEMMA BatchEndsKeepsInv ==
    ASSUME Inv, NEW T, BatchEnds(T), incrementUpdateCount,
           Observed \subseteq T,
           cells' \in [Coords -> Cell],
           \A c \in Coords :
              /\ c \in T => cells'[c].id = update_count
              /\ c \notin T => cells'[c] = cells[c],
           ends' = {}
    PROVE  Inv'
  <1>1. /\ batch \in Nat \ {0} /\ seen \in [Coords -> Nat] /\ update_count \in 1 .. 3
        /\ update_count = Cycle(batch)
    BY DEF Inv, TypeOK, IdTellsBatch
  <1>2. /\ batch' = batch + 1
        /\ seen' = [c \in Coords |-> IF c \in T /\ ~Aliased(c) THEN batch ELSE seen[c]]
        /\ start' = [c \in Coords |-> cells'[c].log]
        /\ first' = [c \in Coords |-> "none"]
        /\ missed' = {} /\ origin' \in Origins /\ user' = user
    BY DEF BatchEnds
  <1>3. update_count' = Cycle(batch') /\ update_count' \in 1 .. 3
    BY <1>1, <1>2, CycleFacts DEF incrementUpdateCount
  <1>4. TypeOK'
    <2>1. start' \in [Coords -> ClampMin .. ClampMax]
      BY <1>2 DEF Cell
    <2>2. seen' \in [Coords -> Nat] /\ batch' \in Nat \ {0}
      BY <1>1, <1>2
    <2>3. first' \in [Coords -> Evidence \cup {"none"}]
      BY <1>2
    <2>4. QED
      BY <1>2, <1>3, <2>1, <2>2, <2>3 DEF Inv, TypeOK
  <1>5. IdTellsBatch'
    <2> SUFFICES ASSUME NEW c \in Coords
                 PROVE  cells'[c].id = IF seen'[c] = 0 THEN 4 ELSE Cycle(seen'[c])
      BY <1>2, <1>3 DEF IdTellsBatch, Cycle
    <2>1. CASE c \in T /\ ~Aliased(c)
      BY <1>1, <1>2, <2>1
    <2>2. CASE c \in T /\ Aliased(c)
      <3>1. seen'[c] = seen[c] /\ seen[c] \in Nat \ {0} /\ seen[c] % 3 = batch % 3
        BY <1>1, <1>2, <2>2 DEF Aliased
      <3>2. QED
        BY <1>1, <2>2, <3>1, CycleFacts
    <2>3. CASE c \notin T
      <3>1. first[c] = "none" /\ seen'[c] = seen[c] /\ cells'[c] = cells[c]
        BY <1>2, <2>3 DEF Observed
      <3>2. QED
        BY <3>1 DEF Inv, IdTellsBatch
    <2>4. QED
      BY <2>1, <2>2, <2>3
  <1>6. BatchSoFar'
    <2> SUFFICES ASSUME NEW c \in Coords PROVE cells'[c].log = SoFar(c)'
      BY DEF BatchSoFar
    <2>1. first'[c] = "none" /\ start'[c] = cells'[c].log
      BY <1>2
    <2>2. QED
      BY <2>1 DEF SoFar
  <1>7. RayEnds' = {}
    BY <1>2 DEF RayEnds
  <1>8. EndsTaken' /\ EndsSeen' /\ DeltaResets'
    BY <1>2, <1>7 DEF EndsTaken, EndsSeen, DeltaResets
  <1>9. QED
    BY <1>4, <1>5, <1>6, <1>8 DEF Inv

(* A return and a clipped point of insertPointCloud. *)
LEMMA AddPointKeepsInv ==
    ASSUME Inv, NEW c \in Coords, addHitPoint(c) \/ addMissPoint(c)
    PROVE  Inv'
  <1>1. cells \in [Coords -> Cell] /\ update_count \in 1 .. 3 /\ ends \subseteq Coords
    BY DEF Inv, TypeOK
  <1>2. IsNew(cells, c) <=> first[c] = "none" /\ ~Aliased(c)
    BY NewMeans
  <1>3. first \in [Coords -> Evidence \cup {"none"}] /\ missed \subseteq Coords
    BY DEF Inv, TypeOK
  <1>4. user = "cloud" => ends = missed \cup {e \in Coords : first[e] = "hit" /\ ~Aliased(e)}
    BY DEF Inv, EndsTaken, RayEnds
  <1>5. CASE addHitPoint(c)
    <2>1. /\ user = "cloud" /\ Observes(c, "hit", {}) /\ update_count' = update_count
          /\ cells' = Hit(cells, c)
          /\ ends' = IF IsNew(cells, c) THEN ends \cup {c} ELSE ends
      BY <1>5 DEF addHitPoint
    <2>2. /\ missed' = missed /\ \A e \in Coords : Aliased(e)' <=> Aliased(e)
          /\ \A e \in Coords : first'[e] = IF first[e] # "none" THEN first[e]
                                          ELSE IF e = c THEN "hit" ELSE "none"
      BY <2>1 DEF Observes, Aliased
    <2>3. RayEnds' = missed \cup {e \in Coords : first'[e] = "hit" /\ ~Aliased(e)}
      BY <2>2 DEF RayEnds
    <2>4. {e \in Coords : first'[e] = "hit" /\ ~Aliased(e)}
            = {e \in Coords : first[e] = "hit" /\ ~Aliased(e)}
              \cup (IF IsNew(cells, c) THEN {c} ELSE {})
      BY <1>2, <2>2
    <2>5. ends' = RayEnds'
      BY <1>4, <2>1, <2>3, <2>4
    <2>6. QED
      <3>1. /\ Hit(cells, c) \in [Coords -> Cell]
            /\ Hit(cells, c)[c].id = update_count
            /\ \A d \in Coords \ {c} : Hit(cells, c)[d] = cells[d]
            /\ IsNew(cells, c) => Hit(cells, c)[c].log = AfterHit(cells[c].log)
            /\ ~IsNew(cells, c) => Hit(cells, c)[c].log = cells[c].log
        BY <1>1, HitFacts
      <3>2. /\ "hit" \in Evidence /\ user # "delta" /\ user = "cloud"
            /\ ends' \subseteq Coords
        BY <1>1, <2>1 DEF Evidence
      <3>3. \A d \in Coords :
              /\ d = c \/ d \in {} => cells'[d].id = update_count
              /\ d # c /\ d \notin {} => cells'[d] = cells[d]
              /\ ~IsNew(cells, d) => cells'[d].log = cells[d].log
              /\ IsNew(cells, d) /\ d = c =>
                   cells'[d].log = IF "hit" = "hit" THEN AfterHit(cells[d].log)
                                   ELSE AfterMiss(cells[d].log)
              /\ IsNew(cells, d) /\ d # c /\ d \in {} =>
                   cells'[d].log = AfterMiss(cells[d].log)
        BY <2>1, <3>1
      <3>4. QED
        BY <2>1, <2>5, <3>1, <3>2, <3>3, ObservesKeepsInv
  <1>6. CASE addMissPoint(c)
    <2>1. /\ user = "cloud" /\ Observes(c, "miss", {}) /\ update_count' = update_count
          /\ cells' = Misses(cells, {c})
          /\ ends' = ends \cup {c}
      BY <1>6 DEF addMissPoint
    <2>2. /\ missed' = missed \cup {c}
          /\ \A e \in Coords : Aliased(e)' <=> Aliased(e)
          /\ \A e \in Coords : first'[e] = IF first[e] # "none" THEN first[e]
                                          ELSE IF e = c THEN "miss" ELSE "none"
      BY <2>1 DEF Observes, Aliased
    <2>3. {e \in Coords : first'[e] = "hit" /\ ~Aliased(e)}
            = {e \in Coords : first[e] = "hit" /\ ~Aliased(e)}
      BY <2>2
    <2>4. RayEnds' = missed' \cup {e \in Coords : first'[e] = "hit" /\ ~Aliased(e)}
      BY <2>2 DEF RayEnds
    <2>5. ends' = RayEnds'
      BY <1>4, <2>1, <2>2, <2>3, <2>4
    <2>6. QED
      <3>1. /\ Misses(cells, {c}) \in [Coords -> Cell]
            /\ \A d \in Coords :
                 /\ d \in {c} => Misses(cells, {c})[d].id = update_count
                 /\ d \notin {c} => Misses(cells, {c})[d] = cells[d]
                 /\ d \in {c} /\ IsNew(cells, d)
                      => Misses(cells, {c})[d].log = AfterMiss(cells[d].log)
                 /\ ~IsNew(cells, d) => Misses(cells, {c})[d].log = cells[d].log
        BY <1>1, MissesFacts
      <3>2. /\ "miss" \in Evidence /\ user # "delta" /\ user = "cloud"
            /\ ends' \subseteq Coords
        BY <1>1, <2>1 DEF Evidence
      <3>3. \A d \in Coords :
              /\ d = c \/ d \in {} => cells'[d].id = update_count
              /\ d # c /\ d \notin {} => cells'[d] = cells[d]
              /\ ~IsNew(cells, d) => cells'[d].log = cells[d].log
              /\ IsNew(cells, d) /\ d = c =>
                   cells'[d].log = IF "miss" = "hit" THEN AfterHit(cells[d].log)
                                   ELSE AfterMiss(cells[d].log)
              /\ IsNew(cells, d) /\ d # c /\ d \in {} =>
                   cells'[d].log = AfterMiss(cells[d].log)
        BY <2>1, <3>1
      <3>4. QED
        BY <2>1, <2>5, <3>1, <3>2, <3>3, ObservesKeepsInv
  <1>7. QED
    BY <1>5, <1>6

(* A point that a chunk sees: its endpoint, then the voxels of its ray. *)
LEMMA DispatchKeepsInv ==
    ASSUME Inv, NEW e, NEW k \in Evidence, dispatch(e, k)
    PROVE  Inv'
  <1> DEFINE ray == RayIterator(origin, e) \cap Coords
             cs == IF e \notin Coords THEN cells
                   ELSE IF k = "hit" THEN Hit(cells, e) ELSE Misses(cells, {e})
             pushed == IF e \in Coords /\ (k = "miss" \/ IsNew(cells, e)) THEN {e} ELSE {}
  <1>1. /\ user = "dispatch" /\ update_count' = update_count
        /\ cells' = Misses(cs, ray)
        /\ ends' = ends \cup ray \cup pushed
        /\ Observes(e, k, ray)
    BY DEF dispatch
  <1>2. cells \in [Coords -> Cell] /\ update_count \in 1 .. 3 /\ ends \subseteq Coords
    BY DEF Inv, TypeOK
  <1>3. /\ cs \in [Coords -> Cell]
        /\ \A c \in Coords :
             /\ c = e => cs[c].id = update_count
             /\ c # e => cs[c] = cells[c]
             /\ ~IsNew(cells, c) => cs[c].log = cells[c].log
             /\ IsNew(cells, c) /\ c = e =>
                  cs[c].log = IF k = "hit" THEN AfterHit(cells[c].log)
                              ELSE AfterMiss(cells[c].log)
    <2>1. CASE e \notin Coords
      BY <1>2, <2>1
    <2>2. CASE e \in Coords /\ k = "hit"
      <3>1. /\ Hit(cells, e) \in [Coords -> Cell]
            /\ Hit(cells, e)[e].id = update_count
            /\ \A d \in Coords \ {e} : Hit(cells, e)[d] = cells[d]
            /\ IsNew(cells, e) => Hit(cells, e)[e].log = AfterHit(cells[e].log)
            /\ ~IsNew(cells, e) => Hit(cells, e)[e].log = cells[e].log
        BY <1>2, <2>2, HitFacts
      <3>2. QED
        BY <2>2, <3>1
    <2>3. CASE e \in Coords /\ k # "hit"
      <3>1. /\ Misses(cells, {e}) \in [Coords -> Cell]
            /\ \A d \in Coords :
                 /\ d \in {e} => Misses(cells, {e})[d].id = update_count
                 /\ d \notin {e} => Misses(cells, {e})[d] = cells[d]
                 /\ d \in {e} /\ IsNew(cells, d)
                      => Misses(cells, {e})[d].log = AfterMiss(cells[d].log)
                 /\ ~IsNew(cells, d) => Misses(cells, {e})[d].log = cells[d].log
        BY <1>2, MissesFacts
      <3>2. QED
        BY <2>3, <3>1
    <2>4. QED
      BY <2>1, <2>2, <2>3
  <1>4. /\ Misses(cs, ray) \in [Coords -> Cell]
        /\ \A d \in Coords :
             /\ d \in ray => Misses(cs, ray)[d].id = update_count
             /\ d \notin ray => Misses(cs, ray)[d] = cs[d]
             /\ d \in ray /\ IsNew(cs, d)
                  => Misses(cs, ray)[d].log = AfterMiss(cs[d].log)
             /\ ~IsNew(cs, d) => Misses(cs, ray)[d].log = cs[d].log
    BY <1>2, <1>3, MissesFacts
  <1>5. ends' \subseteq Coords
    BY <1>1, <1>2
  <1>6. /\ cells' \in [Coords -> Cell]
        /\ \A c \in Coords :
             /\ c = e \/ c \in ray => cells'[c].id = update_count
             /\ c # e /\ c \notin ray => cells'[c] = cells[c]
             /\ ~IsNew(cells, c) => cells'[c].log = cells[c].log
             /\ IsNew(cells, c) /\ c = e =>
                  cells'[c].log = IF k = "hit" THEN AfterHit(cells[c].log)
                                  ELSE AfterMiss(cells[c].log)
             /\ IsNew(cells, c) /\ c # e /\ c \in ray =>
                  cells'[c].log = AfterMiss(cells[c].log)
    <2> HIDE DEF ray, cs
    <2>1. cells' = Misses(cs, ray)
      BY <1>1
    <2> SUFFICES ASSUME NEW c \in Coords
                 PROVE  /\ c = e \/ c \in ray => cells'[c].id = update_count
                        /\ c # e /\ c \notin ray => cells'[c] = cells[c]
                        /\ ~IsNew(cells, c) => cells'[c].log = cells[c].log
                        /\ IsNew(cells, c) /\ c = e =>
                             cells'[c].log = IF k = "hit" THEN AfterHit(cells[c].log)
                                             ELSE AfterMiss(cells[c].log)
                        /\ IsNew(cells, c) /\ c # e /\ c \in ray =>
                             cells'[c].log = AfterMiss(cells[c].log)
      BY <1>4, <2>1
    <2>2. CASE c = e
      <3>1. ~IsNew(cs, c)
        BY <1>3, <2>2 DEF IsNew
      <3>2. cells'[c].log = cs[c].log /\ cells'[c].id = update_count
        BY <1>3, <1>4, <2>1, <2>2, <3>1
      <3>3. QED
        BY <1>3, <2>2, <3>2
    <2>3. CASE c # e
      <3>1. cs[c] = cells[c] /\ (IsNew(cs, c) <=> IsNew(cells, c))
        BY <1>3, <2>3 DEF IsNew
      <3>2. QED
        BY <1>4, <2>1, <2>3, <3>1
    <2>4. QED
      BY <2>2, <2>3
  <1>7. EndsSeen'
    <2> SUFFICES ASSUME NEW c \in Coords, first'[c] # "none", ~Aliased(c)', ends' = {}
                 PROVE  FALSE
      BY DEF EndsSeen
    <2>1. ~Aliased(c) /\ ends = {} /\ c \notin ray /\ c \notin pushed
      BY <1>1 DEF Observes, Aliased
    <2>2. first[c] = "none"
      BY <1>1, <2>1 DEF Inv, EndsSeen
    <2>3. c = e
      BY <1>1, <2>1, <2>2 DEF Observes
    <2>4. IsNew(cells, c)
      BY <2>1, <2>2, NewMeans
    <2>5. QED
      BY <2>1, <2>3, <2>4
  <1>8. user # "delta" /\ user # "cloud"
    BY <1>1
  <1>9. QED
    <2> HIDE DEF ray, cs, pushed
    <2>1. QED
      BY <1>1, <1>5, <1>6, <1>7, <1>8, ObservesKeepsInv

(* A voxel of a remote layer's message. *)
LEMMA SetPointKeepsInv ==
    ASSUME Inv, NEW c \in Coords, NEW k \in Evidence \cup {"none"}, setPoint(c, k)
    PROVE  Inv'
  <1> DEFINE cs == Reset(cells, c)
  <1>1. /\ user = "delta"
        /\ cells' = CASE k = "hit"  -> Hit(cs, c)
                       [] k = "miss" -> Misses(cs, {c})
                       [] k = "none" -> cs
        /\ ends' = IF k = "none" THEN ends ELSE ends \cup {c}
        /\ first' = [first EXCEPT ![c] = k]
        /\ start' = [start EXCEPT ![c] = Threshold]
        /\ seen' = [seen EXCEPT ![c] = 0]
        /\ UNCHANGED <<update_count, user, origin, batch, missed>>
    BY DEF setPoint
  <1>2. /\ cells \in [Coords -> Cell] /\ update_count \in 1 .. 3 /\ ends \subseteq Coords
        /\ first \in [Coords -> Evidence \cup {"none"}] /\ seen \in [Coords -> Nat]
        /\ start \in [Coords -> ClampMin .. ClampMax]
    BY DEF Inv, TypeOK
  <1>3. /\ cs \in [Coords -> Cell]
        /\ cs[c] = [id |-> 4, log |-> Threshold]
        /\ \A d \in Coords \ {c} : cs[d] = cells[d]
        /\ IsNew(cs, c)
    BY <1>2, ResetFacts
  <1> HIDE DEF cs
  <1>4. /\ cells' \in [Coords -> Cell]
        /\ \A d \in Coords \ {c} : cells'[d] = cells[d]
        /\ k = "none" => cells'[c] = [id |-> 4, log |-> Threshold]
        /\ k # "none" => cells'[c].id = update_count
        /\ k = "hit" => cells'[c].log = AfterHit(Threshold)
        /\ k = "miss" => cells'[c].log = AfterMiss(Threshold)
    <2>1. CASE k = "hit"
      <3>1. /\ Hit(cs, c) \in [Coords -> Cell]
            /\ Hit(cs, c)[c].id = update_count
            /\ \A d \in Coords \ {c} : Hit(cs, c)[d] = cs[d]
            /\ IsNew(cs, c) => Hit(cs, c)[c].log = AfterHit(cs[c].log)
        BY <1>2, <1>3, HitFacts
      <3>2. cells' = Hit(cs, c)
        BY <1>1, <2>1
      <3>3. QED
        BY <1>3, <2>1, <3>1, <3>2
    <2>2. CASE k = "miss"
      <3>1. /\ Misses(cs, {c}) \in [Coords -> Cell]
            /\ \A d \in Coords :
                 /\ d \in {c} => Misses(cs, {c})[d].id = update_count
                 /\ d \notin {c} => Misses(cs, {c})[d] = cs[d]
                 /\ d \in {c} /\ IsNew(cs, d)
                      => Misses(cs, {c})[d].log = AfterMiss(cs[d].log)
        BY <1>2, <1>3, MissesFacts
      <3>2. cells' = Misses(cs, {c})
        BY <1>1, <2>2
      <3>3. cells'[c].id = update_count /\ cells'[c].log = AfterMiss(Threshold)
        BY <1>3, <3>1, <3>2
      <3>4. \A d \in Coords \ {c} : cells'[d] = cells[d]
        BY <1>3, <3>1, <3>2
      <3>5. QED
        BY <2>2, <3>1, <3>2, <3>3, <3>4
    <2>3. CASE k = "none"
      BY <1>1, <1>3, <2>3
    <2>4. QED
      BY <2>1, <2>2, <2>3 DEF Evidence
  <1>5. /\ first'[c] = k /\ seen'[c] = 0 /\ start'[c] = Threshold
        /\ \A d \in Coords \ {c} :
             first'[d] = first[d] /\ seen'[d] = seen[d] /\ start'[d] = start[d]
    BY <1>1, <1>2
  <1>6. TypeOK'
    <2>1. ends' \subseteq Coords
      BY <1>1, <1>2
    <2>2. start' \in [Coords -> ClampMin .. ClampMax]
      BY <1>1, <1>2, OptionsAssumption
    <2>3. /\ first' \in [Coords -> Evidence \cup {"none"}]
          /\ seen' \in [Coords -> Nat]
      BY <1>1, <1>2
    <2>4. QED
      BY <1>1, <1>4, <2>1, <2>2, <2>3 DEF Inv, TypeOK
  <1>7. IdTellsBatch'
    <2> SUFFICES ASSUME NEW d \in Coords
                 PROVE  cells'[d].id = IF first'[d] # "none" THEN update_count
                                       ELSE IF seen'[d] = 0 THEN 4 ELSE Cycle(seen'[d])
      <3>1. update_count' = update_count /\ batch' = batch /\ update_count = Cycle(batch)
        BY <1>1 DEF Inv, IdTellsBatch
      <3>2. QED
        BY <3>1 DEF IdTellsBatch, Cycle
    <2>1. CASE d = c
      BY <1>4, <1>5, <2>1
    <2>2. CASE d # c
      BY <1>4, <1>5, <2>2 DEF Inv, IdTellsBatch
    <2>3. QED
      BY <2>1, <2>2
  <1>8. BatchSoFar'
    <2> SUFFICES ASSUME NEW d \in Coords PROVE cells'[d].log = SoFar(d)'
      BY DEF BatchSoFar
    <2>1. CASE d = c
      BY <1>4, <1>5, <2>1 DEF SoFar, Aliased, Evidence
    <2>2. CASE d # c
      BY <1>1, <1>4, <1>5, <2>2 DEF Inv, BatchSoFar, SoFar, Aliased
    <2>3. QED
      BY <2>1, <2>2
  <1>9. EndsSeen'
    <2> SUFFICES ASSUME NEW d \in Coords, first'[d] # "none", ~Aliased(d)', ends' = {}
                 PROVE  FALSE
      BY DEF EndsSeen
    <2>1. k = "none" /\ ends = {} /\ d # c
      BY <1>1, <1>5
    <2>2. first[d] # "none" /\ ~Aliased(d)
      BY <1>1, <1>5, <2>1 DEF Aliased
    <2>3. QED
      BY <1>1, <2>1, <2>2 DEF Inv, EndsSeen
  <1>10. EndsTaken' /\ DeltaResets'
    BY <1>1, <1>5 DEF Inv, EndsTaken, DeltaResets
  <1>11. QED
    BY <1>6, <1>7, <1>8, <1>9, <1>10 DEF Inv

-----------------------------------------------------------------------------
(* The end of a batch, and a map that is written and read again.           *)

(* A voxel observed by the batch carries the current cycle. *)
LEMMA ObservedIds ==
    ASSUME Inv
    PROVE  \A c \in Observed : cells[c].id = update_count
  BY DEF Inv, IdTellsBatch, Observed

LEMMA UpdateFreeCellsKeepsInv ==
    ASSUME Inv, updateFreeCells
    PROVE  Inv'
  <1> DEFINE rays == (UNION {RayIterator(origin, e) : e \in ends}) \cap Coords
  <1>1. /\ cells' = Misses(cells, rays) /\ ends' = {}
        /\ incrementUpdateCount /\ BatchEnds(Observed \cup rays)
    BY DEF updateFreeCells
  <1>2. cells \in [Coords -> Cell] /\ update_count \in 1 .. 3
    BY DEF Inv, TypeOK
  <1> HIDE DEF rays
  <1>3. /\ Misses(cells, rays) \in [Coords -> Cell]
        /\ \A d \in Coords :
             /\ d \in rays => Misses(cells, rays)[d].id = update_count
             /\ d \notin rays => Misses(cells, rays)[d] = cells[d]
    BY <1>2, MissesFacts
  <1>4. /\ Observed \subseteq Observed \cup rays
        /\ cells' \in [Coords -> Cell]
        /\ \A c \in Coords :
             /\ c \in Observed \cup rays => cells'[c].id = update_count
             /\ c \notin Observed \cup rays => cells'[c] = cells[c]
    BY <1>1, <1>3, ObservedIds
  <1>5. QED
    BY <1>1, <1>4, BatchEndsKeepsInv

LEMMA PreRayTraceKeepsInv ==
    ASSUME Inv, updateFreeCellsPreRayTrace
    PROVE  Inv'
  <1>1. user # "cloud" /\ cells' = cells /\ ends' = {}
    BY DEF updateFreeCellsPreRayTrace
  <1>2. cells \in [Coords -> Cell]
    BY DEF Inv, TypeOK
  <1>3. CASE ends # {}
    <2>1. incrementUpdateCount /\ BatchEnds(Observed)
      BY <1>3 DEF updateFreeCellsPreRayTrace
    <2>2. \A c \in Coords :
             /\ c \in Observed => cells'[c].id = update_count
             /\ c \notin Observed => cells'[c] = cells[c]
      BY <1>1, ObservedIds
    <2>3. QED
      BY <1>1, <1>2, <2>1, <2>2, BatchEndsKeepsInv
  <1>4. CASE ends = {}
    <2>1. /\ first' = [c \in Coords |-> "none"] /\ missed' = {} /\ origin' \in Origins
          /\ UNCHANGED <<update_count, user, batch, seen, start>>
      BY <1>4 DEF updateFreeCellsPreRayTrace
    <2>2. \A c \in Coords : first[c] # "none" => Aliased(c)
      BY <1>1, <1>4 DEF Inv, EndsSeen
    <2>3. TypeOK'
      BY <1>1, <2>1 DEF Inv, TypeOK
    <2>4. IdTellsBatch'
      <3> SUFFICES ASSUME NEW c \in Coords
                   PROVE  cells[c].id = IF seen[c] = 0 THEN 4 ELSE Cycle(seen[c])
        <4>1. update_count' = update_count /\ batch' = batch /\ update_count = Cycle(batch)
          BY <2>1 DEF Inv, IdTellsBatch
        <4>2. QED
          BY <1>1, <2>1, <4>1 DEF IdTellsBatch, Cycle
      <3>1. CASE first[c] = "none"
        BY <3>1 DEF Inv, IdTellsBatch
      <3>2. CASE first[c] # "none"
        <4>1. /\ seen[c] \in Nat \ {0} /\ batch \in Nat \ {0}
              /\ seen[c] % 3 = batch % 3
          BY <2>2, <3>2 DEF Inv, TypeOK, Aliased
        <4>2. cells[c].id = update_count /\ update_count = Cycle(batch)
          BY <3>2 DEF Inv, IdTellsBatch
        <4>3. QED
          BY <4>1, <4>2, CycleFacts
      <3>3. QED
        BY <3>1, <3>2
    <2>5. BatchSoFar'
      <3> SUFFICES ASSUME NEW c \in Coords PROVE cells[c].log = start[c]
        BY <1>1, <2>1 DEF BatchSoFar, SoFar
      <3>1. QED
        BY <2>2 DEF Inv, BatchSoFar, SoFar
    <2>6. EndsTaken' /\ EndsSeen' /\ DeltaResets'
      BY <1>1, <2>1 DEF EndsTaken, EndsSeen, DeltaResets
    <2>7. QED
      BY <2>3, <2>4, <2>5, <2>6 DEF Inv
  <1>5. QED
    BY <1>3, <1>4

LEMMA ReloadKeepsInv ==
    ASSUME Inv, Reload
    PROVE  Inv'
  <1> DEFINE Low(n) == IF n = 0 THEN 0 ELSE IF n % 3 = 0 THEN 3 ELSE n % 3
  <1>1. /\ Observed = {} /\ update_count' = 1 /\ batch' = 1 /\ user # "delta"
        /\ seen' = [c \in Coords |-> Low(seen[c])]
        /\ UNCHANGED <<cells, ends, user, origin, start, first, missed>>
    BY DEF Reload
  <1>2. \A n \in Nat : /\ Low(n) \in Nat /\ (Low(n) = 0 <=> n = 0)
                       /\ n # 0 => Low(n) % 3 = n % 3
    OBVIOUS
  <1> HIDE DEF Low
  <1>3. seen \in [Coords -> Nat] /\ seen' \in [Coords -> Nat]
    BY <1>1, <1>2 DEF Inv, TypeOK
  <1>4. \A c \in Coords : first[c] = "none"
    BY <1>1 DEF Observed
  <1>5. TypeOK'
    BY <1>1, <1>3 DEF Inv, TypeOK
  <1>6. IdTellsBatch'
    <2> SUFFICES ASSUME NEW c \in Coords
                 PROVE  cells[c].id = IF Low(seen[c]) = 0 THEN 4 ELSE Cycle(Low(seen[c]))
      <3>1. update_count' = Cycle(batch')
        BY <1>1 DEF Cycle
      <3>2. QED
        BY <1>1, <1>4, <3>1 DEF IdTellsBatch, Cycle
    <2>1. cells[c].id = IF seen[c] = 0 THEN 4 ELSE Cycle(seen[c])
      BY <1>4 DEF Inv, IdTellsBatch
    <2>2. CASE seen[c] = 0
      BY <1>2, <2>1, <2>2
    <2>3. CASE seen[c] # 0
      <3>1. /\ seen[c] \in Nat \ {0} /\ Low(seen[c]) \in Nat \ {0}
            /\ Low(seen[c]) % 3 = seen[c] % 3
        BY <1>2, <1>3, <2>3
      <3>2. QED
        BY <2>1, <2>3, <3>1, CycleFacts
    <2>4. QED
      BY <2>2, <2>3
  <1>7. BatchSoFar'
    BY <1>1, <1>4 DEF Inv, BatchSoFar, SoFar
  <1>8. EndsTaken'
    <2>1. RayEnds = missed /\ RayEnds' = missed
      BY <1>1, <1>4 DEF RayEnds
    <2>2. QED
      BY <1>1, <2>1 DEF Inv, EndsTaken
  <1>9. EndsSeen' /\ DeltaResets'
    BY <1>1, <1>4 DEF Inv, EndsSeen, DeltaResets
  <1>10. QED
    BY <1>5, <1>6, <1>7, <1>8, <1>9 DEF Inv

-----------------------------------------------------------------------------
LEMMA InitEstablishesInv ==
    ASSUME Init
    PROVE  Inv
  <1>1. DefaultCell \in Cell
    BY OptionsAssumption DEF DefaultCell, Cell
  <1>2. TypeOK
    BY <1>1, OptionsAssumption DEF Init, TypeOK
  <1>3. IdTellsBatch
    BY DEF Init, IdTellsBatch, Cycle, DefaultCell
  <1>4. BatchSoFar
    BY DEF Init, BatchSoFar, SoFar, DefaultCell
  <1>5. EndsTaken /\ EndsSeen /\ DeltaResets
    BY DEF Init, EndsTaken, EndsSeen, DeltaResets, RayEnds
  <1>6. QED
    BY <1>2, <1>3, <1>4, <1>5 DEF Inv

LEMMA NextKeepsInv ==
    ASSUME Inv, [Next]_vars
    PROVE  Inv'
  <1>1. ASSUME NEW c \in Endpoints, addHitPoint(c) PROVE Inv'
    BY <1>1, AddPointKeepsInv DEF addHitPoint
  <1>2. ASSUME NEW c \in Endpoints, addMissPoint(c) PROVE Inv'
    BY <1>2, AddPointKeepsInv DEF addMissPoint
  <1>3. ASSUME NEW e \in Endpoints, NEW k \in Evidence, dispatch(e, k) PROVE Inv'
    BY <1>3, DispatchKeepsInv
  <1>4. ASSUME NEW c \in Coords, NEW k \in Evidence \cup {"none"}, setPoint(c, k)
        PROVE  Inv'
    BY <1>4, SetPointKeepsInv
  <1>5. CASE updateFreeCells
    BY <1>5, UpdateFreeCellsKeepsInv
  <1>6. CASE updateFreeCellsPreRayTrace
    BY <1>6, PreRayTraceKeepsInv
  <1>7. CASE Reload
    BY <1>7, ReloadKeepsInv
  <1>8. CASE UNCHANGED vars
    BY <1>8 DEF vars, members, history, Inv, TypeOK, IdTellsBatch, Cycle, BatchSoFar,
                SoFar, EndsTaken, EndsSeen, RayEnds, Aliased, DeltaResets
  <1>9. QED
    BY <1>1, <1>2, <1>3, <1>4, <1>5, <1>6, <1>7, <1>8 DEF Next, insertPointCloud

LEMMA Invariance == Spec => []Inv
  <1>1. Init => Inv
    BY InitEstablishesInv
  <1>2. Inv /\ [Next]_vars => Inv'
    BY NextKeepsInv
  <1>3. QED
    BY <1>1, <1>2, PTL DEF Spec

(* The log-odds of every voxel stay within the clamps, whatever the order  *)
(* of hits, misses, resets and reloads.                                    *)
THEOREM TypeCorrect == Spec => []TypeOK
  <1>1. Inv => TypeOK
    BY DEF Inv
  <1>2. QED
    BY <1>1, Invariance, PTL

(* What update_id tells of a voxel's past, for any number of batches. *)
THEOREM IdsTellBatches == Spec => []IdTellsBatch
  <1>1. Inv => IdTellsBatch
    BY DEF Inv
  <1>2. QED
    BY <1>1, Invariance, PTL

(* A remote layer shows what a message said last of each of its voxels. *)
THEOREM RemoteEvidenceExact == Spec => []EvidenceExact
  <1>1. Inv => EvidenceExact
    <2> SUFFICES ASSUME Inv, user = "delta", NEW c \in Coords, first[c] # "none"
                 PROVE  /\ first[c] = "hit"  => cells[c].log = AfterHit(Threshold)
                        /\ first[c] = "miss" => cells[c].log = AfterMiss(Threshold)
      BY DEF EvidenceExact
    <2>1. seen[c] = 0 /\ start[c] = Threshold
      BY DEF Inv, DeltaResets
    <2>2. cells[c].log = SoFar(c)
      BY DEF Inv, BatchSoFar
    <2>3. QED
      BY <2>1, <2>2 DEF SoFar, Aliased
  <1>2. QED
    BY <1>1, Invariance, PTL

-----------------------------------------------------------------------------
(* Rays.  The iteration is a recursive function, and no induction theorem  *)
(* can be applied to it.  It is enough that its closed form satisfies its  *)
(* equation (OnAxisSteps), and that two functions that do differ at no     *)
(* first index (LeastIndex).                                               *)

(* Multiples of a number grow with the factor.                             *)
LEMMA Product ==
    ASSUME NEW n \in Nat \ {0}, NEW q \in Int, NEW r \in Int
    PROVE  n * q \in Int /\ n * (q + 1) = n * q + n /\ (q < r => n * q + n <= n * r)
  OBVIOUS

(* Half up: the nearest multiple of n, as a quotient.                      *)
Nearest(k, n) == (2 * k + n) \div (2 * n)

LEMMA NearestIs ==
    ASSUME NEW k \in Int, NEW n \in Nat \ {0}, NEW q \in Int
    PROVE  /\ Nearest(k, n) \in Int
           /\ q = Nearest(k, n) <=> (-n <= 2 * (k - n * q) /\ 2 * (k - n * q) < n)
PROOF
<1> DEFINE a == 2 * k + n
           b == 2 * n
           m == a \div b
<1>1. a \in Int /\ b \in Nat \ {0}
  OBVIOUS
<1> HIDE DEF a, b
<1>2. m \in Int /\ b * m <= a /\ a < b * m + b
  BY <1>1
<1>3. m = Nearest(k, n)
  BY DEF Nearest, a, b
<1> HIDE DEF m
<1>4. \A p \in Int : b * p \in Int /\ b * p = 2 * (n * p) /\ n * p \in Int
  BY DEF b
<1>5. (-n <= 2 * (k - n * q) /\ 2 * (k - n * q) < n) <=> (b * q <= a /\ a < b * q + b)
  BY <1>4 DEF a, b
<1>6. ASSUME b * q <= a, a < b * q + b PROVE q = m
  <2>1. q < m => b * q + b <= b * m
    BY <1>1, <1>2, Product
  <2>2. m < q => b * m + b <= b * q
    BY <1>1, <1>2, Product
  <2> QED BY <1>1, <1>2, <1>4, <1>6, <2>1, <2>2
<1> QED BY <1>2, <1>3, <1>5, <1>6

(* A wrong index has a first.                                              *)
LEMMA LeastIndex ==
    ASSUME NEW n \in Int, NEW B \in SUBSET (0 .. n), B # {}
    PROVE  \E i \in B : i - 1 \notin B /\ \A j \in B : i <= j
PROOF
<1> DEFINE Tail == {{j \in B : j <= i} : i \in B}
<1>1. IsFiniteSet(0 .. n)
  BY FS_Interval
<1>2. Tail \subseteq FiniteSubsetsOf(B)
  BY <1>1, FS_Subset DEF FiniteSubsetsOf
<1>3. PICK T \in Tail : \A U \in Tail : ~ (<<U, T>> \in StrictSubsetOrdering(B))
  <2>1. Tail # {}
    OBVIOUS
  <2>2. IsFiniteSet(B)
    BY <1>1, FS_Subset
  <2> QED BY <1>2, <2>1, <2>2, WFMin, FS_StrictSubsetOrderingWellFounded
<1>4. PICK i \in B : T = {j \in B : j <= i}
  BY <1>3
<1>5. ASSUME NEW j \in B, j < i PROVE FALSE
  <2> DEFINE U == {k \in B : k <= j}
  <2>0. i \in Int /\ j \in Int /\ B \subseteq Int
    OBVIOUS
  <2>1. U \subseteq T /\ i \in T /\ i \notin U
    <3>1. \A k \in B : k <= j => k <= i
      BY <2>0, <1>5
    <3>2. ~(i <= j) /\ i <= i
      BY <2>0, <1>5
    <3> QED BY <1>4, <3>1, <3>2, Zenon
  <2>2. U \in Tail
    OBVIOUS
  <2>3. <<U, T>> \in StrictSubsetOrdering(B)
    BY <1>4, <2>1 DEF StrictSubsetOrdering
  <2> QED BY <1>3, <2>2, <2>3
<1>6. \A j \in B : i <= j
  BY <1>5
<1> QED BY <1>6

(* An axis advances when the rounded fraction does.                        *)
LEMMA NearestSteps ==
    ASSUME NEW d \in Nat, NEW n \in Nat \ {0}, d <= n, NEW i \in Nat
    PROVE  LET p == Nearest(i * d, n)
               error == i * d - n * p + d
           IN  /\ p \in Int /\ error \in Int
               /\ (i + 1) * d - n * (p + 1) = error - n
               /\ Nearest((i + 1) * d, n) = IF 2 * error >= n THEN p + 1 ELSE p
PROOF
<1> DEFINE p == Nearest(i * d, n)
           k == i * d
           np == n * p
<1>1. k \in Int /\ (i + 1) * d = k + d /\ k + d \in Int
  OBVIOUS
<1>2. p \in Int /\ -n <= 2 * (k - np) /\ 2 * (k - np) < n
  BY <1>1, NearestIs
<1>3. np \in Int /\ n * (p + 1) = np + n
  BY <1>2, Product
<1>4. \A q \in Int : q = Nearest(k + d, n)
                       <=> (-n <= 2 * (k + d - n * q) /\ 2 * (k + d - n * q) < n)
  BY <1>1, NearestIs
<1> HIDE DEF k, np, p
<1>5. CASE 2 * (k - np + d) >= n
  <2>1. p + 1 = Nearest(k + d, n)
    BY <1>1, <1>2, <1>3, <1>4, <1>5
  <2> QED BY <1>1, <1>2, <1>3, <1>5, <2>1 DEF k, np, p
<1>6. CASE ~(2 * (k - np + d) >= n)
  <2>1. p = Nearest(k + d, n)
    BY <1>1, <1>2, <1>3, <1>4, <1>6 DEF np
  <2> QED BY <1>1, <1>2, <1>3, <1>6, <2>1 DEF k, np, p
<1> QED BY <1>5, <1>6

(* One step of an axis.                                                    *)
NextOnAxis(w, from, to, max) ==
    LET error == w.error + Distance(from, to)
    IN  IF 2 * error >= max
        THEN [coord |-> IF to < from THEN w.coord - 1 ELSE w.coord + 1, error |-> error - max]
        ELSE [coord |-> w.coord, error |-> error]

(* Where an axis is after i steps, in closed form.                         *)
OnAxis(from, to, max, i) ==
    LET off == Nearest(i * Distance(from, to), max)
    IN  [coord |-> IF to < from THEN from - off ELSE from + off,
         error |-> i * Distance(from, to) - max * off]

LEMMA OnAxisSteps ==
    ASSUME NEW from \in Int, NEW to \in Int, NEW max \in Nat \ {0}, Distance(from, to) <= max,
           NEW i \in Nat
    PROVE  /\ OnAxis(from, to, max, 0) = [coord |-> from, error |-> 0]
           /\ OnAxis(from, to, max, i + 1) = NextOnAxis(OnAxis(from, to, max, i), from, to, max)
PROOF
<1> DEFINE d == Distance(from, to)
           p == Nearest(i * d, max)
           error == i * d - max * p + d
<1>1. d \in Nat
  BY DEF Distance
<1>2. OnAxis(from, to, max, 0) = [coord |-> from, error |-> 0]
  <2>1. 0 * d = 0 /\ max * 0 = 0
    BY <1>1
  <2>2. Nearest(0, max) = 0
    BY NearestIs, <2>1
  <2> QED BY <2>1, <2>2 DEF OnAxis
<1>3. /\ p \in Int /\ error \in Int
      /\ (i + 1) * d - max * (p + 1) = error - max
      /\ Nearest((i + 1) * d, max) = IF 2 * error >= max THEN p + 1 ELSE p
  <2>1. d <= max
    OBVIOUS
  <2> HIDE DEF d
  <2> QED BY <1>1, <2>1, NearestSteps
<1>4. (i + 1) * d - max * p = error /\ max * p \in Int /\ i * d \in Int
  <2>1. (i + 1) * d = i * d + d /\ i * d \in Int /\ max * p \in Int
    BY <1>1, <1>3
  <2> QED BY <1>1, <2>1
<1>5. OnAxis(from, to, max, i + 1) = NextOnAxis(OnAxis(from, to, max, i), from, to, max)
  <2> DEFINE w == OnAxis(from, to, max, i)
             z == OnAxis(from, to, max, i + 1)
  <2>1. /\ w = [coord |-> IF to < from THEN from - p ELSE from + p, error |-> i * d - max * p]
        /\ w.error + d = error
    BY DEF OnAxis
  <2>2. CASE 2 * error >= max
    <3>1. z = [coord |-> IF to < from THEN from - (p + 1) ELSE from + (p + 1), error |-> error - max]
      BY <1>3, <2>2 DEF OnAxis
    <3>2. from - (p + 1) = (from - p) - 1 /\ from + (p + 1) = (from + p) + 1
      BY <1>3
    <3> HIDE DEF error, d, p
    <3> QED BY <2>1, <2>2, <3>1, <3>2 DEF NextOnAxis, d
  <2>3. CASE ~(2 * error >= max)
    <3>1. z = [coord |-> IF to < from THEN from - p ELSE from + p, error |-> error]
      BY <1>3, <1>4, <2>3 DEF OnAxis
    <3> HIDE DEF error, d, p
    <3> QED BY <2>1, <2>3, <3>1 DEF NextOnAxis, d
  <2> QED BY <2>2, <2>3
<1> QED BY <1>2, <1>5

LEMMA AxisWalkIs ==
    ASSUME NEW from \in Int, NEW to \in Int, NEW max \in Nat \ {0}, Distance(from, to) <= max
    PROVE  AxisWalk(from, to, max) = [i \in 0 .. max - 1 |-> OnAxis(from, to, max, i).coord]
PROOF
<1> DEFINE D == 0 .. max - 1
           Walks(g) == g = [i \in D |-> IF i = 0 THEN [coord |-> from, error |-> 0]
                                        ELSE NextOnAxis(g[i - 1], from, to, max)]
           W == CHOOSE g : Walks(g)
           G == [i \in D |-> OnAxis(from, to, max, i)]
<1>1. AxisWalk(from, to, max) = [i \in D |-> W[i].coord]
  BY DEF AxisWalk, NextOnAxis
<1>2. Walks(G)
  <2>1. ASSUME NEW i \in D, i # 0 PROVE G[i] = NextOnAxis(G[i - 1], from, to, max)
    <3>1. i - 1 \in D /\ i - 1 \in Nat /\ (i - 1) + 1 = i
      BY <2>1
    <3>2. OnAxis(from, to, max, (i - 1) + 1)
             = NextOnAxis(OnAxis(from, to, max, i - 1), from, to, max)
      BY <3>1, OnAxisSteps
    <3> QED BY <3>1, <3>2
  <2>2. 0 \in D => G[0] = [coord |-> from, error |-> 0]
    BY OnAxisSteps
  <2> QED BY <2>1, <2>2
<1>3. Walks(W)
  BY <1>2
<1> HIDE DEF W, G
<1>4. ASSUME NEW i \in D, W[i] # G[i] PROVE FALSE
  <2> DEFINE B == {j \in D : W[j] # G[j]}
  <2>1. PICK j \in B : j - 1 \notin B
    <3>1. B \subseteq 0 .. max - 1 /\ B # {} /\ max - 1 \in Int
      BY <1>4
    <3> HIDE DEF B
    <3> QED BY <3>1, LeastIndex
  <2>2. CASE j = 0
    BY <1>2, <1>3, <2>1, <2>2
  <2>3. CASE j # 0
    <3>1. j - 1 \in D
      BY <2>3
    <3>2. W[j - 1] = G[j - 1]
      BY <2>1, <3>1
    <3> QED BY <1>2, <1>3, <2>1, <2>3, <3>2
  <2> QED BY <2>2, <2>3
<1>5. \A i \in D : G[i] = OnAxis(from, to, max, i)
  BY DEF G
<1> QED BY <1>1, <1>4, <1>5

(* Some axis is the longest: a smallest set of axes without a longest would *)
(* have one, that of the others or the one taken away.                     *)
LEMMA LongestIs ==
    ASSUME NEW o \in [Axes -> Int], NEW e \in [Axes -> Int]
    PROVE  Longest(o, e) \in Nat /\ \A a \in Axes : Distance(o[a], e[a]) <= Longest(o, e)
PROOF
<1> DEFINE d(a) == Distance(o[a], e[a])
           Bad == {T \in SUBSET Axes : T # {} /\ \A a \in T : \E b \in T : ~ (d(b) <= d(a))}
<1>1. \A a \in Axes : d(a) \in Nat
  BY DEF Distance
<1> HIDE DEF d
<1>2. IsFiniteSet(Axes) /\ Axes # {}
  BY CoordsAssumption
<1>3. ASSUME Bad # {} PROVE FALSE
  <2>1. PICK T \in Bad : \A U \in Bad : ~ (<<U, T>> \in StrictSubsetOrdering(Axes))
    <3>1. Bad \subseteq FiniteSubsetsOf(Axes)
      BY <1>2, FS_Subset DEF FiniteSubsetsOf
    <3> HIDE DEF Bad
    <3> QED BY <1>2, <1>3, <3>1, WFMin, FS_StrictSubsetOrderingWellFounded
  <2>2. PICK a \in T : TRUE
    BY <2>1
  <2> DEFINE U == T \ {a}
  <2>3. U # {}
    BY <1>1, <2>1, <2>2
  <2>4. <<U, T>> \in StrictSubsetOrdering(Axes)
    BY <2>1, <2>2 DEF StrictSubsetOrdering
  <2>5. PICK b \in U : \A c \in U : d(c) <= d(b)
    BY <2>1, <2>3, <2>4
  <2>6. PICK c \in T : ~ (d(c) <= d(b))
    BY <2>1, <2>5
  <2>7. c = a
    BY <2>5, <2>6
  <2>8. \A x \in T : d(x) <= d(a)
    BY <1>1, <2>1, <2>5, <2>6, <2>7
  <2> QED BY <2>1, <2>2, <2>8
<1>4. PICK a \in Axes : \A b \in Axes : d(b) <= d(a)
  BY <1>2, <1>3
<1>5. \E n \in {Distance(o[b], e[b]) : b \in Axes} : \A b \in Axes : Distance(o[b], e[b]) <= n
  BY <1>4 DEF d
<1>6. /\ Longest(o, e) \in {Distance(o[b], e[b]) : b \in Axes}
      /\ \A b \in Axes : Distance(o[b], e[b]) <= Longest(o, e)
  BY <1>5 DEF Longest
<1> QED BY <1>1, <1>6 DEF d

(* RayIterator visits the voxels of its reference, for any two voxels.     *)
LEMMA RaysAgree ==
    ASSUME NEW o \in [Axes -> Int], NEW e \in [Axes -> Int], NEW c
    PROVE  c \in RayIterator(o, e) <=> OnRay(c, o, e)
PROOF
<1> DEFINE n == Longest(o, e)
<1>1. n \in Nat /\ \A a \in Axes : Distance(o[a], e[a]) <= n
  BY LongestIs
<1>2. ASSUME NEW i \in 0 .. n - 1
      PROVE  RayWalk(o, e)[i] = RayCell(o, e, n, i)
  <2>1. n \in Nat \ {0} /\ i \in Nat
    BY <1>1
  <2>2. RayWalk(o, e)[i] = [a \in Axes |-> AxisWalk(o[a], e[a], n)[i]]
    BY <1>2 DEF RayWalk
  <2>3. ASSUME NEW a \in Axes
        PROVE  AxisWalk(o[a], e[a], n)[i] = RayCell(o, e, n, i)[a]
    <3> DEFINE d == Distance(o[a], e[a])
               off == Nearest(i * d, n)
    <3>1. o[a] \in Int /\ e[a] \in Int /\ d \in Nat
      BY DEF Distance
    <3>2. AxisWalk(o[a], e[a], n) = [j \in 0 .. n - 1 |-> OnAxis(o[a], e[a], n, j).coord]
      <4> HIDE DEF n
      <4> QED BY <1>1, <2>1, <3>1, AxisWalkIs
    <3>3. AxisWalk(o[a], e[a], n)[i] = IF e[a] < o[a] THEN o[a] - off ELSE o[a] + off
      BY <3>2 DEF OnAxis
    <3>4. 2 * i * d = 2 * (i * d)
      BY <2>1, <3>1
    <3>5. RayCell(o, e, n, i)[a] = IF e[a] < o[a] THEN o[a] - off ELSE o[a] + off
      BY <3>4 DEF RayCell, Nearest
    <3> QED BY <3>3, <3>5
  <2>4. RayCell(o, e, n, i) = [a \in Axes |-> RayCell(o, e, n, i)[a]]
    BY DEF RayCell
  <2> QED BY <2>2, <2>3, <2>4
<1>3. DOMAIN RayWalk(o, e) = 0 .. n - 1
  BY DEF RayWalk
<1> QED BY <1>2, <1>3 DEF RayIterator, OnRay

-----------------------------------------------------------------------------
(* A batch changes each voxel by its first evidence, or by the rays when it *)
(* has none, and once.                                                     *)
LEMMA BatchResultOfStep ==
    ASSUME Inv, Next, batch' = batch + 1, NEW c \in Coords
    PROVE  cells'[c].log = ExpectedLog(c)
  <1>1. /\ cells \in [Coords -> Cell] /\ update_count \in 1 .. 3 /\ batch \in Nat \ {0}
        /\ first \in [Coords -> Evidence \cup {"none"}]
        /\ origin \in Origins /\ ends \subseteq Coords
        /\ cells[c].log = SoFar(c)
    BY DEF Inv, TypeOK, BatchSoFar
  <1>2. updateFreeCells \/ updateFreeCellsPreRayTrace
    <2>1. batch' # batch /\ batch' # 1
      BY <1>1
    <2>2. /\ \A e : ~addHitPoint(e) /\ ~addMissPoint(e)
          /\ \A e, k : ~dispatch(e, k) /\ ~setPoint(e, k)
      BY <2>1 DEF addHitPoint, addMissPoint, dispatch, setPoint, Observes
    <2>3. ~Reload
      BY <2>1 DEF Reload
    <2>4. QED
      BY <2>2, <2>3 DEF Next, insertPointCloud
  <1>3. CASE updateFreeCellsPreRayTrace
    <2>1. user # "cloud" /\ cells' = cells
      BY <1>3 DEF updateFreeCellsPreRayTrace
    <2>2. QED
      BY <1>1, <2>1 DEF SoFar, ExpectedLog
  <1>4. CASE updateFreeCells
    <2> DEFINE rays == (UNION {RayIterator(origin, e) : e \in ends}) \cap Coords
    <2>1. user = "cloud" /\ cells' = Misses(cells, rays)
      BY <1>4 DEF updateFreeCells
    <2>2. ends = RayEnds
      BY <2>1 DEF Inv, EndsTaken
    <2>3. c \in rays <=> \E e \in RayEnds : OnRay(c, origin, e)
      <3>1. RayEnds \subseteq [Axes -> Int] /\ origin \in [Axes -> Int]
        BY <1>1, <2>2, CoordsAssumption
      <3>2. \A e \in RayEnds : c \in RayIterator(origin, e) <=> OnRay(c, origin, e)
        BY <3>1, RaysAgree
      <3>3. c \in rays <=> \E e \in RayEnds : c \in RayIterator(origin, e)
        BY <2>2
      <3>4. QED
        BY <3>2, <3>3
    <2> HIDE DEF rays
    <2>4. /\ c \notin rays => cells'[c] = cells[c]
          /\ c \in rays /\ IsNew(cells, c) => cells'[c].log = AfterMiss(cells[c].log)
          /\ ~IsNew(cells, c) => cells'[c].log = cells[c].log
      BY <1>1, <2>1, MissesFacts
    <2>5. CASE IsNew(cells, c)
      <3>1. first[c] = "none" /\ ~Aliased(c)
        BY <2>5, NewMeans
      <3>2. QED
        BY <1>1, <2>1, <2>3, <2>4, <2>5, <3>1 DEF SoFar, ExpectedLog
    <2>6. CASE ~IsNew(cells, c)
      <3>1. first[c] # "none" \/ Aliased(c)
        BY <2>6, NewMeans
      <3>2. QED
        BY <1>1, <2>4, <2>6, <3>1 DEF SoFar, ExpectedLog, Evidence
    <2>7. QED
      BY <2>5, <2>6
  <1>5. QED
    BY <1>2, <1>3, <1>4

(* Every batch is summarised right, whoever owns the map.                  *)
THEOREM BatchResultHolds == Spec => BatchResult
  <1>1. Inv /\ [Next]_vars
          => [batch' = batch + 1 => \A c \in Coords : cells'[c].log = ExpectedLog(c)]_vars
    BY BatchResultOfStep
  <1>2. QED
    BY <1>1, Invariance, PTL DEF Spec, BatchResult

=============================================================================
