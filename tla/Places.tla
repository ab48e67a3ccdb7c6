------------------------------- MODULE Places -------------------------------
(***************************************************************************)
(* The places an organisation puts on the purchase map                     *)
(* (places.service.ts): at most PlaceLimit at a time, written by several   *)
(* people at once, each change in the audit log with the state before it.  *)
(* create counts and inserts behind advisory lock 3 of the organisation;   *)
(* update and remove read the place first and write it under a condition.  *)
(***************************************************************************)
EXTENDS Naturals, Sequences, FiniteSets

CONSTANTS
  Clerks,                    \* people of the organisation, one request each
  PlaceIds,                 \* ids of places, none used twice
  PlaceLimit,               \* PLACES_PER_ORG_LIMIT
  MaxLog                    \* bound: no update is begun with a log of this length

ASSUME PlacesAssumption == PlaceLimit \in Nat

VARIABLES
  places,                   \* id -> "none" | "live" | "deleted"
  priced,                   \* places that carry prices
  holder,                   \* who holds lock 3, as a set of at most one desk
  work,                     \* desk -> its request
  entitledToPrices,         \* the plan has map:prices today
  placeLog                  \* the audit log, oldest first

placeVars == <<places, priced, holder, work, entitledToPrices, placeLog>>

NoWork == [step |-> "idle"]
LivePlaces == {p \in PlaceIds : places[p] = "live"}
LogPlace(action, p) == placeLog' = Append(placeLog, [action |-> action, place |-> p])
Done(d) == work' = [work EXCEPT ![d] = NoWork]

PlacesInit ==
  /\ places = [p \in PlaceIds |-> "none"]
  /\ priced = {}
  /\ holder = {}
  /\ work = [d \in Clerks |-> NoWork]
  /\ entitledToPrices \in BOOLEAN
  /\ placeLog = << >>

(* Slip: the count is taken without the lock. *)
CountUnlocked(d) ==
  /\ work[d].step = "idle"
  /\ work' = [work EXCEPT ![d] = [step |-> "counted", used |-> Cardinality(LivePlaces)]]
  /\ UNCHANGED <<places, priced, holder, entitledToPrices, placeLog>>

LockAndCount(d) ==
  /\ work[d].step = "idle"
  /\ holder = {}
  /\ holder' = {d}
  /\ work' = [work EXCEPT ![d] = [step |-> "counted", used |-> Cardinality(LivePlaces)]]
  /\ UNCHANGED <<places, priced, entitledToPrices, placeLog>>

(* create: the place and its audit row are committed together; so is nothing *)
(* when the limit is reached or prices are asked for without the plan.       *)
CreatePlace(d, p, withPrices) ==
  /\ work[d].step = "counted"
  /\ work[d].used < PlaceLimit
  /\ withPrices => entitledToPrices
  /\ places[p] = "none"
  /\ places' = [places EXCEPT ![p] = "live"]
  /\ priced' = IF withPrices THEN priced \cup {p} ELSE priced
  /\ LogPlace("created", p)
  /\ holder' = holder \ {d}
  /\ Done(d)
  /\ UNCHANGED entitledToPrices

CreateRefused(d) ==
  /\ work[d].step = "counted"
  /\ work[d].used >= PlaceLimit \/ ~entitledToPrices
  /\ holder' = holder \ {d}
  /\ Done(d)
  /\ UNCHANGED <<places, priced, entitledToPrices, placeLog>>

(* update and remove: findOwned, then a conditional write. *)
FindOwned(d, p, op) ==
  /\ work[d].step = "idle"
  /\ places[p] = "live"
  /\ op = "update" => Len(placeLog) < MaxLog
  /\ work' = [work EXCEPT ![d] = [step |-> op, place |-> p]]
  /\ UNCHANGED <<places, priced, holder, entitledToPrices, placeLog>>

UpdatePlace(d) ==
  LET p == work[d].place
  IN  /\ work[d].step = "update"
      /\ places[p] = "live"
      /\ \/ UNCHANGED priced
         \/ priced' = priced \ {p}
         \/ entitledToPrices /\ priced' = priced \cup {p}
      /\ LogPlace("updated", p)
      /\ Done(d)
      /\ UNCHANGED <<places, holder, entitledToPrices>>

RemovePlace(d) ==
  /\ work[d].step = "remove"
  /\ places[work[d].place] = "live"
  /\ places' = [places EXCEPT ![work[d].place] = "deleted"]
  /\ LogPlace("deleted", work[d].place)
  /\ Done(d)
  /\ UNCHANGED <<priced, holder, entitledToPrices>>

PlaceGone(d) ==
  /\ work[d].step \in {"update", "remove"}
  /\ places[work[d].place] # "live"
  /\ Done(d)
  /\ UNCHANGED <<places, priced, holder, entitledToPrices, placeLog>>

(* The plan lapses or is renewed. *)
PlanTurns ==
  /\ entitledToPrices' = ~entitledToPrices
  /\ UNCHANGED <<places, priced, holder, work, placeLog>>

PlacesNext ==
  \/ \E d \in Clerks :
       \/ LockAndCount(d) \/ CreateRefused(d) \/ UpdatePlace(d) \/ RemovePlace(d) \/ PlaceGone(d)
       \/ \E p \in PlaceIds :
            \/ \E withPrices \in BOOLEAN : CreatePlace(d, p, withPrices)
            \/ \E op \in {"update", "remove"} : FindOwned(d, p, op)
  \/ PlanTurns

PlacesSpec == PlacesInit /\ [][PlacesNext]_placeVars

-----------------------------------------------------------------------------
(* However many people place at once, the organisation never has more live  *)
(* places than the limit (create behind lock 3).                            *)
PlacesWithinLimit == Cardinality(LivePlaces) <= PlaceLimit

(* The log tells each place's life once and in order: created once, deleted *)
(* once when it is, and never touched afterwards (the row counts of         *)
(* updateMany).                                                             *)
LogTellsLives ==
  \A i \in DOMAIN placeLog :
    LET p == placeLog[i].place
    IN  /\ placeLog[i].action = "created" <=> \A j \in 1..(i - 1) : placeLog[j].place # p
        /\ placeLog[i].action = "deleted" =>
             /\ places[p] = "deleted"
             /\ \A j \in DOMAIN placeLog : placeLog[j].place = p => j <= i

(* The limit of the plan holds, and the audit log tells which places live.  *)
PlacesSound == PlacesWithinLimit /\ LogTellsLives
=============================================================================
