----------------------------- MODULE Redaction -----------------------------
(***************************************************************************)
(* What the public story withholds (internal/story compose.go): farmers'   *)
(* personal data, exact coordinates and the terms of sale.  These are pure *)
(* functions on decoded JSON; a step makes one document public.            *)
(*                                                                         *)
(* JSON values are tagged.  Coordinates are in thousandths of a degree, so *)
(* that two decimals are multiples of ten; the rounding of float64 itself  *)
(* is left out.  "Email" stands for the keys that differ in case, one key  *)
(* of each list for the whole list.                                        *)
(***************************************************************************)
EXTENDS Integers, Functions, Sequences

CONSTANTS
  PreciseGeo,   \* story.Options.PreciseGeo
  RawEntities,  \* the farmers and farms that projections may hold
  Previews,     \* the previews SCM may answer
  MaxDepth      \* bound on nesting; encoding/json has one, too

VARIABLE doc  \* the document at hand: what it was and what is made of it

NoDoc == [kind |-> "none"]

RedactionInit == doc = NoDoc

Number(n) == [is |-> "number", v |-> n]
Text(t)   == [is |-> "text", v |-> t]
Object(m) == [is |-> "object", v |-> m]
Array(s)  == [is |-> "array", v |-> s]

(* What is nested in j, level by level: it stands for no pass over j. *)
Children(x) == IF x.is \in {"object", "array"} THEN {x.v[k] : k \in DOMAIN x.v} ELSE {}
Levels(j) ==
  LET at[n \in 0..MaxDepth] == IF n = 0 THEN {j} ELSE UNION {Children(x) : x \in at[n - 1]}
  IN at
Within(j) == UNION {Levels(j)[n] : n \in 0..MaxDepth}

(* Not as deep as the bound, and its numbers are numbers. *)
IsDocument(j) ==
  /\ Levels(j)[MaxDepth] = {}
  /\ \A x \in Within(j) : x.is = "number" => x.v \in Int

ASSUME RedactionAssumption ==
  /\ PreciseGeo \in BOOLEAN
  /\ MaxDepth \in Nat
  /\ \A raw \in RawEntities : IsDocument(Object(raw))
  /\ \A preview \in Previews : preview.is = "object" /\ IsDocument(preview)

With(entry, field, value) ==
  [k \in DOMAIN entry \cup {field} |-> IF k = field THEN value ELSE entry[k]]
Without(entry, keys) == Restrict(entry, DOMAIN entry \ keys)
numField(data, k) == k \in DOMAIN data /\ data[k].is = "number"
strMapField(data, k) == k \in DOMAIN data /\ data[k].is = "text" /\ data[k].v # ""

ToLower(k) == IF k = "Email" THEN "email" ELSE k
sensitivePublicKeys == {"phone", "email", "lat", "lng", "location"}
commercialKeys == {"buyer", "price"}

(* Mutant of round2: the branch for negative values is missing. *)
round2Positive(v) == IF v + 5 >= 0 THEN (v + 5) \div 10 ELSE -((-v - 5) \div 10)

(* round2, in hundredths: half away from zero.  int64() cuts toward zero. *)
round2(v) == IF v >= 0 THEN (v + 5) \div 10 ELSE -((-v + 5) \div 10)

publicCoord(v) == Number(IF PreciseGeo THEN v ELSE 10 * round2(v))

(* publicCoords of the two fields, as the "map" entry. *)
publicMap(data) == Object([lat |-> publicCoord(data["lat"].v), lng |-> publicCoord(data["lng"].v)])

HasLocation(data) == "location" \in DOMAIN data /\ data["location"].is = "object"
HasCoords(data) == numField(data, "lat") /\ numField(data, "lng")

(* The two halves of sanitizePublicGeo: the nested location, then lat and lng. *)
FromLocation(entry) ==
  IF ~HasLocation(entry) THEN entry
  ELSE LET loc    == entry["location"].v
           named  == IF strMapField(loc, "district") THEN With(entry, "district", loc["district"]) ELSE entry
           placed == IF HasCoords(loc) THEN With(named, "map", publicMap(loc)) ELSE named
       IN Without(placed, {"location"})

FromLatLng(entry) ==
  IF ~numField(entry, "lat") THEN entry
  ELSE LET placed == IF HasCoords(entry) THEN With(entry, "map", publicMap(entry)) ELSE entry
       IN Without(placed, {"lat", "lng"})

sanitizePublicGeo(entry) == FromLatLng(FromLocation(entry))

Sweep(entry) == Without(entry, {k \in DOMAIN entry : ToLower(k) \in sensitivePublicKeys})

(* The map and the district are derived before their sources are swept away. *)
redactPublicEntity(entry) == Sweep(sanitizePublicGeo(entry))

(* stripCommercial: the keys go, here and in everything nested. *)
stripCommercial(j) ==
  LET strip[x \in Within(j)] ==
        CASE x.is = "object" -> Object([k \in DOMAIN x.v \ commercialKeys |-> strip[x.v[k]]])
          [] x.is = "array"  -> Array([n \in DOMAIN x.v |-> strip[x.v[n]]])
          [] OTHER           -> x
  IN strip[j]

(* sanitizePreviewEntities: the entities are redacted where farmers and farms
   are arrays of objects; anything else under those keys is left as it is. *)
RedactedElement(x) == IF x.is = "object" THEN Object(redactPublicEntity(x.v)) ELSE x
RedactedArray(a) == IF a.is = "array" THEN Array([n \in DOMAIN a.v |-> RedactedElement(a.v[n])]) ELSE a

sanitizePreviewEntities(preview) ==
  LET stripped == stripCommercial(preview).v
  IN Object([k \in DOMAIN stripped |->
               IF k \in {"farmers", "farms"} THEN RedactedArray(stripped[k]) ELSE stripped[k]])

----------------------------------------------------------------------------
(* enrichFarms- and enrichFarmersFromProjections, for one entry. *)
PublishEntity ==
  /\ doc = NoDoc
  /\ \E raw \in RawEntities : doc' = [kind |-> "entity", raw |-> raw, public |-> redactPublicEntity(raw)]

(* composeLotProjection, when SCM answers with its preview. *)
PublishPreview ==
  /\ doc = NoDoc
  /\ \E raw \in Previews : doc' = [kind |-> "preview", raw |-> raw, public |-> sanitizePreviewEntities(raw)]

RedactionNext == PublishEntity \/ PublishPreview

RedactionSpec == RedactionInit /\ [][RedactionNext]_doc

----------------------------------------------------------------------------
(* The keys of the objects in j. *)
Keys(j) == UNION {DOMAIN x.v : x \in {y \in Within(j) : y.is = "object"}}

(* Nearest multiple of ten, the one further from zero when there are two. *)
Coarse(v, shown) ==
  /\ shown % 10 = 0
  /\ IF v >= 0 THEN shown - v \in -4..5 ELSE v - shown \in -4..5

(* The source of the public coordinates: the entry's own before its location's. *)
Source(raw) ==
  IF HasCoords(raw) THEN raw
  ELSE IF HasLocation(raw) /\ HasCoords(raw["location"].v)
    THEN raw["location"].v
    ELSE << >>

(* out is raw made public. *)
EntityRedacted(raw, out) ==
  /\ \A k \in DOMAIN out : ToLower(k) \notin sensitivePublicKeys
  /\ IF Source(raw) # << >>
       THEN /\ "map" \in DOMAIN out
            /\ \A c \in {"lat", "lng"} :
                 LET shown == out["map"].v[c].v
                 IN IF PreciseGeo THEN shown = Source(raw)[c].v ELSE Coarse(Source(raw)[c].v, shown)
       ELSE ("map" \in DOMAIN out <=> "map" \in DOMAIN raw) /\ ("map" \in DOMAIN raw => out["map"] = raw["map"])
  /\ HasLocation(raw) /\ strMapField(raw["location"].v, "district")
       => "district" \in DOMAIN out /\ out["district"] = raw["location"].v["district"]
  /\ "name" \in DOMAIN raw => "name" \in DOMAIN out /\ out["name"] = raw["name"]
  /\ redactPublicEntity(out) = out

(* What is left of an object: all that is not commercial, its scalars as they are. *)
IsLeftOf(left, entry) ==
  /\ DOMAIN left = DOMAIN entry \ commercialKeys
  /\ \A k \in DOMAIN left : entry[k].is \notin {"object", "array"} => left[k] = entry[k]

(* The public story withholds what it promises to and no more.  Of a farmer or a
   farm: no key of the denylist, whatever its case; coordinates to two decimals
   and next to the exact ones (or these, with PreciseGeo), wherever those came
   from; the location's district; the name; and a second pass changes nothing.
   Of a preview: no term of sale at any depth, nothing but those lost, and what
   is left of its farmers and farms redacted like any other's.  Coordinates
   that come under "map" with none beside them are passed on as they are. *)
RedactionSafe ==
  /\ doc.kind = "entity" => EntityRedacted(doc.raw, doc.public)
  /\ doc.kind = "preview" =>
       LET raw  == doc.raw.v
           left == stripCommercial(doc.raw).v
           out  == doc.public.v
       IN /\ Keys(doc.public) \cap commercialKeys = {}
          /\ DOMAIN out = DOMAIN raw \ commercialKeys /\ IsLeftOf(left, raw)
          /\ \A key \in {"farmers", "farms"} :
               key \in DOMAIN raw /\ raw[key].is = "array" =>
                 \A n \in DOMAIN raw[key].v :
                   raw[key].v[n].is = "object" =>
                     /\ IsLeftOf(left[key].v[n].v, raw[key].v[n].v)
                     /\ EntityRedacted(left[key].v[n].v, out[key].v[n].v)
============================================================================
