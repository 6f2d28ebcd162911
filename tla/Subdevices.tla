------------------------------ MODULE Subdevices -------------------------------
(***************************************************************************)
(* Several appliances behind one connection (registry/subdevices.py): the  *)
(* probe that finds them, the rewriting of hrefs that lets one catalogue   *)
(* serve them all, and the discovery that binds each one's resources and   *)
(* leaves out the slots nothing is installed in.                           *)
(*                                                                         *)
(* An href is [pre, res, n]: the id it is prefixed with or NoId, what it   *)
(* is the path of, and its trailing index.  The rep of a resource is       *)
(* abstracted to what discovery tells apart: "empty", "bare" (none of the  *)
(* fields an entity reads), "full", "opt" (full, and with the option some  *)
(* entities depend on), or, for the identity resource, a device type.      *)
(***************************************************************************)
EXTENDS Naturals, FiniteSetsExt, SequencesExt, Functions, TLC

CONSTANTS
    NoId,       \* an href without a prefix
    LowerId,    \* the ids, each with its lower-case form
    NoType,     \* what resolve_registry answers for an unknown type
    Caps,       \* the catalogue: for each type, its descriptors
    Preferred   \* the hrefs probed first, where an id has no Collection

Ids == DOMAIN LowerId
Href(pre, res, n) == [pre |-> pre, res |-> res, n |-> n]
Master(res) == Href(NoId, res, 0)

NoBatch == <<>>
Types == DOMAIN Caps

-----------------------------------------------------------------------------
(* Subdevice *)

Main == [kind |-> "main", index |-> 0, id |-> NoId, flat |-> {}]
Indexed(n) == [kind |-> "indexed", index |-> n, id |-> NoId, flat |-> {}]
Prefixed(id, flat) == [kind |-> "prefixed", index |-> 0, id |-> id, flat |-> flat]

\* What the entry's options and the registries know a subdevice by
KeyOf(su) == <<su.index, su.id>>

\* to_actual
ToActual(su, href) ==
    CASE su.kind = "indexed" /\ href.n = 0 -> [href EXCEPT !.n = su.index]
      [] su.kind = "prefixed"              -> [href EXCEPT !.pre = su.id]
      [] OTHER                             -> href

\* owns; the master owns what no other does
Owns(su, href) ==
    CASE su.kind = "indexed"  -> href.n = su.index
      [] su.kind = "prefixed" -> href.pre = su.id
      [] su.kind = "main"     -> FALSE

\* to_canonical, of an href it owns
ToCanonical(su, href) ==
    CASE su.kind = "indexed"  -> [href EXCEPT !.n = 0]
      [] su.kind = "prefixed" -> [href EXCEPT !.pre = NoId]
      [] su.kind = "main"     -> href

OwnedBy(subs, href) == \E su \in subs : Owns(su, href)

CanonicalView(su, resources, subs) ==
    IF su.kind = "main"
    THEN Restrict(resources, {h \in DOMAIN resources : ~OwnedBy(subs, h)})
    ELSE LET own == {h \in DOMAIN resources : Owns(su, h)}
         IN  [c \in {ToCanonical(su, h) : h \in own} |-> resources[ToActual(su, c)]]

\* normalize_seed_batch: a batch may leave the prefix out
Normalized(su, batch) ==
    IF su.kind # "prefixed"
    THEN batch
    ELSE [h \in {[b EXCEPT !.pre = su.id] : b \in DOMAIN batch} |->
            IF h \in DOMAIN batch THEN batch[h] ELSE batch[[h EXCEPT !.pre = NoId]]]

-----------------------------------------------------------------------------
(* What an appliance serves, as [main, batches, props, listed, links]:     *)
(* its own resources, the Collections, the resources that answer by        *)
(* themselves, the ids it lists, and its other links in /oic/res.  quiet   *)
(* is the set of hrefs that do not answer this time.                       *)

ReadBatch(app, quiet, seed) ==
    IF seed \in DOMAIN app.batches \ quiet THEN app.batches[seed] ELSE NoBatch

Answering(app, quiet, hrefs) == hrefs \intersect (DOMAIN app.props \ quiet)

Seed(su) ==
    IF su.kind = "indexed" THEN Href(NoId, "device", su.index) ELSE Href(su.id, "device", 0)

-----------------------------------------------------------------------------
(* enumerate_subdevices: acc is [subs, fetched, probed, left] -- left is   *)
(* how many more probes the shared deadline leaves time for                *)

\* A set in some fixed order
Listing(S) == FoldSet(LAMBDA e, seq : Append(seq, e), <<>>, S)

\* Preferred hrefs first, then the others, each in the order they sort
ProbeOrder(resources) ==
    LET first == DOMAIN resources \intersect Preferred
    IN  Listing(first) \o Listing(DOMAIN resources \ first)

\* The resources of the master, asked for one by one under an id's prefix
FlatCandidate(app, quiet, resources, acc, id) ==
    LET order == ProbeOrder(resources)
        asked == SubSeq(order, 1, Min({acc.left, Len(order)}))
        found == Answering(app, quiet, {[h EXCEPT !.pre = id] : h \in Range(asked)})
        after == [acc EXCEPT !.left = @ - Len(asked)]
    IN  IF found = {}
        THEN after
        ELSE [after EXCEPT !.subs = Append(@, Prefixed(id, {[h EXCEPT !.pre = NoId] : h \in found})),
                           !.fetched = Restrict(app.props, found) @@ @]

\* An id's Collection, or else its resources one by one
AskedFor(app, quiet, resources, acc, id) ==
    LET batch == ReadBatch(app, quiet, Href(id, "device", 0))
        asked == [acc EXCEPT !.left = @ - 1, !.probed = @ \union {LowerId[id]}]
    IN  CASE acc.left = 0 -> acc
          [] acc.left > 0 /\ batch = NoBatch -> FlatCandidate(app, quiet, resources, asked, id)
          [] OTHER -> [asked EXCEPT !.subs = Append(@, Prefixed(id, {})),
                                    !.fetched = Normalized(Prefixed(id, {}), batch) @@ @]

\* _probe_prefixed: once for an id, however it is spelled
TryPrefixed(app, quiet, resources, acc, id) ==
    IF LowerId[id] \in acc.probed THEN acc ELSE AskedFor(app, quiet, resources, acc, id)

\* The indices linked, or a bounded guess: the third slot only after the second
LinkedIndices(app) ==
    {l.href.n : l \in {l \in app.links : l.href.pre = NoId /\ l.href.res = "device"}} \ {0}

Indices(app) ==
    IF LinkedIndices(app) = {} THEN <<1, 2, 3>> ELSE SetToSortSeq(LinkedIndices(app), <)

TryIndex(app, quiet, acc, n) ==
    LET speculated == LinkedIndices(app) = {} /\ n = 3 /\ Indexed(2) \notin Range(acc.subs)
        batch == ReadBatch(app, quiet, Href(NoId, "device", n))
    IN  IF acc.left = 0 \/ speculated
        THEN acc
        ELSE IF batch = NoBatch
        THEN [acc EXCEPT !.left = @ - 1]
        ELSE [acc EXCEPT !.left = @ - 1, !.subs = Append(@, Indexed(n)), !.fetched = batch @@ @]

\* Only a link of the multi-device type speaks for a sibling
LinkedIds(app) == {l.href.pre : l \in {l \in app.links : l.multi}} \ {NoId}

Enumerated(app, quiet, resources, limit) ==
    LET start    == [subs |-> <<>>, fetched |-> NoBatch, probed |-> {}, left |-> limit]
        Probe(acc, id) == TryPrefixed(app, quiet, resources, acc, id)
        listed   == FoldLeft(Probe, start, Listing(app.listed))
        linked   == FoldLeft(Probe, listed, Listing(LinkedIds(app)))
    IN  FoldLeft(LAMBDA acc, n : TryIndex(app, quiet, acc, n), linked, Indices(app))

-----------------------------------------------------------------------------
(* discover, flatten and the gate.  A descriptor is [key, res, any, on,    *)
(* platform, primary, meter, reads]: whether it binds to any index of res  *)
(* or only to index 0, and what it reads -- "rep", "field" or "option"     *)
(* (present only with the option).                                         *)

TypeOf(view) ==
    IF Master("info") \in DOMAIN view /\ view[Master("info")] \in Types \ {NoType}
    THEN view[Master("info")]
    ELSE NoType

\* The exact descriptors of an href, or else the pattern ones
Descriptors(type, href) ==
    LET exact == {d \in Caps[type] : ~d.any /\ d.res = href.res /\ href.n = 0}
    IN  IF exact # {} THEN exact ELSE {d \in Caps[type] : d.any /\ d.res = href.res}

Discovered(su, view, type) ==
    UNION {{[sub |-> KeyOf(su), href |-> ToActual(su, h), n |-> h.n, desc |-> d] :
              d \in Descriptors(type, h)} : h \in DOMAIN view}

\* _key: what the registries know an entity by
EntityKey(b) == <<b.sub, b.desc.key, b.n>>

HasField(rep) == rep \in {"full", "opt"}

\* Whether the entity's value is anything but None
HasValue(b, resources) ==
    LET rep == resources[b.href]
    IN  CASE b.desc.reads = "option" -> rep = "opt"
          [] b.desc.reads = "field"  -> HasField(rep)
          [] b.desc.reads = "rep"    -> rep # "empty"

\* _has_live_primary_entity
HasLivePrimary(bound, resources) ==
    \E b \in bound : b.desc.primary /\ ~b.desc.meter /\ HasValue(b, resources)

\* A subdevice's own type, or the master's
BoundOf(su, resources, subs, master) ==
    LET view == CanonicalView(su, resources, subs)
        own  == TypeOf(view)
    IN  Discovered(su, view, IF own = NoType THEN master ELSE own)

\* discover_partitioned
Partitioned(resources, subs) ==
    LET cands  == Range(subs)
        main   == CanonicalView(Main, resources, cands)
        master == TypeOf(main)
        Bind(su) == BoundOf(su, resources, cands, master)
        Live(su) == HasLivePrimary(Bind(su), resources)
        live   == SelectSeq(subs, Live)
    IN  [bound |-> Discovered(Main, main, master) \union UNION {Bind(su) : su \in Range(live)},
         live  |-> live]

\* entity._is_included: what a platform registers
Included(b, resources) ==
    /\ b.href \in DOMAIN resources
    /\ \/ b.desc.reads = "rep"
       \/ b.desc.reads = "option" /\ resources[b.href] = "opt"
       \/ b.desc.reads = "field" /\ (resources[b.href] = "empty" \/ HasField(resources[b.href]))

Registered(bound, resources) == {EntityKey(b) : b \in {b \in bound : Included(b, resources)}}
BoundKeys(bound) == {EntityKey(b) : b \in bound}

=============================================================================
