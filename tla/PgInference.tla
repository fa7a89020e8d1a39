---------------------------- MODULE PgInference ----------------------------
(***************************************************************************)
(* Schema changes inferred from the PostgreSQL stream                      *)
(* (internal/pgcapture/ddlinfer.go) and the shapes they are compared with  *)
(* (internal/metadata/pgshapes.go).                                        *)
(*                                                                         *)
(* The stream carries no DDL.  It describes a table (its OID, name and     *)
(* columns) before the first change of a session and after a shape change, *)
(* and each description is compared with the shape the table had just      *)
(* before it IN THE STREAM, so that a transaction resent after a restart   *)
(* is compared as it was the first time.                                   *)
(*                                                                         *)
(* A position is the commit LSN of a transaction, and stands for its       *)
(* commit time too: the two grow together.  Position 0 is "none".          *)
(*                                                                         *)
(* The state of one run is a function from the OIDs it knows (byOID) to    *)
(*   versions   shapes in stream order: name, cols, seen, live (observed   *)
(*              by this process), blind (stored while inference was off)   *)
(*   low        commit of the last change decoded under the current shape  *)
(*   releases   points where another table took a name of this one         *)
(***************************************************************************)
EXTENDS Integers, SequencesExt

CONSTANTS
    Scope,   \* names of the captured tables (the --schemas/--tables filters)
    Gone     \* the name of a relation the catalog does not hold

knownRel == [versions |-> << >>, low |-> 0, releases |-> {}]

With(s, oid, k) == [o \in DOMAIN s \cup {oid} |-> IF o = oid THEN k ELSE s[o]]

-----------------------------------------------------------------------------
(***************************************************************************)
(* What a run knows of one table.                                          *)
(***************************************************************************)
\* at: a version described before the transaction that commits at lsn, or by
\* this process in that transaction.
InEffect(v, lsn) == ~v.blind /\ (v.seen < lsn \/ (v.live /\ v.seen = lsn))

VersionsAt(k, lsn) == {i \in DOMAIN k.versions : InEffect(k.versions[i], lsn)}

at(k, lsn) == k.versions[Max(VersionsAt(k, lsn))]

released(k, name, from, before) ==
    \E r \in k.releases :
        /\ r.name = name /\ r.lsn >= from
        /\ r.lsn < before \/ (r.live /\ r.lsn = before)

addRelease(k, r) ==
    LET same == {x \in k.releases : x.name = r.name /\ x.lsn = r.lsn}
    IN  [k EXCEPT !.releases =
            (@ \ same) \cup {[r EXCEPT !.live = @ \/ \E x \in same : x.live]}]

\* add: versions stay in stream order, the newest of one position last.
add(k, v) ==
    LET before == Cardinality({i \in DOMAIN k.versions : k.versions[i].seen <= v.seen})
    IN  [k EXCEPT !.versions =
            SubSeq(@, 1, before) \o <<v>> \o SubSeq(@, before + 1, Len(@))]

noteChange(s, oid, lsn) ==
    IF oid \in DOMAIN s THEN [s EXCEPT ![oid].low = lsn] ELSE s

-----------------------------------------------------------------------------
(***************************************************************************)
(* What the index holds at the start of a run: snaps is schema_snapshots   *)
(* (the snapshot id is the index), changes the recorded schema changes.    *)
(***************************************************************************)
\* Stream order of stored shapes: by position seen, then by snapshot.
EarlierIn(snaps, i, j) ==
    snaps[i].seen < snaps[j].seen \/ (snaps[i].seen = snaps[j].seen /\ i < j)

\* latestPGShapes: the newest compared shape seen before from, and every
\* shape after it in stream order.
LoadPGShapes(snaps, oid, from) ==
    LET ids   == {i \in DOMAIN snaps : snaps[i].oid = oid}
        base  == {i \in ids : snaps[i].seen < from /\ ~snaps[i].blind}
        start == {i \in base : \A j \in base : ~EarlierIn(snaps, i, j)}
    IN  {i \in ids : \A b \in start : ~EarlierIn(snaps, i, b)}

Stored(snap) == [name |-> snap.name, cols |-> snap.cols, seen |-> snap.seen,
                 live |-> FALSE, blind |-> snap.blind]

\* loadKnownReleases: the recorded DROP and RENAME rows, by their old name.
Releases(changes, oid) ==
    {[name |-> changes[i].name, lsn |-> changes[i].lsn, live |-> FALSE] :
        i \in {j \in DOMAIN changes :
                  changes[j].oid = oid /\ changes[j].kind \in {"drop", "rename"}}}

newInferState(snaps, changes, from) ==
    LET oids == {snaps[i].oid : i \in DOMAIN snaps}
                \cup {changes[i].oid : i \in {j \in DOMAIN changes :
                         changes[j].kind \in {"drop", "rename"}}}
        shapes(o) == SetToSortSeq(LoadPGShapes(snaps, o, from),
                                  LAMBDA i, j : EarlierIn(snaps, i, j))
    IN  [o \in oids |->
            [versions |-> [n \in DOMAIN shapes(o) |-> Stored(snaps[shapes(o)[n]])],
             low |-> 0, releases |-> Releases(changes, o)]]

-----------------------------------------------------------------------------
(***************************************************************************)
(* A description m = [oid, name, cols] in the transaction at lsn.          *)
(* env: start    OIDs the publication covered when the run started         *)
(*      live     the catalog as it is now, OID -> name or Gone             *)
(*      indexed  the rows in the index, [name, lsn]                        *)
(***************************************************************************)
\* lastIndexedChange; 0 when there is none.
LastChange(indexed, name, before) ==
    Max({r.lsn : r \in {x \in indexed : x.name = name /\ x.lsn < before}} \cup {0})

BlindBetween(k, from, before) ==
    \E i \in DOMAIN k.versions :
        /\ k.versions[i].blind
        /\ k.versions[i].seen >= from /\ k.versions[i].seen < before

lowFor(k, prev, high, indexed) ==
    IF k.low # 0 /\ k.low < high THEN k.low
    ELSE IF BlindBetween(k, prev.seen, high) THEN prev.seen
    ELSE Max({LastChange(indexed, prev.name, high)}
             \cup {p \in {prev.seen} : p < high})

\* An inferred row: name is the table it is filed under (the old name of a
\* rename), low 0 is a bracket without a start.
ddlEvent(kind, oid, name, low, high) ==
    [type |-> "ddl", kind |-> kind, oid |-> oid, name |-> name, low |-> low, lsn |-> high]

\* holderAt: the tables other than oid that hold name in the stream at lsn,
\* the ones described last.
holders(s, name, oid, lsn) ==
    LET all == {o \in DOMAIN s \ {oid} :
                  /\ VersionsAt(s[o], lsn) # {}
                  /\ at(s[o], lsn).name = name
                  /\ ~released(s[o], name, at(s[o], lsn).seen, lsn)}
    IN  {o \in all : \A p \in all : at(s[p], lsn).seen <= at(s[o], lsn).seen}

Current(m, lsn) == [name |-> m.name, cols |-> m.cols, seen |-> lsn,
                    live |-> TRUE, blind |-> FALSE]

Only(cond, e) == IF cond THEN <<e>> ELSE << >>

\* A table with a shape in effect: renamed, altered, both or neither.  An
\* ALTER under a name that is not captured is left out (ddlInScope).
observeKnown(s, m, lsn, env) ==
    LET k       == s[m.oid]
        prev    == at(k, lsn)
        renamed == prev.name # m.name /\ ~released(k, prev.name, prev.seen, lsn)
        altered == prev.cols # m.cols
        low     == lowFor(k, prev, lsn, env.indexed)
    IN  [s   |-> With(s, m.oid,
                      add([k EXCEPT !.low = IF renamed \/ altered THEN 0 ELSE @],
                          Current(m, lsn))),
         out |-> Only(renamed /\ {prev.name, m.name} \cap Scope # {},
                      ddlEvent("rename", m.oid, prev.name, low, lsn))
                 \o Only(altered /\ m.name \in Scope,
                         ddlEvent("alter", m.oid, m.name, low, lsn))]

\* A new table under a name that another one held: that one gave it up.
observeTaken(s, m, lsn, env, holder) ==
    LET k    == s[holder]
        kind == IF env.live[holder] = Gone THEN "drop" ELSE "rename"
        low  == lowFor([k EXCEPT !.low = 0], at(k, lsn), lsn, env.indexed)
        gave == [addRelease(k, [name |-> m.name, lsn |-> lsn, live |-> TRUE])
                   EXCEPT !.low = 0]
    IN  [s   |-> With(With(s, m.oid, add(knownRel, Current(m, lsn))), holder, gave),
         out |-> IF m.name \in Scope
                 THEN <<ddlEvent(kind, holder, m.name, low, lsn),
                        ddlEvent("create", m.oid, m.name, 0, lsn)>>
                 ELSE << >>]

\* Any other new table; one the publication already covered is version zero.
observeNew(s, m, lsn, env) ==
    [s   |-> With(s, m.oid, add(knownRel, Current(m, lsn))),
     out |-> Only(m.name \in Scope /\ m.oid \notin env.start,
                  ddlEvent("create", m.oid, m.name, 0, lsn))]

\* PostgreSQL resends the start of what the index holds: learn the shape.
observeResent(s, m, lsn) ==
    [s |-> With(s, m.oid, add(s[m.oid], Current(m, lsn))), out |-> << >>]

observe(s, m, lsn, env) ==
    IF m.oid \in DOMAIN s
    THEN {IF VersionsAt(s[m.oid], lsn) # {}
          THEN observeKnown(s, m, lsn, env) ELSE observeResent(s, m, lsn)}
    ELSE IF holders(s, m.name, m.oid, lsn) # {}
    THEN {observeTaken(s, m, lsn, env, h) : h \in holders(s, m.name, m.oid, lsn)}
    ELSE {observeNew(s, m, lsn, env)}

-----------------------------------------------------------------------------
(***************************************************************************)
(* inferredCounter: the n-th change of one kind and table in a transaction *)
(* is a resend when the index already holds more than n - 1 of them.       *)
(***************************************************************************)
family(kind) == IF kind \in {"drop", "rename"} THEN "gone" ELSE kind

\* Mutated: a DROP and a RENAME are different changes.
SameChange_ByKind(c, e) ==
    c.lsn = e.lsn /\ c.oid = e.oid /\ c.name = e.name /\ c.kind = e.kind

SameChange(c, e) ==
    /\ c.lsn = e.lsn /\ c.oid = e.oid /\ c.name = e.name
    /\ family(c.kind) = family(e.kind)

counterKey(e) == <<e.lsn, e.oid, family(e.kind)>>

recorded(changes, e, emitted) ==
    Cardinality({i \in DOMAIN changes : SameChange(changes[i], e)})
        > Cardinality({i \in DOMAIN emitted : emitted[i] = counterKey(e)})
=============================================================================
