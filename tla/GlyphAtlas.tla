------------------------------- MODULE GlyphAtlas -------------------------------
(***************************************************************************)
(* The editor's glyph atlas and the images of it that scenes carry         *)
(* (crates/alpine-text-layout/src/lib.rs, crates/alpine-scene/src/lib.rs). *)
(* The atlas is a texture in main memory, filled on demand, that grows up  *)
(* to a budget and then evicts what was least recently used.  A scene      *)
(* carries an immutable image of it: a full base and the rows that have    *)
(* changed since, cumulatively and since the image before.                 *)
(*                                                                         *)
(* Abstraction: every glyph takes one row, so a rectangle is its row, and  *)
(* a row's pixels are the glyph drawn there.  Rows are not packed; the     *)
(* merging of dirty ranges, which only adds unchanged rows, and glyphs     *)
(* without pixels are left out.  Use counters become the order of entries. *)
(***************************************************************************)
EXTENDS Integers, Sequences, FiniteSets, SequencesExt

CONSTANTS
    Glyphs,         \* what the user's text may show
    Blank,          \* pixels of a row nothing is drawn in
    NoImage,        \* no image has been published
    FirstRows,      \* size of the first allocation
    MaxRows,        \* what the atlas budget holds
    MaxPatches      \* rows that are sure to fit MAX_GLYPH_ATLAS_ROW_PATCHES

Pixel == Glyphs \union {Blank}
Patching == UNION {[rows -> Pixel] : rows \in SUBSET (1..MaxRows)}

(* GlyphAtlasImage: a base, and the rows changed since it and since the    *)
(* image of revision `source'.                                             *)
Image ==
    [base : Nat, source : Nat, revision : Nat, pixels : Seq(Pixel),
     patches : Patching, delta : Patching]

ASSUME AtlasAssumption ==
    /\ FirstRows \in Nat \ {0} /\ MaxRows \in Nat /\ FirstRows <= MaxRows
    /\ MaxPatches \in Nat
    /\ Blank \notin Glyphs /\ NoImage \notin Image

Clean(revision) == [source |-> revision, rows |-> {}, full |-> FALSE]

NewAtlas == [pixels |-> <<>>, revision |-> 0, entries |-> <<>>, dirty |-> Clean(0)]

IsClean(dirty) == dirty.rows = {} /\ ~dirty.full

Dirtied(dirty, revision, row) ==
    IF dirty.full THEN dirty
    ELSE [dirty EXCEPT !.source = IF IsClean(dirty) THEN revision ELSE @,
                       !.rows = @ \union {row}]

(* copy_bitmap and clear_rect. *)
Draw(a, row, pixel) ==
    [a EXCEPT !.pixels[row] = pixel, !.dirty = Dirtied(@, a.revision, row),
              !.revision = @ + 1]

---------------------------------------------------------------------------
(* Finding and placing a glyph. *)
Cached(a, g) == \E k \in DOMAIN a.entries : a.entries[k].glyph = g
PlaceOf(a, g) == CHOOSE k \in DOMAIN a.entries : a.entries[k].glyph = g
EntryOf(a, g) == a.entries[PlaceOf(a, g)]
FreeRows(a) == DOMAIN a.pixels \ {a.entries[k].row : k \in DOMAIN a.entries}

(* A hit makes the entry the most recently used. *)
Hit(a, g) ==
    [a EXCEPT !.entries = Append(RemoveAt(@, PlaceOf(a, g)), EntryOf(a, g))]

Grown(a) == IF a.pixels = <<>> THEN FirstRows ELSE 2 * Len(a.pixels)

(* grow: a larger texture with the old pixels in place, all of it dirty. *)
Grow(a) ==
    [a EXCEPT !.pixels = @ \o [i \in 1..(Grown(a) - Len(@)) |-> Blank],
              !.revision = @ + 1,
              !.dirty = [source |-> IF IsClean(@) THEN a.revision ELSE @.source,
                         rows |-> {}, full |-> TRUE]]

EvictOldest(a) ==
    Draw([a EXCEPT !.entries = Tail(@)], Head(a.entries).row, Blank)

(* insert_miss: a free rectangle, a larger atlas, or the oldest one's. *)
MakeRoom(a) ==
    IF FreeRows(a) # {} THEN a
    ELSE IF Grown(a) <= MaxRows THEN Grow(a) ELSE EvictOldest(a)

InsertMiss(a, g) ==
    LET b == MakeRoom(a)
        row == CHOOSE r \in FreeRows(b) : TRUE
    IN  [Draw(b, row, g) EXCEPT !.entries = Append(@, [glyph |-> g, row |-> row])]

Lookup(a, g) == IF Cached(a, g) THEN Hit(a, g) ELSE InsertMiss(a, g)

(* collect_glyphs: the atlas after a sequence of glyphs, and where each of *)
(* them is drawn from.                                                     *)
Collect(a, glyphs) ==
    LET collected[n \in 0..Len(glyphs)] ==
            IF n = 0 THEN [atlas |-> a, placed |-> {}]
            ELSE LET b == Lookup(collected[n - 1].atlas, glyphs[n])
                 IN  [atlas |-> b,
                      placed |-> collected[n - 1].placed \union {EntryOf(b, glyphs[n])}]
    IN  collected[Len(glyphs)]

---------------------------------------------------------------------------
(* Images.  Only the image of a full publication allocates pixels, so the  *)
(* revision of the base also stands for the identity of its storage.       *)
FullImage(revision, pixels) ==
    [base |-> revision, source |-> revision, revision |-> revision,
     pixels |-> pixels, patches |-> <<>>, delta |-> <<>>]

(* Some rows laid over others. *)
Over(f, g) == [r \in DOMAIN f \union DOMAIN g |-> IF r \in DOMAIN f THEN f[r] ELSE g[r]]

(* What the image shows: its base under its cumulative patches. *)
Content(image) == Over(image.patches, image.pixels)

Merged(patches, delta) == Over(delta, patches)

(* advance_with_row_patches: too many patches make a new full base.  How    *)
(* many patches some rows make depends on which of them are neighbours.    *)
Advanced(image, revision, delta) ==
    LET merged == Merged(image.patches, delta)
        patched == [image EXCEPT !.source = image.revision, !.revision = revision,
                                 !.patches = merged, !.delta = delta]
        full == FullImage(revision, Over(merged, image.pixels))
    IN  IF Cardinality(DOMAIN merged) > MaxPatches THEN {patched, full} ELSE {patched}

(* publication_since and publish_atlas_if_needed, as the set of images that *)
(* may result: the last one when nothing is new, one advanced by the       *)
(* changed rows when these start where it ends, or everything.             *)
Published(a, image) ==
    IF image # NoImage /\ image.revision = a.revision THEN {image}
    ELSE IF \/ image = NoImage
            \/ Len(image.pixels) # Len(a.pixels)
            \/ a.dirty.full
            \/ a.dirty.source # image.revision
         THEN {FullImage(a.revision, a.pixels)}
         ELSE Advanced(image, a.revision, [r \in a.dirty.rows |-> a.pixels[r]])

(* acknowledge_publication, unless nothing was published. *)
Acknowledged(a, image) ==
    IF image # NoImage /\ image.revision = a.revision THEN a
    ELSE [a EXCEPT !.dirty = Clean(a.revision)]
===============================================================================
