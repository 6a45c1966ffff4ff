---------------------------- MODULE SearchIndex ----------------------------
(***************************************************************************)
(* The search index: the tables that are made from the notes of the vault,   *)
(* and the pass of the indexer that brings them up to date.                  *)
(*                                                                         *)
(* A pass is one process, syncMu sees to that.  Its statements are not one    *)
(* transaction: each may fail and the process may stop between any two, the   *)
(* user edits the vault meanwhile, and the next pass has to find what is left *)
(* to do in the tables alone.                                               *)
(*                                                                         *)
(* A hash is the text it is made of.  Embeddings and profiles are enabled.    *)
(* The limits of the backfills are left out.  They count the notes that fail  *)
(* as well, and each pass starts at the first note again: as many notes as    *)
(* the limit that fail in every pass would keep the later ones waiting for    *)
(* ever.  The backfill of the chunks, the one EventuallyIndexed speaks of, is *)
(* called without a limit.                                                  *)
(***************************************************************************)
EXTENDS Naturals, FiniteSets

CONSTANTS
    Notes, Texts,
    Chunks(_),          \* the chunks of a text, each with its kind and place
    OldChunks(_),       \* what the chunker made of it before the upgrade
    Cards,              \* profiles that the language model may write
    Nothing,
    MaxEdits, MaxFaults

\* The chunker numbers the chunks of a text in their order.
ASSUME SearchAssumption ==
    /\ Nothing \notin Texts
    /\ MaxEdits \in Nat
    /\ MaxFaults \in Nat
    /\ \A t \in Texts : \A S \in {Chunks(t), OldChunks(t)} :
          /\ \A c \in S : c = [kind |-> c.kind, ord |-> c.ord, text |-> c.text] /\ c.ord \in Nat
          /\ \A c, d \in S : c.ord = d.ord => c = d

VARIABLES
    vault,      \* Notes -> text and metadata of the file
    mount,      \* what a walk of the vault finds: all of it, nothing, errors
    rows,       \* notes, note_chunks and chunk_embeddings, by note
    cards,      \* note_profiles and profile_embeddings, by note
    ix,         \* the pass: where it is and what it has in memory
    missing,    \* notes that were not there when the vault was walked
    inherited,  \* notes whose row the version before the upgrade has written
    edits, faults

tables == <<rows, cards>>
files == <<vault, mount>>
vars == <<vault, mount, rows, cards, ix, missing, inherited, edits, faults>>

-----------------------------------------------------------------------------
(***************************************************************************)
(* The tables.  DELETE FROM notes takes what depends on the note with it.     *)
(***************************************************************************)

NoRow == [text |-> Nothing, meta |-> 0, chunked |-> "none", embedded |-> FALSE, chunks |-> {}]
NoCard == [source |-> Nothing, card |-> Nothing, current |-> FALSE]
NoVector == [source |-> Nothing, of |-> Nothing, current |-> FALSE]

Known == {n \in Notes : rows[n].text # Nothing}

Lexical(n) == {[kind |-> c.kind, ord |-> c.ord, text |-> c.text] : c \in rows[n].chunks}

SameKey(c, d) == c.kind = d.kind /\ c.ord = d.ord

\* MUTANT of NotesNeedingChunks: chunks of an old version are left as they are.
NotesNeedingChunks_OnlyNew == {n \in Known : rows[n].chunked = "none"}

\* What is left to do is read from the tables.
NotesNeedingChunks == {n \in Known : rows[n].chunked # "current"}

NotesNeedingEmbeddings ==
    {n \in Known : /\ rows[n].chunked = "current"
                   /\ ~rows[n].embedded \/ \E c \in rows[n].chunks : c.vector = Nothing}

NotesNeedingProfiles ==
    {n \in Known : cards[n].profile.source # rows[n].text \/ ~cards[n].profile.current}

\* The vectors that SearchProfilesByVector compares are those with the source
\* and the version of a profile that is itself current.
VectorFits(n) ==
    /\ cards[n].vector.source = cards[n].profile.source
    /\ cards[n].vector.current = cards[n].profile.current

ProfilesNeedingEmbeddings ==
    {n \in Known : n \notin NotesNeedingProfiles /\ ~VectorFits(n)}

\* The vectors that SearchByVector compares.
Compared(n) ==
    IF rows[n].embedded THEN {c \in rows[n].chunks : c.vector # Nothing} ELSE {}

-----------------------------------------------------------------------------
(***************************************************************************)
(* A pass.  It goes through phases, each with its list of notes; what fails   *)
(* for one note is left and the pass takes the next one.                     *)
(***************************************************************************)

Idle == [at |-> "idle", phase |-> "none", force |-> FALSE, todo |-> {}, listed |-> {},
         known |-> {}, note |-> Nothing, meta |-> 0, text |-> Nothing,
         write |-> {}, stale |-> {}, changed |-> FALSE]

Phases == <<"files", "chunks", "embeddings", "profiles", "vectors", "deletes">>

Todo(phase) ==
    CASE phase = "chunks" -> NotesNeedingChunks
      [] phase = "embeddings" -> NotesNeedingEmbeddings
      [] phase = "profiles" -> NotesNeedingProfiles
      [] phase = "vectors" -> ProfilesNeedingEmbeddings
      [] phase = "deletes" -> ix.known \ ix.listed

After(phase) == Phases[1 + CHOOSE i \in 1..5 : Phases[i] = phase]

At(place) == ix.at = place
Go(place) == ix' = [ix EXCEPT !.at = place]
Skip == Go("next")

Stays == UNCHANGED <<vault, mount, missing, inherited, edits, faults>>

\* SyncOnce from the scheduler or Reindex, ForceReindex from Reindex alone.
Begin ==
    /\ At("idle")
    /\ \/ ix' = [Idle EXCEPT !.at = "walk"] /\ UNCHANGED edits
       \/ /\ edits < MaxEdits /\ edits' = edits + 1
          /\ ix' = [Idle EXCEPT !.at = "reset", !.force = TRUE]
    /\ UNCHANGED <<files, tables, missing, inherited, faults>>

\* InvalidateNoteProfiles: two statements, profiles and then their vectors.
InvalidateProfiles ==
    /\ At("reset") /\ Go("reset_vectors")
    /\ cards' = [n \in Notes |-> [cards[n] EXCEPT !.profile.current = FALSE]]
    /\ Stays /\ UNCHANGED rows

InvalidateVectors ==
    /\ At("reset_vectors") /\ Go("walk")
    /\ cards' = [n \in Notes |-> [cards[n] EXCEPT !.vector.current = FALSE]]
    /\ Stays /\ UNCHANGED rows

Present == {n \in Notes : vault[n].text # Nothing}

\* MUTANT of Listing: what an incomplete walk did find is taken for all.
Listing_DespiteErrors == {IF mount = "empty" THEN {} ELSE IF mount = "ok" THEN Present ELSE l :
                              l \in SUBSET Present}

\* discoverFiles: a walk with errors gives no list.
Listing == CASE mount = "ok" -> {Present} [] mount = "empty" -> {{}} [] OTHER -> {}

Walk ==
    /\ At("walk")
    /\ IF Listing = {} THEN ix' = Idle /\ UNCHANGED missing
       ELSE \E l \in Listing :
              /\ ix' = [ix EXCEPT !.at = "next", !.phase = "files", !.todo = l,
                                  !.listed = l, !.known = Known]
              /\ missing' = IF mount = "empty" THEN Notes ELSE Notes \ Present
    /\ UNCHANGED <<files, tables, inherited, edits, faults>>

\* A backfill of the chunks leaves the embeddings to the next one.
FirstStep ==
    [files |-> "stat", chunks |-> "list_chunks", embeddings |-> "embed", profiles |-> "extract",
     vectors |-> "embed_profile", deletes |-> "delete"]

\* The loops of syncFiles, of the backfills and of the deletions.
Take ==
    /\ At("next")
    /\ IF ix.todo # {}
         THEN \E n \in ix.todo :
                ix' = [ix EXCEPT !.at = FirstStep[ix.phase], !.note = n, !.todo = @ \ {n},
                                 !.text = IF ix.phase = "files" THEN Nothing ELSE rows[n].text]
         ELSE IF ix.phase = "deletes" THEN ix' = Idle
         ELSE LET phase == After(ix.phase)
              IN  ix' = [ix EXCEPT !.phase = phase, !.todo = Todo(phase), !.note = Nothing]
    /\ Stays /\ UNCHANGED tables

-----------------------------------------------------------------------------
(***************************************************************************)
(* syncFile                                                                 *)
(***************************************************************************)

Readable(n) == mount = "ok" /\ vault[n].text # Nothing

\* The size and the time of the file say whether it need be read.
Stat ==
    /\ At("stat")
    /\ LET n == ix.note
       IN  ix' = [ix EXCEPT
                   !.meta = vault[n].meta,
                   !.at = IF \/ ~Readable(n)
                             \/ ~ix.force /\ n \in ix.known /\ rows[n].meta = vault[n].meta
                          THEN "next" ELSE "read"]
    /\ Stays /\ UNCHANGED tables

Read ==
    /\ At("read")
    /\ LET n == ix.note
           text == vault[n].text
       IN  ix' = [ix EXCEPT !.text = text,
                    !.at = IF ~Readable(n) THEN "next"
                           ELSE IF ~ix.force /\ n \in ix.known /\ rows[n].text = text
                           THEN "touch" ELSE "upsert"]
    /\ Stays /\ UNCHANGED tables

\* MUTANT of SeenMeta: the file is looked at again when the row is written.
SeenMeta_Again == vault[ix.note].meta

\* What the file looked like before it was read.
SeenMeta == ix.meta

TouchNoteMeta ==
    /\ At("touch") /\ Skip
    /\ rows' = [rows EXCEPT ![ix.note].meta = SeenMeta]
    /\ Stays /\ UNCHANGED cards

\* MUTANT of Upserted: the vectors of the former text stay in the search.
Upserted_KeepsVectors(row) == [row EXCEPT !.text = ix.text, !.meta = SeenMeta, !.chunked = "none"]

Upserted(row) ==
    [row EXCEPT !.text = ix.text, !.meta = SeenMeta, !.chunked = "none", !.embedded = FALSE]

UpsertNote ==
    /\ At("upsert") /\ Go("list_chunks")
    /\ rows' = [rows EXCEPT ![ix.note] = Upserted(@)]
    /\ inherited' = inherited \ {ix.note}
    /\ UNCHANGED <<files, cards, missing, edits, faults>>

-----------------------------------------------------------------------------
(***************************************************************************)
(* reindexChunks, of a file that was read or of a stored text.               *)
(***************************************************************************)

\* The rows of the chunks are compared before they are written.
ListChunks ==
    /\ At("list_chunks")
    /\ LET wanted == Chunks(ix.text)
           stale == {c \in Lexical(ix.note) : ~\E d \in wanted : SameKey(c, d)}
       IN  ix' = [ix EXCEPT !.at = "write_chunks", !.write = wanted, !.stale = stale,
                            !.changed = stale # {} \/ wanted \ Lexical(ix.note) # {}]
    /\ Stays /\ UNCHANGED tables

\* ON CONFLICT DO UPDATE keeps the row, and so the vector that depends on it.
UpsertChunk ==
    /\ At("write_chunks") /\ ix.write # {}
    /\ LET n == ix.note
           place == CHOOSE i \in {c.ord : c \in ix.write} : \A c \in ix.write : i <= c.ord
           c == CHOOSE d \in ix.write : d.ord = place
           former == {d \in rows[n].chunks : SameKey(c, d)}
           vector == IF former = {} THEN Nothing ELSE (CHOOSE d \in former : TRUE).vector
       IN  /\ rows' = [rows EXCEPT ![n].chunks = (@ \ former) \cup {
                         [kind |-> c.kind, ord |-> c.ord, text |-> c.text, vector |-> vector]}]
           /\ ix' = [ix EXCEPT !.write = @ \ {c}]
    /\ Stays /\ UNCHANGED cards

DeleteChunksByID ==
    /\ At("write_chunks") /\ ix.write = {}
    /\ Go(IF ix.changed THEN "invalidate" ELSE "mark_chunks")
    /\ rows' = [rows EXCEPT ![ix.note].chunks =
                   {c \in @ : ~\E d \in ix.stale : SameKey(c, d)}]
    /\ Stays /\ UNCHANGED cards

InvalidateNoteEmbeddings ==
    /\ At("invalidate") /\ Go("mark_chunks")
    /\ rows' = [rows EXCEPT ![ix.note].embedded = FALSE]
    /\ Stays /\ UNCHANGED cards

MarkNoteChunksCurrent ==
    /\ At("mark_chunks") /\ Go(IF ix.phase = "files" THEN "embed" ELSE "next")
    /\ rows' = [rows EXCEPT ![ix.note].chunked = "current"]
    /\ Stays /\ UNCHANGED cards

-----------------------------------------------------------------------------
(***************************************************************************)
(* reindexEmbeddings, and the profiles with theirs.                          *)
(***************************************************************************)

\* Only what was embedded from another text is embedded again (a forced pass
\* embeds all, to the vectors that are there).
UpsertChunkEmbedding ==
    /\ At("embed")
    /\ LET todo == {c \in rows[ix.note].chunks : c.vector # c.text}
       IN  IF todo = {} THEN Go("mark_embedded") /\ UNCHANGED rows
           ELSE /\ \E c \in todo : rows' = [rows EXCEPT ![ix.note].chunks =
                      (@ \ {c}) \cup {[c EXCEPT !.vector = c.text]}]
                /\ UNCHANGED ix
    /\ Stays /\ UNCHANGED cards

MarkNoteEmbeddingsCurrent ==
    /\ At("mark_embedded") /\ Skip
    /\ rows' = [rows EXCEPT ![ix.note].embedded = TRUE]
    /\ Stays /\ UNCHANGED cards

\* The model writes another card each time it is asked.
UpsertNoteProfile ==
    /\ At("extract") /\ Skip
    /\ \E card \in Cards :
          cards' = [cards EXCEPT ![ix.note].profile =
                      [source |-> ix.text, card |-> card, current |-> TRUE]]
    /\ Stays /\ UNCHANGED rows

UpsertProfileEmbedding ==
    /\ At("embed_profile") /\ Skip
    /\ cards' = [cards EXCEPT ![ix.note].vector =
                   [source |-> cards[ix.note].profile.source, of |-> cards[ix.note].profile.card,
                    current |-> TRUE]]
    /\ Stays /\ UNCHANGED rows

\* An empty list is reported as one that deletes nothing; it deletes all.
DeleteNote ==
    /\ At("delete") /\ Skip
    /\ rows' = [rows EXCEPT ![ix.note] = NoRow]
    /\ cards' = [cards EXCEPT ![ix.note] = [profile |-> NoCard, vector |-> NoVector]]
    /\ inherited' = inherited \ {ix.note}
    /\ UNCHANGED <<files, missing, edits, faults>>

Pass ==
    \/ Begin \/ InvalidateProfiles \/ InvalidateVectors \/ Walk \/ Take
    \/ Stat \/ Read \/ TouchNoteMeta \/ UpsertNote
    \/ ListChunks \/ UpsertChunk \/ DeleteChunksByID
    \/ InvalidateNoteEmbeddings \/ MarkNoteChunksCurrent
    \/ UpsertChunkEmbedding \/ MarkNoteEmbeddingsCurrent
    \/ UpsertNoteProfile \/ UpsertProfileEmbedding \/ DeleteNote

-----------------------------------------------------------------------------
(***************************************************************************)
(* Failures and the user.                                                   *)
(***************************************************************************)

\* A statement or a call fails: before the list of files is there it ends the
\* pass, in a query of a backfill the phase, and later the note is left.
Fails ==
    /\ faults < MaxFaults /\ faults' = faults + 1
    /\ ~At("idle") /\ (At("next") => ix.phase \notin {"files", "deletes"})
    /\ ix' = IF ix.at \in {"reset", "reset_vectors", "walk"} THEN Idle
             ELSE IF At("next") THEN [ix EXCEPT !.todo = {}]
             ELSE [ix EXCEPT !.at = "next"]
    /\ UNCHANGED <<files, tables, missing, inherited, edits>>

Crash ==
    /\ faults < MaxFaults /\ faults' = faults + 1
    /\ ~At("idle") /\ ix' = Idle
    /\ UNCHANGED <<files, tables, missing, inherited, edits>>

\* The time of a file changes whenever it is written.
Edit ==
    /\ edits < MaxEdits /\ edits' = edits + 1
    /\ \E n \in Notes, t \in Texts \cup {Nothing} :
          vault' = [vault EXCEPT ![n] = [text |-> t, meta |-> edits + 2]]
    /\ UNCHANGED <<mount, tables, ix, missing, inherited, faults>>

\* The volume is not mounted, or parts of it cannot be read.
Unmount ==
    /\ faults < MaxFaults /\ faults' = faults + 1
    /\ mount = "ok" /\ mount' \in {"empty", "broken"}
    /\ UNCHANGED <<vault, tables, ix, missing, inherited, edits>>

Mount ==
    /\ mount # "ok" /\ mount' = "ok"
    /\ UNCHANGED <<vault, tables, ix, missing, inherited, edits, faults>>

\* A row that the version before the upgrade has left.
OldRow(t) ==
    [text |-> t, meta |-> 1, chunked |-> "old", embedded |-> TRUE,
     chunks |-> {[kind |-> c.kind, ord |-> c.ord, text |-> c.text, vector |-> c.text] :
                   c \in OldChunks(t)}]

Init ==
    /\ \E t \in Texts :
          /\ vault = [n \in Notes |-> [text |-> t, meta |-> 1]]
          /\ rows \in [Notes -> {NoRow, OldRow(t)}]
    /\ mount = "ok"
    /\ cards = [n \in Notes |-> [profile |-> NoCard, vector |-> NoVector]]
    /\ ix = Idle
    /\ missing = {} /\ inherited = Known
    /\ edits = 0 /\ faults = 0

Next == Pass \/ Fails \/ Crash \/ Edit \/ Unmount \/ Mount

Spec == Init /\ [][Next]_vars

\* The ticker of the scheduler starts the next pass; a volume comes back.
FairSpec == Spec /\ WF_vars(Pass) /\ WF_vars(Mount)

-----------------------------------------------------------------------------
(***************************************************************************)
(* Properties.                                                              *)
(***************************************************************************)

\* A file that is skipped, because its time and size are those of its row, has
\* the text of its row, whenever it was edited.
SkippedIsSame ==
    \A n \in Known : rows[n].meta = vault[n].meta => rows[n].text = vault[n].text

VectorsMatch(n) == \A c \in Compared(n) : c.vector = c.text

ProfileMatches(n) ==
    n \notin NotesNeedingProfiles /\ VectorFits(n) => cards[n].vector.of = cards[n].profile.card

\* Whatever passes failed or stopped, and whatever was edited meanwhile: the chunks
\* of a note that is marked are those of its text, and the vectors of a note that
\* was read by this version are made of the chunks the search compares them for.
\* What the former version left is brought up to date by passes that nothing
\* disturbs, and their profiles have vectors of their own.
VectorsAreCurrent ==
    \A n \in Known :
        /\ rows[n].chunked = "current" => Lexical(n) = Chunks(rows[n].text)
        /\ n \notin inherited => VectorsMatch(n)
        /\ faults = 0 => ProfileMatches(n) /\ (At("idle") => VectorsMatch(n))

\* "interrupted deployments resume safely even if some chunk rows were already
\* written": the pass that leaves nothing to do leaves no vector of another chunk.
ResumesSafely ==
    At("idle") /\ NotesNeedingChunks = {} /\ NotesNeedingEmbeddings = {} =>
        \A n \in Known : VectorsMatch(n)

\* A note leaves the index only when it was not there while the vault was
\* walked, and not when the walk failed to see it.
DroppedWereGone == [][\A n \in Known : rows'[n] = NoRow => n \in missing]_vars

\* Once nobody edits and nothing fails, every note of the vault is found by the
\* chunks of its text.
EventuallyIndexed ==
    <>[](\A n \in Present : rows[n].text = vault[n].text /\ Lexical(n) = Chunks(vault[n].text))

\* "An entirely empty listing against a non-empty index ... Never purge."
NeverPurged == [][(\E n \in Known : rows'[n] = NoRow) => ix.listed # {}]_vars

=============================================================================
