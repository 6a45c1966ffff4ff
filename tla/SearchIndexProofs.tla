------------------------- MODULE SearchIndexProofs -------------------------
(***************************************************************************)
(* Proofs about SearchIndex, for any notes, texts, chunkers and bounds.       *)
(***************************************************************************)
EXTENDS SearchIndex, WellFoundedInduction, TLAPS

-----------------------------------------------------------------------------
(***************************************************************************)
(* Types, and what a place of the pass goes with.                            *)
(***************************************************************************)
MaybeText == Texts \cup {Nothing}

RowOK(r) ==
    r \in [text : MaybeText, meta : Nat, chunked : {"none", "old", "current"},
           embedded : BOOLEAN, chunks : {r.chunks}]

\* The primary key of a chunk is its note, kind and place.
ChunksOK(S) ==
    /\ \A c \in S : c = [kind |-> c.kind, ord |-> c.ord, text |-> c.text, vector |-> c.vector]
    /\ \A c, d \in S : SameKey(c, d) => c = d

ProfileOK(p) == p \in [source : MaybeText, card : {p.card}, current : BOOLEAN]
VectorOK(v) == v \in [source : MaybeText, of : {v.of}, current : BOOLEAN]

CardOK(k) ==
    /\ k \in [profile : {k.profile}, vector : {k.vector}]
    /\ ProfileOK(k.profile) /\ VectorOK(k.vector)

\* Places before the walk, in a phase without a note, and with one.
Early == {"idle", "reset", "reset_vectors", "walk"}
FileSteps == {"stat", "read", "touch", "upsert"}
ChunkSteps == {"list_chunks", "write_chunks", "invalidate", "mark_chunks"}
EmbedSteps == {"embed", "mark_embedded"}
Busy == FileSteps \cup ChunkSteps \cup EmbedSteps \cup {"extract", "embed_profile", "delete"}

PhaseNames == {"files", "chunks", "embeddings", "profiles", "vectors", "deletes"}

PassOK ==
    /\ ix \in [at : Early \cup {"next"} \cup Busy, phase : PhaseNames \cup {"none"},
               force : BOOLEAN, todo : SUBSET Notes, listed : SUBSET Notes,
               known : SUBSET Notes, note : Notes \cup {Nothing}, meta : Nat,
               text : MaybeText, write : {ix.write}, stale : {ix.stale}, changed : BOOLEAN]
    /\ ix.at \in Busy => ix.note \in Notes
    /\ ix.at \in Early <=> ix.phase = "none"
    /\ ix.at \in FileSteps => ix.phase = "files"
    /\ ix.at \in ChunkSteps => ix.phase \in {"files", "chunks"}
    /\ ix.at \in EmbedSteps => ix.phase \in {"files", "embeddings"}
    /\ ix.at = "extract" => ix.phase = "profiles"
    /\ ix.at = "embed_profile" => ix.phase = "vectors"
    /\ ix.at = "delete" => ix.phase = "deletes"

FilesOK ==
    /\ vault \in [Notes -> [text : MaybeText, meta : Nat]]
    /\ mount \in {"ok", "empty", "broken"}
    /\ edits \in Nat

RowsOK ==
    /\ rows = [n \in Notes |-> rows[n]]
    /\ \A n \in Notes : RowOK(rows[n]) /\ ChunksOK(rows[n].chunks)

CardsOK ==
    /\ cards = [n \in Notes |-> cards[n]]
    /\ \A n \in Notes : CardOK(cards[n])

\* The notes of a phase are in the index; the text in hand is the one stored.
TextOK ==
    /\ ix.phase \in {"chunks", "embeddings", "profiles", "vectors"} => ix.todo \subseteq Known
    /\ ix.at = "upsert" => ix.text \in Texts
    /\ ix.at \in ChunkSteps \cup {"extract"} => ix.text \in Texts /\ rows[ix.note].text = ix.text
    /\ ix.at = "write_chunks" => ix.write \subseteq Chunks(ix.text)

Types == PassOK /\ FilesOK /\ RowsOK /\ CardsOK /\ TextOK

-----------------------------------------------------------------------------
\* Numbered chunks have a first one.
LEMMA FirstOne ==
    ASSUME NEW S, S # {}, \A c \in S : c.ord \in Nat
    PROVE  \E c \in S : \A d \in S : c.ord <= d.ord
<1> DEFINE T == {c.ord : c \in S}
<1>1. T \subseteq Nat /\ T # {}
    OBVIOUS
<1>2. PICK x \in T : \A y \in T : ~(<<y, x>> \in OpToRel(<,Nat))
    BY <1>1, NatLessThanWellFounded, WFMin
<1>3. \A y \in T : ~(y < x)
    BY <1>1, <1>2 DEF OpToRel
<1>4. PICK c \in S : c.ord = x
    BY <1>2
<1>5. ASSUME NEW d \in S
      PROVE  c.ord <= d.ord
    <2>1. d.ord \in T /\ d.ord \in Nat /\ c.ord \in Nat
        OBVIOUS
    <2>2. ~(d.ord < c.ord)
        BY <1>3, <1>4, <2>1
    <2> HIDE DEF T
    <2>3. QED BY <2>1, <2>2
<1>6. QED BY <1>5

\* The chunk that is written next: a chunk of the text, the first that is left.
NextPlace == CHOOSE i \in {c.ord : c \in ix.write} : \A c \in ix.write : i <= c.ord
NextChunk == CHOOSE d \in ix.write : d.ord = NextPlace

LEMMA NextChunkIsOne ==
    ASSUME ix.write # {}, \A c \in ix.write : c.ord \in Nat
    PROVE  NextChunk \in ix.write
<1>1. PICK c \in ix.write : \A d \in ix.write : c.ord <= d.ord
    BY FirstOne
<1>2. NextPlace \in {d.ord : d \in ix.write}
    BY <1>1 DEF NextPlace
<1>3. QED BY <1>2 DEF NextChunk

\* The order of the phases.
LEMMA PhaseOrder ==
    /\ After("files") = "chunks"
    /\ After("chunks") = "embeddings"
    /\ After("embeddings") = "profiles"
    /\ After("profiles") = "vectors"
    /\ After("vectors") = "deletes"
<1>1. /\ Phases[1] = "files" /\ Phases[2] = "chunks" /\ Phases[3] = "embeddings"
      /\ Phases[4] = "profiles" /\ Phases[5] = "vectors" /\ Phases[6] = "deletes"
    BY DEF Phases
<1>2. ASSUME NEW k \in 1..5
      PROVE  (CHOOSE i \in 1..5 : Phases[i] = Phases[k]) = k
    <2>1. \A i \in 1..5 : Phases[i] = Phases[k] => i = k
        BY <1>1
    <2>2. QED BY <2>1
<1>3. QED BY <1>1, <1>2 DEF After

\* Every list of a phase has notes only.
LEMMA TodoIsNotes ==
    ASSUME Types, NEW phase \in PhaseNames \ {"files"}
    PROVE  /\ Todo(phase) \subseteq Notes
           /\ phase # "deletes" => Todo(phase) \subseteq Known
BY DEF Types, PassOK, PhaseNames, Todo, NotesNeedingChunks, NotesNeedingEmbeddings,
       NotesNeedingProfiles, ProfilesNeedingEmbeddings, Known

-----------------------------------------------------------------------------
(***************************************************************************)
(* Types is an invariant.                                                   *)
(***************************************************************************)

\* The pass goes on to a place with the same note.
LEMMA GoKeeps ==
    ASSUME Types, NEW place \in Early \cup {"next"} \cup Busy, Go(place),
           \/ place = "next" /\ ix.at \in Busy
           \/ place \in ChunkSteps /\ ix.at \in ChunkSteps
           \/ place \in ChunkSteps /\ ix.at = "upsert"
           \/ place \in EmbedSteps /\ ix.at \in EmbedSteps
           \/ place = "embed" /\ ix.at = "mark_chunks" /\ ix.phase = "files"
           \/ place \in Early /\ ix.at \in Early
    PROVE  PassOK'
BY DEF Types, PassOK, Go, Early, FileSteps, ChunkSteps, EmbedSteps, Busy, PhaseNames

\* What a step that changes neither files nor tables keeps.
LEMMA QuietTypes ==
    ASSUME Types, UNCHANGED <<vault, mount, edits, rows, cards>>
    PROVE  FilesOK' /\ RowsOK' /\ CardsOK' /\ Known' = Known
BY DEF Types, FilesOK, RowsOK, CardsOK, Known

\* The start of a pass, and the list of its files.
LEMMA BeginTypes ==
    ASSUME Types, Begin
    PROVE  Types'
<1>1. UNCHANGED <<vault, mount, rows, cards>> /\ edits' \in Nat /\ ix.at = "idle"
    BY DEF Types, FilesOK, Begin, files, tables, At
<1>2. ix' = [Idle EXCEPT !.at = "walk"] \/ ix' = [Idle EXCEPT !.at = "reset", !.force = TRUE]
    BY DEF Begin
<1>3. PassOK'
    <2>1. CASE ix' = [Idle EXCEPT !.at = "walk"]
        BY <2>1 DEF Idle, PassOK, Early, Busy, FileSteps, ChunkSteps, EmbedSteps, PhaseNames, MaybeText
    <2>2. CASE ix' = [Idle EXCEPT !.at = "reset", !.force = TRUE]
        BY <2>2 DEF Idle, PassOK, Early, Busy, FileSteps, ChunkSteps, EmbedSteps, PhaseNames, MaybeText
    <2>3. QED BY <1>2, <2>1, <2>2
<1>4. TextOK'
    BY <1>2 DEF Idle, TextOK, ChunkSteps
<1>5. FilesOK' /\ RowsOK' /\ CardsOK'
    BY <1>1 DEF Types, FilesOK, RowsOK, CardsOK
<1>6. QED BY <1>3, <1>4, <1>5 DEF Types

LEMMA WalkTypes ==
    ASSUME Types, Walk
    PROVE  Types'
<1>1. UNCHANGED <<vault, mount, edits, rows, cards>> /\ ix.at = "walk"
    BY DEF Walk, files, tables, At
<1>2. FilesOK' /\ RowsOK' /\ CardsOK'
    BY <1>1, QuietTypes
<1>3. CASE ix' = Idle
    <2>1. PassOK'
        BY <1>3 DEF Idle, PassOK, Early, Busy, FileSteps, ChunkSteps, EmbedSteps, PhaseNames,
                    MaybeText
    <2>2. TextOK'
        BY <1>3 DEF Idle, TextOK, ChunkSteps
    <2>3. QED BY <1>2, <2>1, <2>2 DEF Types
<1>4. CASE \E l \in Listing :
              ix' = [ix EXCEPT !.at = "next", !.phase = "files", !.todo = l,
                               !.listed = l, !.known = Known]
    <2>1. PICK l \in Listing :
              ix' = [ix EXCEPT !.at = "next", !.phase = "files", !.todo = l,
                               !.listed = l, !.known = Known]
        BY <1>4
    <2>2. l \subseteq Notes /\ Known \subseteq Notes
        BY DEF Listing, Present, Known, Types, FilesOK
    <2>3. PassOK'
        <3>1. ix'.at = "next" /\ ix'.phase = "files"
            BY <2>1 DEF Types, PassOK
        <3>2. "next" \notin Early \cup Busy /\ "files" \in PhaseNames
            BY DEF Early, Busy, FileSteps, ChunkSteps, EmbedSteps, PhaseNames
        <3>3. /\ ix' \in [at : {"next"}, phase : {"files"}, force : BOOLEAN, todo : SUBSET Notes,
                          listed : SUBSET Notes, known : SUBSET Notes, note : Notes \cup {Nothing},
                          meta : Nat, text : MaybeText, write : {ix.write}, stale : {ix.stale},
                          changed : BOOLEAN]
              /\ ix'.write = ix.write /\ ix'.stale = ix.stale
            BY <2>1, <2>2 DEF Types, PassOK
        <3>4. QED BY <3>1, <3>2, <3>3 DEF PassOK, Busy, FileSteps, ChunkSteps, EmbedSteps
    <2>4. TextOK'
        BY <2>1 DEF Types, PassOK, TextOK, ChunkSteps
    <2>5. QED BY <1>2, <2>3, <2>4 DEF Types
<1>5. QED BY <1>3, <1>4 DEF Walk

\* The next note, the next phase or the end.
LEMMA TakeTypes ==
    ASSUME Types, Take
    PROVE  Types'
<1>1. UNCHANGED <<vault, mount, edits, rows, cards>> /\ ix.at = "next" /\ ix.phase \in PhaseNames
    BY DEF Take, Stays, tables, At, Types, PassOK, Early
<1>2. FilesOK' /\ RowsOK' /\ CardsOK' /\ Known' = Known
    BY <1>1, QuietTypes
<1>3. ASSUME NEW n \in ix.todo,
             ix' = [ix EXCEPT !.at = FirstStep[ix.phase], !.note = n, !.todo = @ \ {n},
                              !.text = IF ix.phase = "files" THEN Nothing ELSE rows[n].text]
      PROVE  PassOK' /\ TextOK'
    <2>1. /\ n \in Notes
          /\ rows[n].text \in MaybeText
          /\ ix.phase \in {"chunks", "embeddings", "profiles", "vectors"} =>
                rows[n].text \in Texts /\ rows[n].text # Nothing
        BY <1>3 DEF Types, PassOK, RowsOK, RowOK, TextOK, Known, MaybeText
    <2>2. /\ ix.phase = "files" => FirstStep[ix.phase] = "stat"
          /\ ix.phase = "chunks" => FirstStep[ix.phase] = "list_chunks"
          /\ ix.phase = "embeddings" => FirstStep[ix.phase] = "embed"
          /\ ix.phase = "profiles" => FirstStep[ix.phase] = "extract"
          /\ ix.phase = "vectors" => FirstStep[ix.phase] = "embed_profile"
          /\ ix.phase = "deletes" => FirstStep[ix.phase] = "delete"
        BY DEF FirstStep
    <2>3. PassOK'
        <3> DEFINE place == FirstStep[ix.phase]
        <3>1. /\ ix.phase = "files" => place = "stat"
              /\ ix.phase = "chunks" => place = "list_chunks"
              /\ ix.phase = "embeddings" => place = "embed"
              /\ ix.phase = "profiles" => place = "extract"
              /\ ix.phase = "vectors" => place = "embed_profile"
              /\ ix.phase = "deletes" => place = "delete"
            BY <2>2
        <3>2. ix' = [ix EXCEPT !.at = place, !.note = n, !.todo = @ \ {n},
                               !.text = IF ix.phase = "files" THEN Nothing ELSE rows[n].text]
            BY <1>3
        <3> HIDE DEF place
        <3>3. place \in Busy
            BY <1>1, <3>1 DEF PhaseNames, Busy, FileSteps, ChunkSteps, EmbedSteps
        <3>4. /\ ix' \in [at : Busy, phase : {ix.phase}, force : BOOLEAN, todo : SUBSET Notes,
                          listed : SUBSET Notes, known : SUBSET Notes, note : Notes,
                          meta : Nat, text : MaybeText, write : {ix.write}, stale : {ix.stale},
                          changed : BOOLEAN]
              /\ ix'.at = place /\ ix'.phase = ix.phase
              /\ ix'.write = ix.write /\ ix'.stale = ix.stale
            BY <2>1, <3>2, <3>3 DEF Types, PassOK, MaybeText
        <3>5. ix'.at \notin Early /\ ix'.phase # "none"
            BY <1>1, <3>3, <3>4
               DEF Early, Busy, FileSteps, ChunkSteps, EmbedSteps, PhaseNames
        <3>6. QED BY <1>1, <3>1, <3>4, <3>5
                 DEF PassOK, PhaseNames, FileSteps, ChunkSteps, EmbedSteps
    <2>4. TextOK'
        BY <1>1, <1>2, <1>3, <2>1, <2>2 DEF Types, PassOK, TextOK, ChunkSteps, PhaseNames
    <2>5. QED BY <2>3, <2>4
<1>4. ASSUME ix' = Idle
      PROVE  PassOK' /\ TextOK'
    <2>1. PassOK'
        BY <1>4 DEF Idle, PassOK, Early, Busy, FileSteps, ChunkSteps, EmbedSteps, PhaseNames,
                    MaybeText
    <2>2. TextOK'
        BY <1>4 DEF Idle, TextOK, ChunkSteps
    <2>3. QED BY <2>1, <2>2
<1>5. ASSUME ix.phase # "deletes",
             ix' = [ix EXCEPT !.phase = After(ix.phase), !.todo = Todo(After(ix.phase)),
                              !.note = Nothing]
      PROVE  PassOK' /\ TextOK'
    <2> DEFINE phase == After(ix.phase)
    <2>1. phase \in PhaseNames \ {"files"}
        BY <1>1, <1>5, PhaseOrder DEF PhaseNames
    <2>2. Todo(phase) \subseteq Notes /\ (phase # "deletes" => Todo(phase) \subseteq Known)
        BY <2>1, TodoIsNotes
    <2> HIDE DEF phase
    <2>3. PassOK'
        BY <1>1, <1>5, <2>1, <2>2 DEF phase, Types, PassOK, Early, Busy, FileSteps, ChunkSteps,
                                      EmbedSteps, PhaseNames
    <2>4. TextOK'
        BY <1>1, <1>2, <1>5, <2>1, <2>2 DEF phase, Types, PassOK, TextOK, ChunkSteps, PhaseNames
    <2>5. QED BY <2>3, <2>4
<1>6. QED BY <1>2, <1>3, <1>4, <1>5 DEF Take, Types

\* The looks at a file.
LEMMA LookTypes ==
    ASSUME Types, Stat \/ Read
    PROVE  Types'
<1>1. UNCHANGED <<vault, mount, edits, rows, cards>> /\ ix.at \in {"stat", "read"}
    BY DEF Stat, Read, Stays, tables, At
<1>2. FilesOK' /\ RowsOK' /\ CardsOK' /\ Known' = Known
    BY <1>1, QuietTypes
<1>3. ix.note \in Notes /\ vault[ix.note].meta \in Nat /\ vault[ix.note].text \in MaybeText
    BY <1>1 DEF Types, PassOK, FilesOK, Busy, FileSteps
<1>4. CASE Stat
    <2>1. PassOK'
        BY <1>1, <1>3, <1>4 DEF Stat, Types, PassOK, Early, Busy, FileSteps, ChunkSteps,
                                EmbedSteps, PhaseNames
    <2>2. TextOK'
        <3>1. /\ ix'.at \in {"next", "read"}
              /\ ix'.phase = ix.phase /\ ix'.todo = ix.todo
            BY <1>4 DEF Stat, Types, PassOK
        <3>2. QED BY <1>2, <3>1 DEF Types, TextOK, ChunkSteps
    <2>3. QED BY <1>2, <2>1, <2>2 DEF Types
<1>5. CASE Read
    <2>1. Readable(ix.note) => vault[ix.note].text \in Texts
        BY <1>3 DEF Readable, MaybeText
    <2>2. PassOK'
        BY <1>1, <1>3, <1>5, <2>1 DEF Read, Types, PassOK, Early, Busy, FileSteps, ChunkSteps,
                                      EmbedSteps, PhaseNames
    <2>3. TextOK'
        <3>1. /\ ix'.at \in {"next", "touch"} \/ (ix'.at = "upsert" /\ Readable(ix.note))
              /\ ix'.phase = ix.phase /\ ix'.todo = ix.todo /\ ix'.text = vault[ix.note].text
            BY <1>5 DEF Read, At, Types, PassOK
        <3>2. QED BY <1>2, <2>1, <3>1 DEF Types, TextOK, ChunkSteps
    <2>4. QED BY <1>2, <2>2, <2>3 DEF Types
<1>6. QED BY <1>4, <1>5

\* A statement on the row of the note in hand.
LEMMA RowTypes ==
    ASSUME Types, ix.note \in Notes, UNCHANGED <<vault, mount, edits, cards>>,
           NEW r, RowOK(r), ChunksOK(r.chunks), rows' = [rows EXCEPT ![ix.note] = r]
    PROVE  /\ FilesOK' /\ RowsOK' /\ CardsOK'
           /\ r.text = rows[ix.note].text =>
                 Known' = Known /\ \A n \in Notes : rows'[n].text = rows[n].text
BY DEF Types, FilesOK, RowsOK, CardsOK, Known

\* Statements that leave the text and the chunks.
LEMMA MarkTypes ==
    ASSUME Types,
           \/ TouchNoteMeta \/ InvalidateNoteEmbeddings \/ MarkNoteChunksCurrent
           \/ MarkNoteEmbeddingsCurrent
    PROVE  Types'
<1>1. /\ UNCHANGED <<vault, mount, edits, cards>>
      /\ ix.at \in {"touch", "invalidate", "mark_chunks", "mark_embedded"}
    BY DEF TouchNoteMeta, InvalidateNoteEmbeddings, MarkNoteChunksCurrent,
           MarkNoteEmbeddingsCurrent, Stays, files, At
<1>2. ix.note \in Notes /\ RowOK(rows[ix.note]) /\ ChunksOK(rows[ix.note].chunks) /\ ix.meta \in Nat
    BY <1>1 DEF Types, PassOK, RowsOK, Busy, FileSteps, ChunkSteps, EmbedSteps
<1>3. PICK r : /\ RowOK(r) /\ ChunksOK(r.chunks) /\ r.text = rows[ix.note].text
               /\ rows' = [rows EXCEPT ![ix.note] = r]
    <2>1. CASE TouchNoteMeta
        <3>1. RowOK([rows[ix.note] EXCEPT !.meta = ix.meta])
            BY <1>2 DEF RowOK
        <3>2. QED BY <1>2, <2>1, <3>1 DEF TouchNoteMeta, SeenMeta, RowOK
    <2>2. CASE InvalidateNoteEmbeddings
        <3>1. RowOK([rows[ix.note] EXCEPT !.embedded = FALSE])
            BY <1>2 DEF RowOK
        <3>2. QED BY <1>2, <2>2, <3>1 DEF InvalidateNoteEmbeddings, RowOK
    <2>3. CASE MarkNoteChunksCurrent
        <3>1. RowOK([rows[ix.note] EXCEPT !.chunked = "current"])
            BY <1>2 DEF RowOK
        <3>2. QED BY <1>2, <2>3, <3>1 DEF MarkNoteChunksCurrent, RowOK
    <2>4. CASE MarkNoteEmbeddingsCurrent
        <3>1. RowOK([rows[ix.note] EXCEPT !.embedded = TRUE])
            BY <1>2 DEF RowOK
        <3>2. QED BY <1>2, <2>4, <3>1 DEF MarkNoteEmbeddingsCurrent, RowOK
    <2>5. QED BY <2>1, <2>2, <2>3, <2>4
<1>4. /\ FilesOK' /\ RowsOK' /\ CardsOK' /\ Known' = Known
      /\ \A n \in Notes : rows'[n].text = rows[n].text
    BY <1>1, <1>2, <1>3, RowTypes
<1>5. PassOK' /\ \/ Go("next")
                 \/ Go("mark_chunks") /\ ix.at = "invalidate"
                 \/ Go("embed") /\ ix.at = "mark_chunks"
    <2>1. CASE Go("next")
        BY <1>1, <2>1, GoKeeps DEF Busy, FileSteps, ChunkSteps, EmbedSteps
    <2>2. CASE Go("mark_chunks") /\ ix.at = "invalidate"
        BY <2>2, GoKeeps DEF Busy, FileSteps, ChunkSteps, EmbedSteps
    <2>3. CASE Go("embed") /\ ix.at = "mark_chunks" /\ ix.phase = "files"
        BY <2>3, GoKeeps DEF Busy, FileSteps, ChunkSteps, EmbedSteps
    <2>4. QED BY <2>1, <2>2, <2>3 DEF TouchNoteMeta, InvalidateNoteEmbeddings,
                  MarkNoteChunksCurrent, MarkNoteEmbeddingsCurrent, Skip, At
<1>6. TextOK'
    BY <1>2, <1>4, <1>5 DEF Types, PassOK, TextOK, Go, ChunkSteps
<1>7. QED BY <1>4, <1>5, <1>6 DEF Types

\* A new text has no chunks of its own yet.
LEMMA UpsertTypes ==
    ASSUME Types, UpsertNote
    PROVE  Types'
<1>1. UNCHANGED <<vault, mount, edits, cards>> /\ ix.at = "upsert" /\ Go("list_chunks")
    BY DEF UpsertNote, files, At
<1>2. /\ ix.note \in Notes /\ RowOK(rows[ix.note]) /\ ChunksOK(rows[ix.note].chunks)
      /\ ix.meta \in Nat /\ ix.text \in Texts /\ ix.phase = "files"
    BY <1>1 DEF Types, PassOK, RowsOK, TextOK, Busy, FileSteps
<1>3. /\ RowOK(Upserted(rows[ix.note]))
      /\ Upserted(rows[ix.note]).chunks = rows[ix.note].chunks
      /\ Upserted(rows[ix.note]).text = ix.text
    BY <1>2 DEF RowOK, Upserted, SeenMeta, MaybeText
<1>4. rows' = [rows EXCEPT ![ix.note] = Upserted(rows[ix.note])]
    BY DEF UpsertNote
<1>5. FilesOK' /\ RowsOK' /\ CardsOK' /\ rows'[ix.note].text = ix.text
    BY <1>1, <1>2, <1>3, <1>4, RowTypes DEF Types, RowsOK
<1>6. PassOK'
    BY <1>1, GoKeeps DEF Busy, ChunkSteps
<1>7. TextOK'
    BY <1>1, <1>2, <1>5 DEF Types, PassOK, TextOK, Go, ChunkSteps
<1>8. QED BY <1>5, <1>6, <1>7 DEF Types

\* What UpsertChunk puts in the place of the row with the same key.
Former == {d \in rows[ix.note].chunks : SameKey(NextChunk, d)}
KeptVector == IF Former = {} THEN Nothing ELSE (CHOOSE d \in Former : TRUE).vector
NewChunk == [kind |-> NextChunk.kind, ord |-> NextChunk.ord, text |-> NextChunk.text,
             vector |-> KeptVector]
NewChunks == (rows[ix.note].chunks \ Former) \cup {NewChunk}

LEMMA UpsertChunkIs ==
    ASSUME UpsertChunk
    PROVE  /\ ix.at = "write_chunks" /\ ix.write # {}
           /\ rows' = [rows EXCEPT ![ix.note].chunks = NewChunks]
           /\ ix' = [ix EXCEPT !.write = @ \ {NextChunk}]
           /\ UNCHANGED <<vault, mount, cards, missing, inherited, edits, faults>>
BY DEF UpsertChunk, At, Stays, NextPlace, NextChunk, Former, KeptVector, NewChunk, NewChunks

\* Another set of chunks for the note in hand.
LEMMA ChunksTypes ==
    ASSUME Types, ix.note \in Notes, UNCHANGED <<vault, mount, edits, cards>>,
           NEW S, ChunksOK(S), rows' = [rows EXCEPT ![ix.note].chunks = S]
    PROVE  /\ FilesOK' /\ RowsOK' /\ CardsOK' /\ Known' = Known
           /\ \A n \in Notes : rows'[n].text = rows[n].text
           /\ rows'[ix.note].chunks = S
<1>1. RowOK(rows[ix.note]) /\ RowOK([rows[ix.note] EXCEPT !.chunks = S])
    BY DEF Types, RowsOK, RowOK
<1>2. /\ [rows[ix.note] EXCEPT !.chunks = S].chunks = S
      /\ [rows[ix.note] EXCEPT !.chunks = S].text = rows[ix.note].text
    BY <1>1 DEF RowOK
<1>3. rows' = [rows EXCEPT ![ix.note] = [rows[ix.note] EXCEPT !.chunks = S]]
    OBVIOUS
<1>4. rows'[ix.note] = [rows[ix.note] EXCEPT !.chunks = S]
    BY <1>3 DEF Types, RowsOK
<1>5. QED BY <1>1, <1>2, <1>3, <1>4, RowTypes

\* The chunks of a text, compared, written and removed.
LEMMA ListChunksTypes ==
    ASSUME Types, ListChunks
    PROVE  Types'
<1>1. /\ UNCHANGED <<vault, mount, edits, rows, cards>> /\ ix.at = "list_chunks"
      /\ \E stale, changed : changed \in BOOLEAN /\
            ix' = [ix EXCEPT !.at = "write_chunks", !.write = Chunks(ix.text), !.stale = stale,
                             !.changed = changed]
    BY DEF ListChunks, Stays, tables, At
<1>2. FilesOK' /\ RowsOK' /\ CardsOK' /\ Known' = Known
    BY <1>1, QuietTypes
<1>3. PICK stale, changed : changed \in BOOLEAN /\
            ix' = [ix EXCEPT !.at = "write_chunks", !.write = Chunks(ix.text), !.stale = stale,
                             !.changed = changed]
    BY <1>1
<1>4. PassOK'
    BY <1>1, <1>3 DEF Types, PassOK, Early, Busy, FileSteps, ChunkSteps, EmbedSteps, PhaseNames
<1>5. TextOK'
    BY <1>1, <1>2, <1>3 DEF Types, PassOK, TextOK, ChunkSteps
<1>6. QED BY <1>2, <1>4, <1>5 DEF Types

LEMMA UpsertChunkTypes ==
    ASSUME Types, UpsertChunk
    PROVE  Types'
<1>1. /\ UNCHANGED <<vault, mount, edits, cards>> /\ ix.at = "write_chunks"
      /\ rows' = [rows EXCEPT ![ix.note].chunks = NewChunks]
      /\ ix' = [ix EXCEPT !.write = @ \ {NextChunk}]
    BY UpsertChunkIs
<1>2. ix.note \in Notes /\ ChunksOK(rows[ix.note].chunks)
    BY <1>1 DEF Types, PassOK, RowsOK, Busy, ChunkSteps
<1>3. ChunksOK(NewChunks)
    <2>1. NewChunk = [kind |-> NewChunk.kind, ord |-> NewChunk.ord, text |-> NewChunk.text,
                      vector |-> NewChunk.vector]
          /\ NewChunk.kind = NextChunk.kind /\ NewChunk.ord = NextChunk.ord
        BY DEF NewChunk
    <2>2. \A d \in NewChunks : d = NewChunk \/ (d \in rows[ix.note].chunks /\ ~SameKey(NextChunk, d))
        BY DEF NewChunks, Former
    <2>3. \A d : SameKey(NewChunk, d) <=> SameKey(NextChunk, d)
        BY <2>1 DEF SameKey
    <2>4. QED BY <1>2, <2>1, <2>2, <2>3 DEF ChunksOK, SameKey
<1>4. /\ FilesOK' /\ RowsOK' /\ CardsOK' /\ Known' = Known
      /\ \A n \in Notes : rows'[n].text = rows[n].text
    BY <1>1, <1>2, <1>3, ChunksTypes
<1>5. PassOK'
    BY <1>1 DEF Types, PassOK
<1>6. TextOK'
    BY <1>1, <1>2, <1>4, <1>5 DEF Types, PassOK, TextOK, ChunkSteps
<1>7. QED BY <1>4, <1>5, <1>6 DEF Types

LEMMA DeleteChunksTypes ==
    ASSUME Types, DeleteChunksByID
    PROVE  Types'
<1>1. /\ UNCHANGED <<vault, mount, edits, cards>> /\ ix.at = "write_chunks"
      /\ Go(IF ix.changed THEN "invalidate" ELSE "mark_chunks")
      /\ \E S \in SUBSET rows[ix.note].chunks : rows' = [rows EXCEPT ![ix.note].chunks = S]
    BY DEF DeleteChunksByID, Stays, files, At
<1>2. ix.note \in Notes /\ ChunksOK(rows[ix.note].chunks)
    BY <1>1 DEF Types, PassOK, RowsOK, Busy, ChunkSteps
<1>3. /\ FilesOK' /\ RowsOK' /\ CardsOK' /\ Known' = Known
      /\ \A n \in Notes : rows'[n].text = rows[n].text
    <2>1. \A S \in SUBSET rows[ix.note].chunks : ChunksOK(S)
        BY <1>2 DEF ChunksOK
    <2>2. QED BY <1>1, <1>2, <2>1, ChunksTypes
<1>4. PassOK'
    BY <1>1, GoKeeps DEF Busy, ChunkSteps
<1>5. TextOK'
    BY <1>1, <1>2, <1>3 DEF Types, PassOK, TextOK, Go, ChunkSteps
<1>6. QED BY <1>3, <1>4, <1>5 DEF Types

\* The vectors of the chunks.
LEMMA EmbedTypes ==
    ASSUME Types, UpsertChunkEmbedding
    PROVE  Types'
<1>1. UNCHANGED <<vault, mount, edits, cards>> /\ ix.at = "embed"
    BY DEF UpsertChunkEmbedding, Stays, files, At
<1>2. ix.note \in Notes /\ ChunksOK(rows[ix.note].chunks)
    BY <1>1 DEF Types, PassOK, RowsOK, Busy, EmbedSteps
<1>3. CASE Go("mark_embedded") /\ rows' = rows
    <2>1. FilesOK' /\ RowsOK' /\ CardsOK' /\ Known' = Known
        BY <1>1, <1>3, QuietTypes
    <2>2. PassOK'
        BY <1>1, <1>3, GoKeeps DEF Busy, EmbedSteps
    <2>3. TextOK'
        BY <1>1, <1>3, <2>1 DEF Types, PassOK, TextOK, Go, ChunkSteps
    <2>4. QED BY <2>1, <2>2, <2>3 DEF Types
<1>4. CASE /\ ix' = ix
           /\ \E c \in rows[ix.note].chunks : rows' = [rows EXCEPT ![ix.note].chunks =
                  (rows[ix.note].chunks \ {c}) \cup {[c EXCEPT !.vector = c.text]}]
    <2>1. PICK c \in rows[ix.note].chunks : rows' = [rows EXCEPT ![ix.note].chunks =
                  (rows[ix.note].chunks \ {c}) \cup {[c EXCEPT !.vector = c.text]}]
        BY <1>4
    <2> DEFINE e == [c EXCEPT !.vector = c.text]
               S == (rows[ix.note].chunks \ {c}) \cup {e}
    <2>2. /\ e = [kind |-> c.kind, ord |-> c.ord, text |-> c.text, vector |-> c.text]
          /\ e.kind = c.kind /\ e.ord = c.ord
          /\ e = [kind |-> e.kind, ord |-> e.ord, text |-> e.text, vector |-> e.vector]
        BY <1>2 DEF ChunksOK
    <2> HIDE DEF e
    <2>3. ChunksOK(S)
        BY <1>2, <2>2 DEF ChunksOK, SameKey
    <2>4. /\ FilesOK' /\ RowsOK' /\ CardsOK' /\ Known' = Known
          /\ \A n \in Notes : rows'[n].text = rows[n].text
        BY <1>1, <1>2, <2>1, <2>3, ChunksTypes DEF e
    <2>5. PassOK' /\ TextOK'
        BY <1>1, <1>2, <1>4, <2>4 DEF Types, PassOK, TextOK, ChunkSteps
    <2>6. QED BY <2>4, <2>5 DEF Types
<1>5. QED BY <1>3, <1>4 DEF UpsertChunkEmbedding

\* A row of the profiles with another profile, or another vector.
LEMMA CardParts ==
    ASSUME NEW k, CardOK(k)
    PROVE  /\ \A p : ProfileOK(p) =>
                 /\ CardOK([k EXCEPT !.profile = p])
                 /\ [k EXCEPT !.profile = p].profile = p
                 /\ [k EXCEPT !.profile = p].vector = k.vector
           /\ \A v : VectorOK(v) =>
                 /\ CardOK([k EXCEPT !.vector = v])
                 /\ [k EXCEPT !.vector = v].vector = v
                 /\ [k EXCEPT !.vector = v].profile = k.profile
<1>1. ASSUME NEW p, ProfileOK(p)
      PROVE  /\ CardOK([k EXCEPT !.profile = p])
             /\ [k EXCEPT !.profile = p].profile = p
             /\ [k EXCEPT !.profile = p].vector = k.vector
    BY <1>1 DEF CardOK
<1>2. ASSUME NEW v, VectorOK(v)
      PROVE  /\ CardOK([k EXCEPT !.vector = v])
             /\ [k EXCEPT !.vector = v].vector = v
             /\ [k EXCEPT !.vector = v].profile = k.profile
    BY <1>2 DEF CardOK
<1>3. QED BY <1>1, <1>2

\* Statements on the profile of the note in hand.
LEMMA CardTypes ==
    ASSUME Types, UNCHANGED <<vault, mount, edits, rows>>, NEW k, CardOK(k),
           cards' = [cards EXCEPT ![ix.note] = k], ix.note \in Notes
    PROVE  FilesOK' /\ RowsOK' /\ CardsOK' /\ Known' = Known
BY DEF Types, FilesOK, RowsOK, CardsOK, Known

LEMMA ProfileTypes ==
    ASSUME Types, UpsertNoteProfile
    PROVE  Types'
<1>1. UNCHANGED <<vault, mount, edits, rows>> /\ ix.at = "extract" /\ Go("next")
    BY DEF UpsertNoteProfile, Stays, At, Skip
<1>2. ix.note \in Notes /\ CardOK(cards[ix.note]) /\ ix.text \in MaybeText
    BY <1>1 DEF Types, PassOK, CardsOK, Busy
<1>3. PICK card \in Cards :
          cards' = [cards EXCEPT ![ix.note].profile =
                       [source |-> ix.text, card |-> card, current |-> TRUE]]
    BY DEF UpsertNoteProfile
<1> DEFINE p == [source |-> ix.text, card |-> card, current |-> TRUE]
<1>4. CardOK([cards[ix.note] EXCEPT !.profile = p])
    <2>1. ProfileOK(p)
        BY <1>2 DEF ProfileOK
    <2> HIDE DEF p
    <2>2. QED BY <1>2, <2>1, CardParts
<1>5. FilesOK' /\ RowsOK' /\ CardsOK' /\ Known' = Known
    BY <1>1, <1>2, <1>3, <1>4, CardTypes
<1>6. PassOK'
    BY <1>1, GoKeeps DEF Busy
<1>7. TextOK'
    BY <1>1, <1>5 DEF Types, PassOK, TextOK, Go, ChunkSteps
<1>8. QED BY <1>5, <1>6, <1>7 DEF Types

LEMMA ProfileVectorTypes ==
    ASSUME Types, UpsertProfileEmbedding
    PROVE  Types'
<1>1. UNCHANGED <<vault, mount, edits, rows>> /\ ix.at = "embed_profile" /\ Go("next")
    BY DEF UpsertProfileEmbedding, Stays, At, Skip
<1>2. ix.note \in Notes /\ CardOK(cards[ix.note])
    BY <1>1 DEF Types, PassOK, CardsOK, Busy
<1> DEFINE v == [source |-> cards[ix.note].profile.source, of |-> cards[ix.note].profile.card,
                 current |-> TRUE]
<1>3. cards' = [cards EXCEPT ![ix.note].vector = v]
    BY DEF UpsertProfileEmbedding
<1>4. CardOK([cards[ix.note] EXCEPT !.vector = v])
    <2>1. VectorOK(v)
        BY <1>2 DEF CardOK, VectorOK, ProfileOK
    <2> HIDE DEF v
    <2>2. QED BY <1>2, <2>1, CardParts
<1>5. FilesOK' /\ RowsOK' /\ CardsOK' /\ Known' = Known
    BY <1>1, <1>2, <1>3, <1>4, CardTypes
<1>6. PassOK'
    BY <1>1, GoKeeps DEF Busy
<1>7. TextOK'
    BY <1>1, <1>5 DEF Types, PassOK, TextOK, Go, ChunkSteps
<1>8. QED BY <1>5, <1>6, <1>7 DEF Types

LEMMA InvalidateTypes ==
    ASSUME Types, InvalidateProfiles \/ InvalidateVectors
    PROVE  Types'
<1>1. /\ UNCHANGED <<vault, mount, edits, rows>> /\ ix.at \in {"reset", "reset_vectors"}
      /\ Go("reset_vectors") \/ Go("walk")
    BY DEF InvalidateProfiles, InvalidateVectors, Stays, At
<1>2. \/ cards' = [n \in Notes |-> [cards[n] EXCEPT !.profile.current = FALSE]]
      \/ cards' = [n \in Notes |-> [cards[n] EXCEPT !.vector.current = FALSE]]
    BY DEF InvalidateProfiles, InvalidateVectors
<1>3. \A n \in Notes : /\ CardOK([cards[n] EXCEPT !.profile.current = FALSE])
                       /\ CardOK([cards[n] EXCEPT !.vector.current = FALSE])
    <2> TAKE n \in Notes
    <2>1. CardOK(cards[n])
        BY DEF Types, CardsOK
    <2>2. /\ ProfileOK([cards[n].profile EXCEPT !.current = FALSE])
          /\ VectorOK([cards[n].vector EXCEPT !.current = FALSE])
        BY <2>1 DEF CardOK, ProfileOK, VectorOK
    <2>3. QED BY <2>1, <2>2, CardParts
<1>4. CardsOK'
    <2>1. CASE cards' = [n \in Notes |-> [cards[n] EXCEPT !.profile.current = FALSE]]
        BY <1>3, <2>1 DEF CardsOK
    <2>2. CASE cards' = [n \in Notes |-> [cards[n] EXCEPT !.vector.current = FALSE]]
        BY <1>3, <2>2 DEF CardsOK
    <2>3. QED BY <1>2, <2>1, <2>2
<1>5. FilesOK' /\ RowsOK' /\ Known' = Known
    BY <1>1 DEF Types, FilesOK, RowsOK, Known
<1>6. PassOK'
    BY <1>1, GoKeeps DEF Early
<1>7. TextOK'
    BY <1>1, <1>5, <1>6 DEF Types, PassOK, TextOK, Go, ChunkSteps, Early
<1>8. QED BY <1>4, <1>5, <1>6, <1>7 DEF Types

LEMMA DeleteTypes ==
    ASSUME Types, DeleteNote
    PROVE  Types'
<1>1. /\ UNCHANGED <<vault, mount, edits>> /\ ix.at = "delete" /\ Go("next")
      /\ rows' = [rows EXCEPT ![ix.note] = NoRow]
      /\ cards' = [cards EXCEPT ![ix.note] = [profile |-> NoCard, vector |-> NoVector]]
    BY DEF DeleteNote, files, At, Skip
<1>2. ix.note \in Notes /\ ix.phase = "deletes"
    BY <1>1 DEF Types, PassOK, Busy
<1>3. /\ RowOK(NoRow) /\ ChunksOK(NoRow.chunks)
      /\ CardOK([profile |-> NoCard, vector |-> NoVector])
    BY DEF RowOK, NoRow, ChunksOK, CardOK, ProfileOK, VectorOK, NoCard, NoVector, MaybeText
<1>4. FilesOK' /\ RowsOK' /\ CardsOK'
    BY <1>1, <1>2, <1>3 DEF Types, FilesOK, RowsOK, CardsOK
<1>5. PassOK'
    BY <1>1, GoKeeps DEF Busy
<1>6. TextOK'
    BY <1>1, <1>2 DEF Types, PassOK, TextOK, Go, ChunkSteps
<1>7. QED BY <1>4, <1>5, <1>6 DEF Types

\* Failures, and what the user and the volume do.
LEMMA FaultTypes ==
    ASSUME Types, Fails \/ Crash
    PROVE  Types'
<1>1. UNCHANGED <<vault, mount, edits, rows, cards>> /\ ix.at # "idle"
    BY DEF Fails, Crash, files, tables, At
<1>2. FilesOK' /\ RowsOK' /\ CardsOK' /\ Known' = Known
    BY <1>1, QuietTypes
<1>3. \/ ix' = Idle
      \/ ix.at = "next" /\ ix' = [ix EXCEPT !.todo = {}]
      \/ ix.at \notin Early /\ ix' = [ix EXCEPT !.at = "next"]
    BY <1>1 DEF Fails, Crash, Early, At
<1>4. PassOK'
    <2>1. CASE ix' = Idle
        BY <2>1 DEF PassOK, Idle, Early, Busy, FileSteps, ChunkSteps, EmbedSteps, PhaseNames,
                    MaybeText
    <2>2. CASE ix.at = "next" /\ ix' = [ix EXCEPT !.todo = {}]
        BY <2>2 DEF Types, PassOK, Early, Busy, FileSteps, ChunkSteps, EmbedSteps
    <2>3. CASE ix.at \notin Early /\ ix' = [ix EXCEPT !.at = "next"]
        BY <2>3 DEF Types, PassOK, Early, Busy, FileSteps, ChunkSteps, EmbedSteps
    <2>4. QED BY <1>3, <2>1, <2>2, <2>3
<1>5. TextOK'
    BY <1>2, <1>3 DEF Types, PassOK, TextOK, Idle, ChunkSteps
<1>6. QED BY <1>2, <1>4, <1>5 DEF Types

LEMMA OutsideTypes ==
    ASSUME Types, Edit \/ Unmount \/ Mount
    PROVE  Types'
<1>1. UNCHANGED <<rows, cards, ix>>
    BY DEF Edit, Unmount, Mount, tables
<1>2. FilesOK'
    BY DEF Types, FilesOK, Edit, Unmount, Mount, MaybeText
<1>3. PassOK' /\ RowsOK' /\ CardsOK' /\ TextOK'
    BY <1>1 DEF Types, PassOK, RowsOK, CardsOK, TextOK, Known
<1>4. QED BY <1>2, <1>3 DEF Types

LEMMA InitTypes == Init => Types
<1> SUFFICES ASSUME Init PROVE Types
    OBVIOUS
<1>1. PassOK /\ TextOK
    BY DEF Init, PassOK, TextOK, Idle, Early, Busy, FileSteps, ChunkSteps, EmbedSteps,
           PhaseNames, MaybeText
<1>2. FilesOK /\ CardsOK
    <2>1. CardOK([profile |-> NoCard, vector |-> NoVector])
        BY DEF CardOK, ProfileOK, VectorOK, NoCard, NoVector, MaybeText
    <2>2. CardsOK
        BY <2>1 DEF Init, CardsOK
    <2>3. FilesOK
        BY DEF Init, FilesOK, MaybeText
    <2>4. QED BY <2>2, <2>3
<1>3. PICK t \in Texts : rows \in [Notes -> {NoRow, OldRow(t)}]
    BY DEF Init
<1>4. RowOK(NoRow) /\ ChunksOK(NoRow.chunks) /\ RowOK(OldRow(t))
    BY DEF RowOK, NoRow, ChunksOK, OldRow, MaybeText
<1>5. ChunksOK(OldRow(t).chunks)
    <2>1. \A c, d \in OldChunks(t) : c.ord = d.ord => c = d
        BY SearchAssumption
    <2>2. OldRow(t).chunks =
              {[kind |-> c.kind, ord |-> c.ord, text |-> c.text, vector |-> c.text] :
                   c \in OldChunks(t)}
        BY DEF OldRow
    <2>3. QED BY <2>1, <2>2 DEF ChunksOK, SameKey
<1>6. RowsOK
    BY <1>3, <1>4, <1>5 DEF RowsOK
<1>7. QED BY <1>1, <1>2, <1>6 DEF Types

LEMMA NextTypes == Types /\ [Next]_vars => Types'
<1> SUFFICES ASSUME Types, [Next]_vars PROVE Types'
    OBVIOUS
<1>1. CASE UNCHANGED vars
    <2>1. UNCHANGED <<vault, mount, edits, rows, cards, ix>>
        BY <1>1 DEF vars
    <2>2. PassOK' /\ TextOK'
        BY <2>1, QuietTypes DEF Types, PassOK, TextOK
    <2>3. QED BY <2>1, <2>2, QuietTypes DEF Types
<1>2. CASE Pass
    BY <1>2, BeginTypes, WalkTypes, TakeTypes, LookTypes, MarkTypes, UpsertTypes, ListChunksTypes,
       UpsertChunkTypes, DeleteChunksTypes, EmbedTypes, ProfileTypes, ProfileVectorTypes,
       InvalidateTypes, DeleteTypes DEF Pass
<1>3. CASE Fails \/ Crash \/ Edit \/ Unmount \/ Mount
    BY <1>3, FaultTypes, OutsideTypes
<1>4. QED BY <1>1, <1>2, <1>3 DEF Next

-----------------------------------------------------------------------------
(***************************************************************************)
(* What a step may do to the text and the time of a row, and what the pass    *)
(* takes with it.                                                           *)
(***************************************************************************)
SameRow(n) == rows'[n].text = rows[n].text /\ rows'[n].meta = rows[n].meta

RowMoves ==
    \A n \in Notes :
        \/ SameRow(n)
        \/ /\ n = ix.note /\ ix.at = "touch"
           /\ rows'[n].text = rows[n].text /\ rows'[n].meta = ix.meta
        \/ /\ n = ix.note /\ ix.at = "upsert"
           /\ rows'[n].text = ix.text /\ rows'[n].meta = ix.meta
        \/ n = ix.note /\ ix.at = "delete" /\ rows'[n] = NoRow

PassMoves ==
    /\ \/ ix'.meta \in {ix.meta, 0}
       \/ ix.at = "stat" /\ ix'.meta = vault[ix.note].meta
    /\ ix'.at \in {"touch", "upsert"} =>
          \/ ix' = ix
          \/ /\ ix.at = "read" /\ ix'.note = ix.note /\ ix'.meta = ix.meta
             /\ ix'.text = vault[ix.note].text
             /\ ix'.at = "touch" => rows[ix.note].text = vault[ix.note].text

\* Steps that leave the rows alone.
LEMMA LookMoves ==
    ASSUME Types, Begin \/ Walk \/ Take \/ Stat \/ Read \/ ListChunks \/ Fails \/ Crash
    PROVE  rows' = rows /\ vault' = vault /\ RowMoves /\ PassMoves
<1>1. rows' = rows /\ vault' = vault
    BY DEF Begin, Walk, Take, Stat, Read, ListChunks, Fails, Crash, Stays, tables, files
<1>2. RowMoves
    BY <1>1 DEF RowMoves, SameRow
<1>3. ASSUME Begin
      PROVE  PassMoves
    BY <1>3 DEF Begin, Idle, PassMoves
<1>4. ASSUME Walk
      PROVE  PassMoves
    <2>1. ix'.at \in {"idle", "next"} /\ ix'.meta \in {ix.meta, 0}
        <3>1. ASSUME NEW l,
                     ix' = [ix EXCEPT !.at = "next", !.phase = "files", !.todo = l,
                                      !.listed = l, !.known = Known]
              PROVE  ix'.at = "next" /\ ix'.meta = ix.meta
            BY <3>1 DEF Types, PassOK
        <3>2. ix' = Idle => ix'.at = "idle" /\ ix'.meta = 0
            BY DEF Idle
        <3>3. \/ ix' = Idle
              \/ \E l : ix' = [ix EXCEPT !.at = "next", !.phase = "files", !.todo = l,
                                         !.listed = l, !.known = Known]
            BY <1>4 DEF Walk
        <3>4. QED BY <3>1, <3>2, <3>3
    <2>2. QED BY <2>1 DEF PassMoves
<1>5. ASSUME Take
      PROVE  PassMoves
    <2>1. /\ FirstStep["files"] = "stat" /\ FirstStep["chunks"] = "list_chunks"
          /\ FirstStep["embeddings"] = "embed" /\ FirstStep["profiles"] = "extract"
          /\ FirstStep["vectors"] = "embed_profile" /\ FirstStep["deletes"] = "delete"
        BY DEF FirstStep
    <2>2. ix.phase \in PhaseNames /\ ix.at = "next"
        BY <1>5 DEF Take, At, Types, PassOK, Early
    <2>3. FirstStep[ix.phase] \notin {"touch", "upsert"}
        BY <2>1, <2>2 DEF PhaseNames
    <2>4. ix'.at \in {"idle", "next", FirstStep[ix.phase]} /\ ix'.meta \in {ix.meta, 0}
        <3>2. ASSUME NEW n \in ix.todo, NEW t,
                     ix' = [ix EXCEPT !.at = FirstStep[ix.phase], !.note = n, !.todo = @ \ {n},
                                      !.text = t]
              PROVE  ix'.at = FirstStep[ix.phase] /\ ix'.meta = ix.meta
            BY <3>2 DEF Types, PassOK
        <3>3. ASSUME NEW p, NEW T, ix' = [ix EXCEPT !.phase = p, !.todo = T, !.note = Nothing]
              PROVE  ix'.at = ix.at /\ ix'.meta = ix.meta
            BY <3>3 DEF Types, PassOK
        <3>4. ix' = Idle => ix'.at = "idle" /\ ix'.meta = 0
            BY DEF Idle
        <3>5. \/ \E n \in ix.todo : \E t :
                    ix' = [ix EXCEPT !.at = FirstStep[ix.phase], !.note = n, !.todo = @ \ {n},
                                     !.text = t]
              \/ ix' = Idle
              \/ \E p, T : ix' = [ix EXCEPT !.phase = p, !.todo = T, !.note = Nothing]
            BY <1>5 DEF Take
        <3>6. QED BY <2>2, <3>2, <3>3, <3>4, <3>5
    <2>5. QED BY <2>3, <2>4 DEF PassMoves
<1>6. ASSUME Stat
      PROVE  PassMoves
    <2>1. ix.at = "stat" /\ ix'.meta = vault[ix.note].meta /\ ix'.at \in {"next", "read"}
        BY <1>6 DEF Stat, At, Types, PassOK
    <2>2. QED BY <2>1 DEF PassMoves
<1>7. ASSUME Read
      PROVE  PassMoves
    <2>1. /\ ix.at = "read" /\ ix'.meta = ix.meta /\ ix'.note = ix.note
          /\ ix'.text = vault[ix.note].text
          /\ ix'.at = "touch" => rows[ix.note].text = vault[ix.note].text
        BY <1>7 DEF Read, At, Types, PassOK
    <2>2. QED BY <2>1 DEF PassMoves
<1>8. ASSUME ListChunks
      PROVE  PassMoves
    <2>1. ix'.at = "write_chunks" /\ ix'.meta = ix.meta
        BY <1>8 DEF ListChunks, Types, PassOK
    <2>2. QED BY <2>1 DEF PassMoves
<1>9. ASSUME Fails \/ Crash
      PROVE  PassMoves
    <2>1. ix'.at \in {"idle", "next"} /\ ix'.meta \in {ix.meta, 0}
        BY <1>9 DEF Fails, Crash, Idle, At, Types, PassOK
    <2>2. QED BY <2>1 DEF PassMoves
<1>10. QED BY <1>1, <1>2, <1>3, <1>4, <1>5, <1>6, <1>7, <1>8, <1>9

\* Statements on rows.
LEMMA WriteMoves ==
    ASSUME Types,
           \/ TouchNoteMeta \/ UpsertNote \/ UpsertChunk \/ DeleteChunksByID
           \/ InvalidateNoteEmbeddings \/ MarkNoteChunksCurrent
           \/ UpsertChunkEmbedding \/ MarkNoteEmbeddingsCurrent \/ DeleteNote
    PROVE  vault' = vault /\ RowMoves /\ PassMoves
<1>1. vault' = vault
    BY UpsertChunkIs DEF TouchNoteMeta, UpsertNote, DeleteChunksByID, InvalidateNoteEmbeddings,
       MarkNoteChunksCurrent, UpsertChunkEmbedding, MarkNoteEmbeddingsCurrent, DeleteNote, Stays,
       files
<1>2. rows = [n \in Notes |-> rows[n]] /\ \A n \in Notes : RowOK(rows[n])
    BY DEF Types, RowsOK
<1>3. RowMoves
    <2>1. CASE TouchNoteMeta
        BY <1>2, <2>1 DEF TouchNoteMeta, SeenMeta, At, RowMoves, SameRow, RowOK
    <2>2. CASE UpsertNote
        BY <1>2, <2>2 DEF UpsertNote, Upserted, SeenMeta, At, RowMoves, SameRow, RowOK
    <2>3. ASSUME rows' = rows \/ \E x : \/ rows' = [rows EXCEPT ![ix.note].chunks = x]
                                       \/ rows' = [rows EXCEPT ![ix.note].chunked = x]
                                       \/ rows' = [rows EXCEPT ![ix.note].embedded = x]
          PROVE  RowMoves
        <3>1. ASSUME NEW n \in Notes
              PROVE  \/ rows'[n] = rows[n]
                     \/ \E x : \/ rows'[n] = [rows[n] EXCEPT !.chunks = x]
                              \/ rows'[n] = [rows[n] EXCEPT !.chunked = x]
                              \/ rows'[n] = [rows[n] EXCEPT !.embedded = x]
            <4>1. CASE rows' = rows
                BY <4>1
            <4>2. ASSUME NEW x, rows' = [rows EXCEPT ![ix.note].chunks = x]
                  PROVE  rows'[n] = rows[n] \/ rows'[n] = [rows[n] EXCEPT !.chunks = x]
                BY <1>2, <4>2
            <4>3. ASSUME NEW x, rows' = [rows EXCEPT ![ix.note].chunked = x]
                  PROVE  rows'[n] = rows[n] \/ rows'[n] = [rows[n] EXCEPT !.chunked = x]
                BY <1>2, <4>3
            <4>4. ASSUME NEW x, rows' = [rows EXCEPT ![ix.note].embedded = x]
                  PROVE  rows'[n] = rows[n] \/ rows'[n] = [rows[n] EXCEPT !.embedded = x]
                BY <1>2, <4>4
            <4>5. QED BY <2>3, <4>1, <4>2, <4>3, <4>4
        <3>2. ASSUME NEW n \in Notes, NEW x
              PROVE  /\ rows'[n] = [rows[n] EXCEPT !.chunks = x] => SameRow(n)
                     /\ rows'[n] = [rows[n] EXCEPT !.chunked = x] => SameRow(n)
                     /\ rows'[n] = [rows[n] EXCEPT !.embedded = x] => SameRow(n)
            BY <1>2 DEF RowOK, SameRow
        <3>3. ASSUME NEW n \in Notes
              PROVE  SameRow(n)
            <4>1. rows'[n] = rows[n] => SameRow(n)
                BY DEF SameRow
            <4>2. QED BY <3>1, <3>2, <4>1
        <3>4. QED BY <3>3 DEF RowMoves
    <2>4. CASE \/ InvalidateNoteEmbeddings \/ MarkNoteChunksCurrent \/ MarkNoteEmbeddingsCurrent
               \/ UpsertChunk \/ DeleteChunksByID \/ UpsertChunkEmbedding
        <3>1. CASE UpsertChunk
            BY <2>3, <3>1, UpsertChunkIs
        <3>2. CASE DeleteChunksByID
            BY <2>3, <3>2 DEF DeleteChunksByID
        <3>3. CASE InvalidateNoteEmbeddings
            BY <2>3, <3>3 DEF InvalidateNoteEmbeddings
        <3>4. CASE MarkNoteChunksCurrent
            BY <2>3, <3>4 DEF MarkNoteChunksCurrent
        <3>5. CASE UpsertChunkEmbedding
            BY <2>3, <3>5 DEF UpsertChunkEmbedding
        <3>6. CASE MarkNoteEmbeddingsCurrent
            BY <2>3, <3>6 DEF MarkNoteEmbeddingsCurrent
        <3>7. QED BY <2>4, <3>1, <3>2, <3>3, <3>4, <3>5, <3>6
    <2>5. CASE DeleteNote
        BY <1>2, <2>5 DEF DeleteNote, At, RowMoves, SameRow
    <2>6. QED BY <2>1, <2>2, <2>4, <2>5
<1>4. PassMoves
    <2>1. CASE UpsertChunk
        <3>1. ix'.at = "write_chunks" /\ ix'.meta = ix.meta
            BY <2>1, UpsertChunkIs DEF Types, PassOK
        <3>2. QED BY <3>1 DEF PassMoves
    <2>2. CASE ~UpsertChunk
        <3>1. ix' = ix \/ \E place \in {"next", "list_chunks", "invalidate", "mark_chunks", "embed",
                                        "mark_embedded"} : Go(place)
            BY <2>2 DEF TouchNoteMeta, UpsertNote, DeleteChunksByID, InvalidateNoteEmbeddings,
               MarkNoteChunksCurrent, UpsertChunkEmbedding, MarkNoteEmbeddingsCurrent, DeleteNote,
               Skip
        <3>2. QED BY <3>1 DEF PassMoves, Go, Types, PassOK
    <2>3. QED BY <2>1, <2>2
<1>5. QED BY <1>1, <1>3, <1>4

\* Statements on profiles, and mounts.
LEMMA OtherMoves ==
    ASSUME Types, \/ UpsertNoteProfile \/ UpsertProfileEmbedding \/ InvalidateProfiles
                  \/ InvalidateVectors \/ Unmount \/ Mount \/ UNCHANGED vars
    PROVE  vault' = vault /\ rows' = rows /\ RowMoves /\ PassMoves
<1>1. vault' = vault /\ rows' = rows
    BY DEF UpsertNoteProfile, UpsertProfileEmbedding, InvalidateProfiles, InvalidateVectors,
       Unmount, Mount, Stays, vars, files, tables
<1>2. ix' = ix \/ \E place \in {"next", "reset_vectors", "walk"} : Go(place)
    BY DEF UpsertNoteProfile, UpsertProfileEmbedding, InvalidateProfiles, InvalidateVectors,
       Unmount, Mount, vars, Skip
<1>3. PassMoves
    BY <1>2 DEF PassMoves, Go, Types, PassOK
<1>4. QED BY <1>1, <1>3 DEF RowMoves, SameRow

\* Any step; only the user changes files.
LEMMA NextMoves ==
    ASSUME Types, [Next]_vars
    PROVE  RowMoves /\ PassMoves /\ (vault' = vault \/ Edit)
<1>1. CASE Edit
    BY <1>1 DEF Edit, tables, RowMoves, SameRow, PassMoves
<1>2. CASE ~Edit
    BY <1>2, LookMoves, WriteMoves, OtherMoves DEF Next, Pass
<1>3. QED BY <1>1, <1>2

-----------------------------------------------------------------------------
(***************************************************************************)
(* A skipped file has the text of its row: the time that is stored was read   *)
(* before the text, so an edit in between makes the file look newer.          *)
(***************************************************************************)
Clock ==
    /\ \A n \in Notes : vault[n].meta <= edits + 1 /\ rows[n].meta <= edits + 1
    /\ ix.meta <= edits + 1

Seen ==
    ix.meta = vault[ix.note].meta =>
        /\ ix.at = "touch" => rows[ix.note].text = vault[ix.note].text
        /\ ix.at = "upsert" => ix.text = vault[ix.note].text

Inv2 == Types /\ Clock /\ Seen /\ SkippedIsSame

LEMMA InitInv2 == Init => Inv2
<1> SUFFICES ASSUME Init PROVE Inv2
    OBVIOUS
<1>1. Types
    BY InitTypes
<1>2. PICK t \in Texts : /\ vault = [n \in Notes |-> [text |-> t, meta |-> 1]]
                         /\ rows \in [Notes -> {NoRow, OldRow(t)}]
    BY DEF Init
<1>3. edits = 0 /\ ix = Idle
    BY DEF Init
<1>4. Clock
    BY <1>2, <1>3 DEF Clock, Idle, NoRow, OldRow
<1>5. Seen
    BY <1>3 DEF Seen, Idle
<1>6. SkippedIsSame
    BY <1>2 DEF SkippedIsSame, Known, NoRow, OldRow
<1>7. QED BY <1>1, <1>4, <1>5, <1>6 DEF Inv2

LEMMA NextInv2 == Inv2 /\ [Next]_vars => Inv2'
<1> SUFFICES ASSUME Inv2, [Next]_vars PROVE Inv2'
    OBVIOUS
<1>1. Types /\ Types' /\ RowMoves /\ PassMoves /\ (vault' = vault \/ Edit)
    BY NextTypes, NextMoves DEF Inv2
<1>2. /\ edits \in Nat /\ edits' \in Nat /\ edits <= edits'
    <2>1. edits' = edits \/ edits' = edits + 1
        BY <1>1, UpsertChunkIs DEF Next, Pass, Begin, InvalidateProfiles, InvalidateVectors, Walk,
           Take, Stat, Read, TouchNoteMeta, UpsertNote, ListChunks, DeleteChunksByID,
           InvalidateNoteEmbeddings, MarkNoteChunksCurrent, UpsertChunkEmbedding,
           MarkNoteEmbeddingsCurrent, UpsertNoteProfile, UpsertProfileEmbedding, DeleteNote, Fails,
           Crash, Edit, Unmount, Mount, Stays, vars
    <2>2. QED BY <1>1, <2>1 DEF Types, FilesOK
<1>3. /\ \A n \in Notes : vault[n].meta \in Nat /\ rows[n].meta \in Nat /\ rows'[n].meta \in Nat
      /\ ix.meta \in Nat /\ ix'.meta \in Nat
      /\ ix.at \in {"stat", "read", "touch", "upsert"} => ix.note \in Notes
    BY <1>1 DEF Types, FilesOK, RowsOK, RowOK, PassOK, Busy, FileSteps
<1>4. CASE Edit
    <2>1. UNCHANGED <<rows, ix>> /\ edits' = edits + 1
        BY <1>4 DEF Edit, tables
    <2>2. PICK n \in Notes, t \in Texts \cup {Nothing} :
              vault' = [vault EXCEPT ![n] = [text |-> t, meta |-> edits + 2]]
        BY <1>4 DEF Edit
    <2>3. /\ vault'[n].meta = edits + 2
          /\ \A m \in Notes : m # n => vault'[m] = vault[m]
        BY <1>1, <2>2 DEF Types, FilesOK
    <2>4. Clock'
        BY <1>2, <1>3, <2>1, <2>3 DEF Inv2, Clock
    <2>5. rows[n].meta # edits + 2 /\ ix.meta # edits + 2
        BY <1>2, <1>3 DEF Inv2, Clock
    <2>6. Seen'
        BY <1>3, <2>1, <2>3, <2>5 DEF Inv2, Seen
    <2>7. SkippedIsSame'
        BY <2>1, <2>3, <2>5 DEF Inv2, SkippedIsSame, Known
    <2>8. QED BY <1>1, <2>4, <2>6, <2>7 DEF Inv2
<1>5. CASE vault' = vault
    <2>1. Clock'
        BY <1>1, <1>2, <1>3, <1>5 DEF Inv2, Clock, RowMoves, SameRow, PassMoves, NoRow
    <2>2. ASSUME ix' = ix
          PROVE  Seen'
        BY <1>1, <1>3, <1>5, <2>2 DEF Inv2, Seen, RowMoves, SameRow
    <2>3. ASSUME ix' # ix
          PROVE  Seen'
        BY <1>1, <1>3, <1>5, <2>3 DEF Inv2, Seen, PassMoves, RowMoves, SameRow
    <2>4. SkippedIsSame'
        BY <1>1, <1>3, <1>5 DEF Inv2, SkippedIsSame, Known, Seen, RowMoves, SameRow, NoRow
    <2>5. QED BY <1>1, <2>1, <2>2, <2>3, <2>4 DEF Inv2
<1>6. QED BY <1>1, <1>4, <1>5

\* A file that is skipped, because its time and size are those of its row, has the
\* text of its row, however often it was edited while a pass looked at it.
THEOREM SkippedStaysSame == Spec => []SkippedIsSame
<1>1. Inv2 => SkippedIsSame
    BY DEF Inv2
<1>2. QED BY <1>1, InitInv2, NextInv2, PTL DEF Spec

-----------------------------------------------------------------------------
(***************************************************************************)
(* A note that is dropped was not there when the vault was walked: a pass     *)
(* keeps the list of its walk to its end, and a walk with errors has no list. *)
(***************************************************************************)
Gone ==
    /\ ix.phase # "none" => Notes \ ix.listed \subseteq missing
    /\ ix.phase = "deletes" => ix.todo \cap ix.listed = {}
    /\ ix.at = "delete" => ix.note \notin ix.listed

\* Steps within a pass: the list stays, and notes are only taken from the todo.
Keeps ==
    /\ missing' = missing
    /\ \/ ix' = Idle
       \/ /\ ix'.phase = ix.phase /\ ix'.listed = ix.listed /\ ix'.todo \subseteq ix.todo
          /\ ix'.at = "delete" =>
                \/ ix.at = "delete" /\ ix'.note = ix.note
                \/ ix.phase = "deletes" /\ ix'.note \in ix.todo
       \/ /\ ix.phase # "none" /\ ix'.at = "next" /\ ix'.phase # "none" /\ ix'.listed = ix.listed
          /\ ix'.phase = "deletes" => ix'.todo = ix.known \ ix.listed

LEMMA KeepsGone ==
    ASSUME Types, Gone, Keeps
    PROVE  Gone'
<1>1. CASE ix' = Idle
    BY <1>1 DEF Idle, Gone
<1>2. CASE ix' # Idle
    BY <1>2 DEF Gone, Keeps, Types, PassOK
<1>3. QED BY <1>1, <1>2

\* A pass that goes on with the same note, and only to what is not a deletion.
LEMMA GoKeepsList ==
    ASSUME Types, missing' = missing, NEW place, place # "delete", Go(place)
    PROVE  Keeps
BY DEF Go, Keeps, Types, PassOK

LEMMA TakeKeeps ==
    ASSUME Types, Take
    PROVE  Keeps
<1>1. missing' = missing /\ ix.at = "next" /\ ix.phase \in PhaseNames
    BY DEF Take, Stays, At, Types, PassOK, Early
<1>2. ASSUME NEW n \in ix.todo, NEW t,
             ix' = [ix EXCEPT !.at = FirstStep[ix.phase], !.note = n, !.todo = @ \ {n}, !.text = t]
      PROVE  Keeps
    <2>1. /\ ix'.phase = ix.phase /\ ix'.listed = ix.listed /\ ix'.todo = ix.todo \ {n}
          /\ ix'.note = n /\ ix'.at = FirstStep[ix.phase]
        BY <1>2 DEF Types, PassOK
    <2>2. FirstStep[ix.phase] = "delete" => ix.phase = "deletes"
        BY <1>1 DEF FirstStep, PhaseNames
    <2>3. QED BY <1>1, <2>1, <2>2 DEF Keeps
<1>3. ASSUME ix' = [ix EXCEPT !.phase = After(ix.phase), !.todo = Todo(After(ix.phase)),
                              !.note = Nothing],
             ix.phase # "deletes"
      PROVE  Keeps
    <2>1. /\ ix'.at = "next" /\ ix'.phase = After(ix.phase) /\ ix'.listed = ix.listed
          /\ ix'.todo = Todo(After(ix.phase))
        BY <1>1, <1>3 DEF Types, PassOK
    <2>2. After(ix.phase) \in PhaseNames
        BY <1>1, <1>3, PhaseOrder DEF PhaseNames
    <2>3. After(ix.phase) = "deletes" => Todo(After(ix.phase)) = ix.known \ ix.listed
        BY DEF Todo
    <2>4. QED BY <1>1, <2>1, <2>2, <2>3 DEF Keeps, PhaseNames
<1>4. ix' = Idle => Keeps
    BY <1>1 DEF Keeps
<1>5. QED BY <1>2, <1>3, <1>4 DEF Take

LEMMA PassKeeps ==
    ASSUME Types, Pass \/ Fails \/ Crash \/ Edit \/ Unmount \/ Mount \/ UNCHANGED vars,
           ~Begin, ~Walk, ~Take
    PROVE  Keeps
<1>1. missing' = missing
    BY UpsertChunkIs DEF Pass, InvalidateProfiles, InvalidateVectors, Stat, Read, TouchNoteMeta,
       UpsertNote, ListChunks, DeleteChunksByID, InvalidateNoteEmbeddings, MarkNoteChunksCurrent,
       UpsertChunkEmbedding, MarkNoteEmbeddingsCurrent, UpsertNoteProfile, UpsertProfileEmbedding,
       DeleteNote, Fails, Crash, Edit, Unmount, Mount, Stays, vars
<1>2. ASSUME ix' = ix
      PROVE  Keeps
    BY <1>1, <1>2 DEF Keeps
<1>3. CASE Stat
    <2>1. /\ ix'.at \in {"next", "read"} /\ ix'.phase = ix.phase /\ ix'.listed = ix.listed
          /\ ix'.todo = ix.todo
        BY <1>3 DEF Stat, Types, PassOK
    <2>2. QED BY <1>1, <2>1 DEF Keeps
<1>4. CASE Read
    <2>1. /\ ix'.at \in {"next", "touch", "upsert"} /\ ix'.phase = ix.phase
          /\ ix'.listed = ix.listed /\ ix'.todo = ix.todo
        BY <1>4 DEF Read, Types, PassOK
    <2>2. QED BY <1>1, <2>1 DEF Keeps
<1>5. CASE ListChunks
    <2>1. /\ ix'.at = "write_chunks" /\ ix'.phase = ix.phase
          /\ ix'.listed = ix.listed /\ ix'.todo = ix.todo
        BY <1>5 DEF ListChunks, Types, PassOK
    <2>2. QED BY <1>1, <2>1 DEF Keeps
<1>6. CASE UpsertChunk
    <2>1. /\ ix'.at = ix.at /\ ix'.phase = ix.phase /\ ix'.note = ix.note
          /\ ix'.listed = ix.listed /\ ix'.todo = ix.todo
        BY <1>6, UpsertChunkIs DEF Types, PassOK
    <2>2. QED BY <1>1, <2>1 DEF Keeps
<1>7. CASE Fails \/ Crash
    <2>1. \/ ix' = Idle
          \/ ix' = [ix EXCEPT !.todo = {}] /\ ix.at = "next"
          \/ ix' = [ix EXCEPT !.at = "next"]
        BY <1>7 DEF Fails, Crash, At
    <2>2. CASE ix' = [ix EXCEPT !.todo = {}] /\ ix.at = "next"
        <3>1. /\ ix'.at = "next" /\ ix'.phase = ix.phase /\ ix'.listed = ix.listed /\ ix'.todo = {}
            BY <2>2 DEF Types, PassOK
        <3>2. QED BY <1>1, <3>1 DEF Keeps
    <2>3. CASE Go("next")
        BY <1>1, <2>3, GoKeepsList
    <2>4. QED BY <1>1, <2>1, <2>2, <2>3 DEF Keeps, Go
<1>8. CASE \/ InvalidateProfiles \/ InvalidateVectors \/ TouchNoteMeta \/ UpsertNote
           \/ DeleteChunksByID \/ InvalidateNoteEmbeddings \/ MarkNoteChunksCurrent
           \/ UpsertChunkEmbedding \/ MarkNoteEmbeddingsCurrent \/ UpsertNoteProfile
           \/ UpsertProfileEmbedding \/ DeleteNote
    <2>1. ix' = ix \/ \E place \in {"reset_vectors", "walk", "next", "list_chunks", "invalidate",
                                    "mark_chunks", "embed", "mark_embedded"} : Go(place)
        BY <1>8 DEF InvalidateProfiles, InvalidateVectors, TouchNoteMeta, UpsertNote,
           DeleteChunksByID, InvalidateNoteEmbeddings, MarkNoteChunksCurrent,
           UpsertChunkEmbedding, MarkNoteEmbeddingsCurrent, UpsertNoteProfile,
           UpsertProfileEmbedding, DeleteNote, Skip
    <2>2. QED BY <1>1, <1>2, <2>1, GoKeepsList
<1>9. CASE Edit \/ Unmount \/ Mount \/ UNCHANGED vars
    <2>1. ix' = ix
        BY <1>9 DEF Edit, Unmount, Mount, vars
    <2>2. QED BY <1>2, <2>1
<1>10. QED BY <1>3, <1>4, <1>5, <1>6, <1>7, <1>8, <1>9 DEF Pass

LEMMA NextGone == Types /\ Gone /\ [Next]_vars => Gone'
<1> SUFFICES ASSUME Types, Gone, [Next]_vars PROVE Gone'
    OBVIOUS
<1>1. CASE Begin
    <2>1. ix'.phase = "none" /\ ix'.at \in {"walk", "reset"}
        BY <1>1 DEF Begin, Idle
    <2>2. QED BY <2>1 DEF Gone
<1>2. CASE Walk
    <2>1. CASE ix' = Idle
        BY <2>1 DEF Idle, Gone
    <2>2. CASE \E l \in Listing :
                  /\ ix' = [ix EXCEPT !.at = "next", !.phase = "files", !.todo = l,
                                      !.listed = l, !.known = Known]
                  /\ missing' = IF mount = "empty" THEN Notes ELSE Notes \ Present
        <3>1. PICK l \in Listing :
                  /\ ix' = [ix EXCEPT !.at = "next", !.phase = "files", !.todo = l,
                                      !.listed = l, !.known = Known]
                  /\ missing' = IF mount = "empty" THEN Notes ELSE Notes \ Present
            BY <2>2
        <3>2. Notes \ l \subseteq missing'
            BY <3>1 DEF Listing, Types, FilesOK
        <3>3. ix'.at = "next" /\ ix'.phase = "files" /\ ix'.listed = l
            BY <3>1 DEF Types, PassOK
        <3>4. QED BY <3>2, <3>3 DEF Gone
    <2>3. QED BY <1>2, <2>1, <2>2 DEF Walk
<1>3. CASE ~Begin /\ ~Walk
    BY <1>3, KeepsGone, TakeKeeps, PassKeeps DEF Next
<1>4. QED BY <1>1, <1>2, <1>3

\* A note leaves the index only when it was not there while the vault was walked,
\* not when a walk met errors, and not when the note was only unreadable.
THEOREM DroppedRightly == Spec => DroppedWereGone
<1>1. Init => Types /\ Gone
    <2>1. Init => Gone
        BY DEF Init, Idle, Gone
    <2>2. QED BY <2>1, InitTypes
<1>2. Types /\ Gone /\ [Next]_vars => (Types /\ Gone)'
    BY NextTypes, NextGone
<1>3. Types /\ Gone /\ [Next]_vars => [\A n \in Known : rows'[n] = NoRow => n \in missing]_vars
    <2> SUFFICES ASSUME Types, Gone, [Next]_vars, NEW n \in Known, rows'[n] = NoRow
                 PROVE  n \in missing
        OBVIOUS
    <2>1. n \in Notes /\ rows[n].text # Nothing /\ rows'[n].text = Nothing
        BY DEF Known, NoRow
    <2>2. ix.at = "upsert" => ix.text # Nothing
        BY SearchAssumption DEF Types, TextOK
    <2>3. n = ix.note /\ ix.at = "delete"
        BY <2>1, <2>2, NextMoves DEF RowMoves, SameRow
    <2>4. ix.phase = "deletes"
        BY <2>3 DEF Types, PassOK
    <2>5. QED BY <2>1, <2>3, <2>4 DEF Gone
<1>4. QED BY <1>1, <1>2, <1>3, PTL DEF Spec, DroppedWereGone
-----------------------------------------------------------------------------
(***************************************************************************)
(* What the search compares is made of what it stands for.  First the chunks  *)
(* and their vectors: a note is marked only when its rows were brought to the *)
(* chunks of its text, whatever was left of an earlier pass.                 *)
(***************************************************************************)
LexicalOf(S) == {[kind |-> c.kind, ord |-> c.ord, text |-> c.text] : c \in S}

Wanted == Chunks(ix.text)

Marked == \A n \in Notes : rows[n].chunked = "current" => Lexical(n) = Chunks(rows[n].text)

Embedded(r) == r.embedded => \A c \in r.chunks : c.vector \in {Nothing, c.text}

\* While a chunk is written over in the place it had before the upgrade, its vector
\* is still that of the former one, and after a fault it may stay so.
InUpgrade(n) ==
    /\ ix.phase = "chunks" /\ n = ix.note
    /\ ix.at = "invalidate" \/ (ix.at = "write_chunks" /\ ix.changed)

Torn == {n \in inherited : faults # 0 \/ InUpgrade(n)}

VectorsMade == \A n \in Notes \ Torn : Embedded(rows[n])

\* A note that this version has read is marked as embedded after its chunks are.
Settled == \A n \in Notes \ inherited : rows[n].embedded => rows[n].chunked = "current"

Waiting ==
    /\ ix.phase = "chunks" => \A n \in ix.todo : rows[n].chunked # "current"
    /\ ix.phase = "embeddings" => \A n \in ix.todo : rows[n].chunked = "current"

\* Of the rows of the note in hand, what is not wanted is still to be written over
\* or is stale, and what is stale takes nothing with it that is wanted.
Writing ==
    /\ Wanted \ ix.write \subseteq Lexical(ix.note)
    /\ \A c \in Lexical(ix.note) \ (Wanted \ ix.write) :
          \E d \in ix.write \cup ix.stale : SameKey(c, d)
    /\ \A c \in ix.stale, d \in Wanted : ~SameKey(c, d)

AtWork ==
    /\ ix.at \in ChunkSteps =>
          /\ rows[ix.note].chunked # "current"
          /\ ix.phase = "files" => ~rows[ix.note].embedded
          /\ ix.phase = "chunks" => ix.note \notin ix.todo
    /\ ix.at = "write_chunks" => Writing /\ (ix.changed \/ Wanted \subseteq Lexical(ix.note))
    /\ ix.at \in {"invalidate", "mark_chunks"} => Lexical(ix.note) = Wanted
    /\ ix.at \in EmbedSteps => rows[ix.note].chunked = "current"
    /\ ix.at = "mark_embedded" => \A c \in rows[ix.note].chunks : c.vector = c.text

RowsMade == Marked /\ VectorsMade /\ Settled /\ Waiting /\ AtWork

\* The pass turns to a place where no note is at work.
Leaves ==
    /\ ix'.at \notin ChunkSteps \cup EmbedSteps \cup {"extract", "embed_profile"}
    /\ ix'.phase \in {"chunks", "embeddings", "profiles", "vectors"} =>
          ix'.phase = ix.phase /\ ix'.todo \subseteq ix.todo

\* A chunk of a text is told by its place in it.
LEMMA TextKeys ==
    ASSUME NEW t \in Texts
    PROVE  /\ \A c \in Chunks(t) : /\ c = [kind |-> c.kind, ord |-> c.ord, text |-> c.text]
                                   /\ c.ord \in Nat
           /\ \A c, d \in Chunks(t) : SameKey(c, d) => c = d
BY SearchAssumption DEF SameKey

LEMMA SameKeyIs ==
    /\ \A c, d : SameKey(c, d) <=> SameKey(d, c)
    /\ \A c : SameKey(c, c)
    /\ \A c, d, e : SameKey(c, d) /\ SameKey(d, e) => SameKey(c, e)
BY DEF SameKey

LEMMA LexicalSame ==
    ASSUME rows' = rows
    PROVE  \A n : Lexical(n)' = Lexical(n)
BY DEF Lexical

\* A note stops to be torn by a statement on its row alone.
LEMMA TornStays ==
    ASSUME inherited' = inherited,
           \/ faults' # 0
           \/ faults' = faults /\ (ix' = ix \/ ix.at \notin {"write_chunks", "invalidate"})
    PROVE  Torn \subseteq Torn'
BY DEF Torn, InUpgrade

\* Steps that leave the rows.
LEMMA RowsKept ==
    ASSUME RowsMade, rows' = rows, inherited' = inherited, Torn \subseteq Torn', ix' = ix \/ Leaves
    PROVE  RowsMade'
<1>1. \A n : Lexical(n)' = Lexical(n)
    BY LexicalSame
<1>2. Marked' /\ VectorsMade' /\ Settled'
    BY <1>1 DEF RowsMade, Marked, VectorsMade, Embedded, Settled
<1>3. CASE ix' = ix
    BY <1>1, <1>2, <1>3 DEF RowsMade, Waiting, AtWork, Writing, Wanted
<1>4. CASE Leaves
    <2>1. Waiting'
        BY <1>4 DEF RowsMade, Waiting, Leaves
    <2>2. AtWork'
        BY <1>4 DEF AtWork, Leaves, ChunkSteps, EmbedSteps
    <2>3. QED BY <1>2, <2>1, <2>2 DEF RowsMade
<1>5. QED BY <1>3, <1>4

\* A statement on the row of the note in hand.
LEMMA OneRow ==
    ASSUME Types, ix.note \in Notes, NEW r, rows' = [rows EXCEPT ![ix.note] = r]
    PROVE  /\ rows'[ix.note] = r
           /\ \A m \in Notes \ {ix.note} : rows'[m] = rows[m] /\ Lexical(m)' = Lexical(m)
           /\ \A m \in Notes : m = ix.note => Lexical(m)' = LexicalOf(r.chunks)
<1>1. rows'[ix.note] = r /\ \A m \in Notes \ {ix.note} : rows'[m] = rows[m]
    BY DEF Types, RowsOK
<1>2. QED BY <1>1 DEF Lexical, LexicalOf

LEMMA RowMade ==
    ASSUME Types, RowsMade, ix.note \in Notes, NEW r, rows' = [rows EXCEPT ![ix.note] = r],
           faults' = faults, inherited \subseteq inherited' \cup {ix.note},
           r.chunked = "current" => LexicalOf(r.chunks) = Chunks(r.text),
           ix.note \notin Torn' => Embedded(r),
           ix.note \notin inherited' /\ r.embedded => r.chunked = "current",
           ix'.phase \in {"chunks", "embeddings"} =>
              /\ ix.phase = ix'.phase /\ ix'.todo \subseteq ix.todo
              /\ ix.note \in ix.todo => (r.chunked = "current" <=> ix.phase = "embeddings")
    PROVE  Marked' /\ VectorsMade' /\ Settled' /\ Waiting'
<1>1. /\ rows'[ix.note] = r
      /\ \A m \in Notes \ {ix.note} : rows'[m] = rows[m] /\ Lexical(m)' = Lexical(m)
      /\ \A m \in Notes : m = ix.note => Lexical(m)' = LexicalOf(r.chunks)
    BY OneRow
<1>2. ASSUME NEW m \in Notes
      PROVE  rows'[m].chunked = "current" => Lexical(m)' = Chunks(rows'[m].text)
    <2>1. CASE m = ix.note
        BY <1>1, <2>1
    <2>2. CASE m # ix.note
        BY <1>1, <2>2 DEF RowsMade, Marked
    <2>3. QED BY <2>1, <2>2
<1>3. Marked'
    BY <1>2 DEF Marked
<1>4. Torn \subseteq Torn' \cup {ix.note}
    BY DEF Torn, InUpgrade
<1>5. VectorsMade'
    BY <1>1, <1>4 DEF RowsMade, VectorsMade, Embedded
<1>6. Settled'
    BY <1>1 DEF RowsMade, Settled
<1>7. Waiting'
    BY <1>1 DEF RowsMade, Waiting, Types, PassOK
<1>8. QED BY <1>3, <1>5, <1>6, <1>7

LEMMA TakeRowsMade ==
    ASSUME Types, RowsMade, Take
    PROVE  RowsMade'
<1>1. /\ rows' = rows /\ inherited' = inherited /\ faults' = faults
      /\ ix.at = "next" /\ ix.phase \in PhaseNames
    BY DEF Take, Stays, tables, At, Types, PassOK, Early
<1>2. Torn \subseteq Torn'
    BY <1>1, TornStays
<1>3. Marked' /\ VectorsMade' /\ Settled'
    BY <1>1, <1>2, LexicalSame DEF RowsMade, Marked, VectorsMade, Embedded, Settled
<1>4. ASSUME NEW n \in ix.todo, NEW t,
             ix' = [ix EXCEPT !.at = FirstStep[ix.phase], !.note = n, !.todo = @ \ {n}, !.text = t]
      PROVE  RowsMade'
    <2>1. /\ ix'.at = FirstStep[ix.phase] /\ ix'.note = n /\ ix'.todo = ix.todo \ {n}
          /\ ix'.phase = ix.phase
        BY <1>4 DEF Types, PassOK
    <2>2. /\ FirstStep["chunks"] = "list_chunks" /\ FirstStep["embeddings"] = "embed"
          /\ ix.phase \notin {"chunks", "embeddings"} =>
                FirstStep[ix.phase] \notin ChunkSteps \cup EmbedSteps
        BY <1>1 DEF FirstStep, PhaseNames, ChunkSteps, EmbedSteps
    <2>3. Waiting'
        BY <1>1, <2>1 DEF RowsMade, Waiting
    <2>4. CASE ix.phase = "chunks"
        <3>1. /\ ix'.at = "list_chunks" /\ ix'.note = n /\ ix'.todo = ix.todo \ {n}
              /\ ix'.phase = "chunks" /\ rows'[n].chunked # "current"
            BY <1>1, <2>1, <2>2, <2>4 DEF RowsMade, Waiting
        <3>2. AtWork'
            BY <3>1 DEF AtWork, ChunkSteps, EmbedSteps
        <3>3. QED BY <1>3, <2>3, <3>2 DEF RowsMade
    <2>5. CASE ix.phase = "embeddings"
        <3>1. /\ ix'.at = "embed" /\ ix'.note = n
              /\ ix'.phase = "embeddings" /\ rows'[n].chunked = "current"
            BY <1>1, <2>1, <2>2, <2>5 DEF RowsMade, Waiting
        <3>2. AtWork'
            BY <3>1 DEF AtWork, ChunkSteps, EmbedSteps
        <3>3. QED BY <1>3, <2>3, <3>2 DEF RowsMade
    <2>6. CASE ix.phase \notin {"chunks", "embeddings"}
        <3>1. AtWork'
            BY <2>1, <2>2, <2>6 DEF AtWork, ChunkSteps, EmbedSteps
        <3>2. QED BY <1>3, <2>3, <3>1 DEF RowsMade
    <2>7. QED BY <2>4, <2>5, <2>6
<1>5. ASSUME ix' = [ix EXCEPT !.phase = After(ix.phase), !.todo = Todo(After(ix.phase)),
                              !.note = Nothing]
      PROVE  RowsMade'
    <2>1. ix'.at = "next" /\ ix'.phase = After(ix.phase) /\ ix'.todo = Todo(After(ix.phase))
        BY <1>1, <1>5 DEF Types, PassOK
    <2>2. Todo("chunks") = NotesNeedingChunks /\ Todo("embeddings") = NotesNeedingEmbeddings
        BY DEF Todo
    <2>3. Waiting'
        BY <1>1, <2>1, <2>2 DEF Waiting, NotesNeedingChunks, NotesNeedingEmbeddings
    <2>4. AtWork'
        BY <2>1 DEF AtWork, ChunkSteps, EmbedSteps
    <2>5. QED BY <1>3, <2>3, <2>4 DEF RowsMade
<1>6. CASE ix' = Idle
    <2>1. Leaves
        BY <1>6 DEF Leaves, Idle, ChunkSteps, EmbedSteps
    <2>2. QED BY <1>1, <1>2, <2>1, RowsKept
<1>7. QED BY <1>4, <1>5, <1>6 DEF Take

\* A file is found unchanged, or its text replaces the one that is stored.
LEMMA FileRowsMade ==
    ASSUME Types, RowsMade, TouchNoteMeta \/ UpsertNote
    PROVE  RowsMade'
<1>1. ix.at \in {"touch", "upsert"}
    BY DEF TouchNoteMeta, UpsertNote, At
<1>2. ix.note \in Notes /\ ix.phase = "files"
    BY <1>1 DEF Types, PassOK, Busy, FileSteps
<1>3. RowOK(rows[ix.note])
    BY <1>2 DEF Types, RowsOK
<1>4. CASE TouchNoteMeta
    <2> DEFINE r == [rows[ix.note] EXCEPT !.meta = ix.meta]
    <2>1. /\ rows' = [rows EXCEPT ![ix.note] = r] /\ Go("next")
          /\ inherited' = inherited /\ faults' = faults
        BY <1>4 DEF TouchNoteMeta, SeenMeta, Stays, Skip
    <2>2. /\ r.text = rows[ix.note].text /\ r.chunked = rows[ix.note].chunked
          /\ r.embedded = rows[ix.note].embedded /\ r.chunks = rows[ix.note].chunks
        BY <1>3 DEF RowOK
    <2>3. ix'.at = "next" /\ ix'.phase = "files"
        BY <1>2, <2>1 DEF Go, Types, PassOK
    <2> HIDE DEF r
    <2>4. r.chunked = "current" => LexicalOf(r.chunks) = Chunks(r.text)
        BY <1>2, <2>2 DEF RowsMade, Marked, Lexical, LexicalOf
    <2>5. Torn \subseteq Torn'
        BY <1>1, <2>1, TornStays
    <2>6. ix.note \notin Torn' => Embedded(r)
        BY <1>2, <2>2, <2>5 DEF RowsMade, VectorsMade, Embedded
    <2>7. ix.note \notin inherited' /\ r.embedded => r.chunked = "current"
        BY <1>2, <2>1, <2>2 DEF RowsMade, Settled
    <2>8. Marked' /\ VectorsMade' /\ Settled' /\ Waiting'
        BY <1>2, <2>1, <2>3, <2>4, <2>6, <2>7, RowMade
    <2>9. AtWork'
        BY <2>3 DEF AtWork, ChunkSteps, EmbedSteps
    <2>10. QED BY <2>8, <2>9 DEF RowsMade
<1>5. CASE UpsertNote
    <2> DEFINE r == Upserted(rows[ix.note])
    <2>1. /\ rows' = [rows EXCEPT ![ix.note] = r] /\ Go("list_chunks")
          /\ inherited' = inherited \ {ix.note} /\ faults' = faults
        BY <1>5 DEF UpsertNote
    <2>2. r.chunked = "none" /\ ~r.embedded
        BY <1>3 DEF RowOK, Upserted
    <2>3. /\ ix'.at = "list_chunks" /\ ix'.phase = "files" /\ ix'.note = ix.note
        BY <1>2, <2>1 DEF Go, Types, PassOK
    <2> HIDE DEF r
    <2>4. Marked' /\ VectorsMade' /\ Settled' /\ Waiting'
        BY <1>2, <2>1, <2>2, <2>3, RowMade DEF Embedded
    <2>5. rows'[ix.note] = r
        BY <1>2, <2>1, OneRow
    <2>6. AtWork'
        BY <2>2, <2>3, <2>5 DEF AtWork, ChunkSteps, EmbedSteps
    <2>7. QED BY <2>4, <2>6 DEF RowsMade
<1>6. QED BY <1>4, <1>5

\* What is wanted and what is stale is read from the rows.
LEMMA ListRowsMade ==
    ASSUME Types, RowsMade, ListChunks
    PROVE  RowsMade'
<1> DEFINE stale == {c \in Lexical(ix.note) : ~\E d \in Wanted : SameKey(c, d)}
<1>1. /\ rows' = rows /\ ix.at = "list_chunks"
      /\ inherited' = inherited /\ faults' = faults
    BY DEF ListChunks, Stays, tables, At
<1>2. /\ ix'.at = "write_chunks" /\ ix'.write = Wanted /\ ix'.stale = stale
      /\ ix'.phase = ix.phase /\ ix'.todo = ix.todo /\ ix'.note = ix.note /\ ix'.text = ix.text
      /\ ix'.changed \/ Wanted \subseteq Lexical(ix.note)
    BY DEF ListChunks, Types, PassOK, Wanted
<1>3. Lexical(ix.note)' = Lexical(ix.note) /\ \A n : Lexical(n)' = Lexical(n)
    BY <1>1, <1>2, LexicalSame DEF Lexical
<1>4. Marked' /\ VectorsMade' /\ Settled' /\ Waiting'
    <2>1. Torn \subseteq Torn'
        BY <1>1, TornStays
    <2>2. QED BY <1>1, <1>2, <1>3, <2>1
                 DEF RowsMade, Marked, VectorsMade, Embedded, Settled, Waiting
<1>5. Wanted' = Wanted
    BY <1>2 DEF Wanted
<1>6. \A c \in Lexical(ix.note) : \E d \in Wanted \cup stale : SameKey(c, d)
    BY SameKeyIs
<1>7. \A c \in stale, d \in Wanted : ~SameKey(c, d)
    OBVIOUS
<1> HIDE DEF stale
<1>8. Writing'
    BY <1>2, <1>3, <1>5, <1>6, <1>7 DEF Writing
<1>9. AtWork'
    BY <1>1, <1>2, <1>3, <1>5, <1>8 DEF RowsMade, AtWork, ChunkSteps, EmbedSteps
<1>10. QED BY <1>4, <1>9 DEF RowsMade

\* Of the rows of a note those with another key stay, and the chunk is there.
LEMMA NewLexical ==
    ASSUME Types, UpsertChunk
    PROVE  /\ NextChunk \in ix.write /\ NextChunk \in Wanted
           /\ LexicalOf(NewChunks) =
                 {c \in Lexical(ix.note) : ~SameKey(NextChunk, c)} \cup {NextChunk}
<1>1. ix.at = "write_chunks" /\ ix.write # {}
    BY UpsertChunkIs
<1>2. ix.write \subseteq Wanted /\ ix.text \in Texts
    BY <1>1 DEF Types, TextOK, ChunkSteps, Wanted
<1>3. NextChunk \in ix.write /\ NextChunk \in Wanted
    BY <1>1, <1>2, NextChunkIsOne, TextKeys DEF Wanted
<1>4. NextChunk = [kind |-> NextChunk.kind, ord |-> NextChunk.ord, text |-> NextChunk.text]
    BY <1>2, <1>3, TextKeys DEF Wanted
<1>5. [kind |-> NewChunk.kind, ord |-> NewChunk.ord, text |-> NewChunk.text] = NextChunk
    BY <1>4 DEF NewChunk
<1>6. \A d : SameKey(NextChunk, [kind |-> d.kind, ord |-> d.ord, text |-> d.text])
                <=> SameKey(NextChunk, d)
    BY DEF SameKey
<1>7. LexicalOf(NewChunks) =
         {c \in Lexical(ix.note) : ~SameKey(NextChunk, c)} \cup {NextChunk}
    <2> DEFINE lex(d) == [kind |-> d.kind, ord |-> d.ord, text |-> d.text]
    <2>1. NewChunks = {d \in rows[ix.note].chunks : ~SameKey(NextChunk, d)} \cup {NewChunk}
        BY DEF NewChunks, Former
    <2>2. /\ LexicalOf(NewChunks) = {lex(d) : d \in NewChunks}
          /\ Lexical(ix.note) = {lex(d) : d \in rows[ix.note].chunks}
        BY DEF LexicalOf, Lexical
    <2>3. lex(NewChunk) = NextChunk /\ \A d : SameKey(NextChunk, lex(d)) <=> SameKey(NextChunk, d)
        BY <1>5, <1>6
    <2> HIDE DEF lex
    <2>4. QED BY <2>1, <2>2, <2>3
<1>8. QED BY <1>3, <1>7

\* Among the notes whose chunks are written, those in the search are inherited.
LEMMA WrittenInherited ==
    ASSUME Types, RowsMade, ix.at \in ChunkSteps, rows[ix.note].embedded
    PROVE  ix.phase = "chunks" /\ ix.note \in inherited
<1>1. ix.note \in Notes /\ ix.phase \in {"files", "chunks"}
    BY DEF Types, PassOK, Busy
<1>2. QED BY <1>1 DEF RowsMade, AtWork, Settled

\* A chunk that takes the place of another text takes its vector too; then the note
\* is not in the search, or it is torn.
LEMMA NewVectors ==
    ASSUME Types, RowsMade, UpsertChunk, ix.note \notin Torn', rows[ix.note].embedded
    PROVE  \A c \in NewChunks : c.vector \in {Nothing, c.text}
<1>1. /\ ix.at = "write_chunks" /\ inherited' = inherited /\ faults' = faults
      /\ ix'.at = ix.at /\ ix'.phase = ix.phase /\ ix'.note = ix.note /\ ix'.changed = ix.changed
    BY UpsertChunkIs DEF Types, PassOK
<1>2. ix.note \in Notes /\ ix.phase \in {"files", "chunks"} /\ ChunksOK(rows[ix.note].chunks)
    BY <1>1 DEF Types, PassOK, RowsOK, Busy, ChunkSteps
<1>3. ix.phase = "chunks" /\ ix.note \in inherited
    BY <1>1, WrittenInherited DEF ChunkSteps
<1>4. ix.note \notin Torn /\ NextChunk \in Lexical(ix.note)
    <2>1. ~ix.changed /\ ix.note \notin Torn
        BY <1>1, <1>3 DEF Torn, InUpgrade
    <2>2. NextChunk \in Wanted
        BY NewLexical
    <2>3. QED BY <1>1, <2>1, <2>2 DEF RowsMade, AtWork
<1>5. \A c \in rows[ix.note].chunks : c.vector \in {Nothing, c.text}
    BY <1>2, <1>4 DEF RowsMade, VectorsMade, Embedded
<1>6. PICK d \in rows[ix.note].chunks :
          NextChunk = [kind |-> d.kind, ord |-> d.ord, text |-> d.text]
    BY <1>4 DEF Lexical
<1>7. d.kind = NextChunk.kind /\ d.ord = NextChunk.ord /\ d.text = NextChunk.text
    BY <1>6
<1>8. d \in Former /\ \A e \in Former : e = d
    BY <1>2, <1>7 DEF Former, SameKey, ChunksOK
<1>9. KeptVector = d.vector
    <2>1. Former = {d}
        BY <1>8
    <2>2. (CHOOSE e \in {d} : TRUE) = d
        OBVIOUS
    <2>3. QED BY <2>1, <2>2 DEF KeptVector
<1>10. NewChunk.vector = d.vector /\ NewChunk.text = d.text
    BY <1>7, <1>9 DEF NewChunk
<1>11. QED BY <1>5, <1>10 DEF NewChunks

\* The row with other chunks.
LEMMA RowWithChunks ==
    ASSUME Types, ix.note \in Notes, NEW S
    PROVE  LET r == [rows[ix.note] EXCEPT !.chunks = S]
           IN  /\ r.text = rows[ix.note].text /\ r.chunked = rows[ix.note].chunked
               /\ r.embedded = rows[ix.note].embedded /\ r.chunks = S
<1>1. RowOK(rows[ix.note])
    BY DEF Types, RowsOK
<1>2. QED BY <1>1 DEF RowOK

LEMMA UpsertChunkRowsMade ==
    ASSUME Types, RowsMade, UpsertChunk
    PROVE  RowsMade'
<1> DEFINE r == [rows[ix.note] EXCEPT !.chunks = NewChunks]
           n == ix.note
           L == Lexical(ix.note)
<1>1. /\ ix.at = "write_chunks" /\ rows' = [rows EXCEPT ![ix.note] = r]
      /\ inherited' = inherited /\ faults' = faults /\ ix'.changed = ix.changed
      /\ ix'.at = ix.at /\ ix'.phase = ix.phase /\ ix'.todo = ix.todo /\ ix'.note = ix.note
      /\ ix'.text = ix.text /\ ix'.stale = ix.stale /\ ix'.write = ix.write \ {NextChunk}
    BY UpsertChunkIs DEF Types, PassOK
<1>2. n \in Notes /\ ix.phase \in {"files", "chunks"} /\ ix.text \in Texts
    BY <1>1 DEF Types, PassOK, TextOK, Busy, ChunkSteps
<1>3. /\ r.text = rows[n].text /\ r.chunked = rows[n].chunked
      /\ r.embedded = rows[n].embedded /\ r.chunks = NewChunks
    BY <1>2, RowWithChunks
<1>4. /\ rows[n].chunked # "current"
      /\ ix.phase = "files" => ~rows[n].embedded
      /\ ix.phase = "chunks" => n \notin ix.todo
      /\ Writing
    BY <1>1 DEF RowsMade, AtWork, ChunkSteps
<1> HIDE DEF r
<1>5. n \notin Torn' => Embedded(r)
    BY <1>3, NewVectors DEF Embedded
<1>6. Marked' /\ VectorsMade' /\ Settled' /\ Waiting'
    <2>1. n \notin inherited' /\ r.embedded => r.chunked = "current"
        BY <1>1, <1>2, <1>3 DEF RowsMade, Settled
    <2>2. QED BY <1>1, <1>2, <1>3, <1>4, <1>5, <2>1, RowMade
<1>7. rows'[n] = r /\ Lexical(ix.note)' = LexicalOf(NewChunks)
    BY <1>1, <1>2, <1>3, OneRow DEF Lexical, LexicalOf
<1>8. /\ NextChunk \in ix.write /\ NextChunk \in Wanted
      /\ Lexical(ix.note)' = {c \in L : ~SameKey(NextChunk, c)} \cup {NextChunk}
    BY <1>7, NewLexical
<1>9. Wanted' = Wanted /\ \A c, d \in Wanted : SameKey(c, d) => c = d
    BY <1>1, <1>2, TextKeys DEF Wanted
<1>10. Wanted \ (ix.write \ {NextChunk}) \subseteq Lexical(ix.note)'
    BY <1>4, <1>8, <1>9 DEF Writing
<1>11. ASSUME NEW c \in Lexical(ix.note)' \ (Wanted \ (ix.write \ {NextChunk}))
       PROVE  \E d \in (ix.write \ {NextChunk}) \cup ix.stale : SameKey(c, d)
    <2>1. c # NextChunk
        BY <1>8, <1>11
    <2>2. c \in L /\ ~SameKey(NextChunk, c) /\ c \notin Wanted \ ix.write
        BY <1>8, <1>11, <2>1
    <2>3. PICK d \in ix.write \cup ix.stale : SameKey(c, d)
        BY <1>4, <2>2 DEF Writing
    <2>4. d # NextChunk
        BY <2>2, <2>3, SameKeyIs
    <2>5. QED BY <2>3, <2>4
<1>12. Writing'
    BY <1>1, <1>4, <1>9, <1>10, <1>11 DEF Writing
<1>13. AtWork'
    <2>1. ix.changed \/ Wanted \subseteq L
        BY <1>1 DEF RowsMade, AtWork
    <2>2. Wanted \subseteq L => Wanted' \subseteq Lexical(ix.note)'
        BY <1>8, <1>9
    <2>3. QED BY <1>1, <1>3, <1>4, <1>7, <1>12, <2>1, <2>2 DEF AtWork, ChunkSteps, EmbedSteps
<1>14. QED BY <1>6, <1>13 DEF RowsMade

\* When all is written and what is stale is gone, the rows are those of the text.
LEMMA DeleteChunksRowsMade ==
    ASSUME Types, RowsMade, DeleteChunksByID
    PROVE  RowsMade'
<1> DEFINE S == {c \in rows[ix.note].chunks : ~\E d \in ix.stale : SameKey(c, d)}
           r == [rows[ix.note] EXCEPT !.chunks = S]
           n == ix.note
<1>1. /\ ix.at = "write_chunks" /\ ix.write = {}
      /\ rows' = [rows EXCEPT ![ix.note] = r] /\ inherited' = inherited /\ faults' = faults
      /\ ix'.at = IF ix.changed THEN "invalidate" ELSE "mark_chunks"
      /\ ix'.phase = ix.phase /\ ix'.todo = ix.todo /\ ix'.note = ix.note /\ ix'.text = ix.text
    BY DEF DeleteChunksByID, At, Go, Stays, Types, PassOK
<1>2. n \in Notes /\ ix.phase \in {"files", "chunks"}
    BY <1>1 DEF Types, PassOK, Busy, ChunkSteps
<1>3. /\ r.text = rows[n].text /\ r.chunked = rows[n].chunked
      /\ r.embedded = rows[n].embedded /\ r.chunks = S
    BY <1>2, RowWithChunks
<1>4. /\ rows[n].chunked # "current"
      /\ ix.phase = "files" => ~rows[n].embedded
      /\ ix.phase = "chunks" => n \notin ix.todo
      /\ Writing
    BY <1>1 DEF RowsMade, AtWork, ChunkSteps
<1> HIDE DEF r
<1>5. n \notin Torn' => Embedded(r)
    <2>1. ASSUME n \notin Torn', r.embedded
          PROVE  n \notin Torn
        <3>1. ix.phase = "chunks" /\ n \in inherited
            BY <1>1, <1>3, <2>1, WrittenInherited DEF ChunkSteps
        <3>2. QED BY <1>1, <2>1, <3>1 DEF Torn, InUpgrade
    <2>2. QED BY <1>2, <1>3, <2>1 DEF RowsMade, VectorsMade, Embedded
<1>6. Marked' /\ VectorsMade' /\ Settled' /\ Waiting'
    <2>1. n \notin inherited' /\ r.embedded => r.chunked = "current"
        BY <1>1, <1>2, <1>3 DEF RowsMade, Settled
    <2>2. QED BY <1>1, <1>2, <1>3, <1>4, <1>5, <2>1, RowMade
<1>7. rows'[n] = r /\ Lexical(ix.note)' = LexicalOf(S)
    <2>1. rows'[n] = r /\ \A m \in Notes : m = ix.note => Lexical(m)' = LexicalOf(r.chunks)
        BY <1>1, <1>2, OneRow
    <2>2. Lexical(ix.note)' = LexicalOf(rows'[ix'.note].chunks)
        BY DEF Lexical, LexicalOf
    <2>3. QED BY <1>1, <1>3, <2>1, <2>2
<1>8. LexicalOf(S) = {c \in Lexical(n) : ~\E d \in ix.stale : SameKey(c, d)}
    <2> DEFINE lex(d) == [kind |-> d.kind, ord |-> d.ord, text |-> d.text]
    <2>1. \A c, d : SameKey(lex(c), d) <=> SameKey(c, d)
        BY DEF SameKey
    <2>2. LexicalOf(S) = {lex(d) : d \in S} /\ Lexical(n) = {lex(d) : d \in rows[n].chunks}
        BY DEF LexicalOf, Lexical
    <2> HIDE DEF lex
    <2>3. QED BY <2>1, <2>2
<1>9. LexicalOf(S) = Wanted
    BY <1>1, <1>4, <1>8, SameKeyIs DEF Writing
<1>10. Wanted' = Wanted
    BY <1>1 DEF Wanted
<1>11. AtWork'
    BY <1>1, <1>3, <1>4, <1>7, <1>9, <1>10 DEF AtWork, ChunkSteps, EmbedSteps
<1>12. QED BY <1>6, <1>11 DEF RowsMade

LEMMA InvalidateRowsMade ==
    ASSUME Types, RowsMade, InvalidateNoteEmbeddings
    PROVE  RowsMade'
<1> DEFINE r == [rows[ix.note] EXCEPT !.embedded = FALSE]
           n == ix.note
<1>1. /\ ix.at = "invalidate" /\ rows' = [rows EXCEPT ![ix.note] = r]
      /\ inherited' = inherited /\ faults' = faults /\ ix'.at = "mark_chunks"
      /\ ix'.phase = ix.phase /\ ix'.todo = ix.todo /\ ix'.note = ix.note /\ ix'.text = ix.text
    BY DEF InvalidateNoteEmbeddings, At, Go, Stays, Types, PassOK
<1>2. n \in Notes /\ ix.phase \in {"files", "chunks"} /\ RowOK(rows[n])
    BY <1>1 DEF Types, PassOK, RowsOK, Busy, ChunkSteps
<1>3. r.chunked = rows[n].chunked /\ ~r.embedded /\ r.chunks = rows[n].chunks
    BY <1>2 DEF RowOK
<1>4. /\ rows[n].chunked # "current"
      /\ ix.phase = "chunks" => n \notin ix.todo
      /\ Lexical(n) = Wanted
    BY <1>1 DEF RowsMade, AtWork, ChunkSteps
<1> HIDE DEF r
<1>5. Marked' /\ VectorsMade' /\ Settled' /\ Waiting'
    BY <1>1, <1>2, <1>3, <1>4, RowMade DEF Embedded
<1>6. rows'[n] = r /\ Lexical(ix.note)' = Lexical(n)
    <2>1. rows'[n] = r
        BY <1>1, <1>2, OneRow
    <2>2. rows'[ix'.note].chunks = rows[n].chunks
        BY <1>1, <1>3, <2>1
    <2>3. QED BY <2>1, <2>2 DEF Lexical
<1>7. AtWork'
    BY <1>1, <1>3, <1>4, <1>6 DEF AtWork, ChunkSteps, EmbedSteps, Wanted
<1>8. QED BY <1>5, <1>7 DEF RowsMade

LEMMA MarkRowsMade ==
    ASSUME Types, RowsMade, MarkNoteChunksCurrent
    PROVE  RowsMade'
<1> DEFINE r == [rows[ix.note] EXCEPT !.chunked = "current"]
           n == ix.note
<1>1. /\ ix.at = "mark_chunks" /\ rows' = [rows EXCEPT ![ix.note] = r]
      /\ inherited' = inherited /\ faults' = faults
      /\ ix'.at \in {"embed", "next"}
      /\ ix'.phase = ix.phase /\ ix'.todo = ix.todo /\ ix'.note = ix.note
    BY DEF MarkNoteChunksCurrent, At, Go, Stays, Types, PassOK
<1>2. n \in Notes /\ ix.phase \in {"files", "chunks"} /\ RowOK(rows[n]) /\ rows[n].text = ix.text
    BY <1>1 DEF Types, PassOK, TextOK, RowsOK, Busy, ChunkSteps
<1>3. /\ r.text = ix.text /\ r.embedded = rows[n].embedded /\ r.chunks = rows[n].chunks
      /\ r.chunked = "current"
    BY <1>2 DEF RowOK
<1>4. Lexical(n) = Wanted /\ (ix.phase = "chunks" => n \notin ix.todo)
    BY <1>1 DEF RowsMade, AtWork, ChunkSteps
<1> HIDE DEF r
<1>5. LexicalOf(r.chunks) = Chunks(r.text)
    BY <1>3, <1>4 DEF LexicalOf, Lexical, Wanted
<1>6. n \notin Torn' => Embedded(r)
    <2>1. Torn \subseteq Torn'
        BY <1>1, TornStays
    <2>2. QED BY <1>2, <1>3, <2>1 DEF RowsMade, VectorsMade, Embedded
<1>7. Marked' /\ VectorsMade' /\ Settled' /\ Waiting'
    BY <1>1, <1>2, <1>3, <1>4, <1>5, <1>6, RowMade
<1>8. AtWork'
    <2>1. rows'[n] = r
        BY <1>1, <1>2, OneRow
    <2>2. QED BY <1>1, <1>3, <2>1 DEF AtWork, ChunkSteps, EmbedSteps
<1>9. QED BY <1>7, <1>8 DEF RowsMade

\* One vector, or the end of the vectors of a note.
LEMMA EmbedRowsMade ==
    ASSUME Types, RowsMade, UpsertChunkEmbedding
    PROVE  RowsMade'
<1> DEFINE n == ix.note
<1>1. ix.at = "embed" /\ inherited' = inherited /\ faults' = faults
    BY DEF UpsertChunkEmbedding, At, Stays
<1>2. Torn \subseteq Torn' /\ rows[n].chunked = "current"
    BY <1>1, TornStays DEF RowsMade, AtWork, EmbedSteps
<1>3. n \in Notes /\ ix.phase \in {"files", "embeddings"} /\ ChunksOK(rows[n].chunks)
    BY <1>1 DEF Types, PassOK, RowsOK, Busy, EmbedSteps
<1>4. CASE /\ \A c \in rows[n].chunks : c.vector = c.text
           /\ rows' = rows /\ Go("mark_embedded")
    <2>1. ix'.at = "mark_embedded" /\ ix'.phase = ix.phase /\ ix'.note = ix.note
        BY <1>4 DEF Go, Types, PassOK
    <2>2. Marked' /\ VectorsMade' /\ Settled'
        BY <1>2, <1>1, <1>4, LexicalSame DEF RowsMade, Marked, VectorsMade, Embedded, Settled
    <2>3. Waiting'
        BY <1>3, <1>4 DEF RowsMade, Waiting, Go, Types, PassOK
    <2>4. AtWork'
        BY <1>2, <1>4, <2>1 DEF AtWork, ChunkSteps, EmbedSteps
    <2>5. QED BY <2>2, <2>3, <2>4 DEF RowsMade
<1>5. CASE /\ ix' = ix
           /\ \E c \in rows[n].chunks : rows' = [rows EXCEPT ![ix.note].chunks =
                  (rows[n].chunks \ {c}) \cup {[c EXCEPT !.vector = c.text]}]
    <2>1. PICK c \in rows[n].chunks : rows' = [rows EXCEPT ![ix.note].chunks =
                  (rows[n].chunks \ {c}) \cup {[c EXCEPT !.vector = c.text]}]
        BY <1>5
    <2> DEFINE e == [c EXCEPT !.vector = c.text]
               S == (rows[n].chunks \ {c}) \cup {e}
               r == [rows[ix.note] EXCEPT !.chunks = S]
    <2>2. e = [kind |-> c.kind, ord |-> c.ord, text |-> c.text, vector |-> c.text]
        BY <1>3 DEF ChunksOK
    <2>3. e.kind = c.kind /\ e.ord = c.ord /\ e.text = c.text /\ e.vector = c.text
        BY <2>2
    <2>4. /\ r.text = rows[n].text /\ r.chunked = rows[n].chunked
          /\ r.embedded = rows[n].embedded /\ r.chunks = S
        BY <1>3, RowWithChunks
    <2>5. rows' = [rows EXCEPT ![ix.note] = r]
        BY <2>1
    <2> HIDE DEF r, e
    <2>6. LexicalOf(S) = Lexical(n)
        <3> DEFINE lex(d) == [kind |-> d.kind, ord |-> d.ord, text |-> d.text]
        <3>1. lex(e) = lex(c)
            BY <2>3
        <3>2. LexicalOf(S) = {lex(d) : d \in S} /\ Lexical(n) = {lex(d) : d \in rows[n].chunks}
            BY DEF LexicalOf, Lexical
        <3> HIDE DEF lex
        <3>3. QED BY <3>1, <3>2
    <2>7. r.chunked = "current" => LexicalOf(r.chunks) = Chunks(r.text)
        BY <1>3, <2>4, <2>6 DEF RowsMade, Marked
    <2>8. n \notin Torn' => Embedded(r)
        BY <1>2, <1>3, <2>3, <2>4 DEF RowsMade, VectorsMade, Embedded
    <2>9. Marked' /\ VectorsMade' /\ Settled' /\ Waiting'
        BY <1>2, <1>1, <1>3, <1>5, <2>4, <2>5, <2>7, <2>8, RowMade
    <2>10. AtWork'
        <3>1. rows'[n] = r
            BY <1>3, <2>5, OneRow
        <3>2. QED BY <1>2, <1>1, <1>5, <2>4, <3>1 DEF AtWork, ChunkSteps, EmbedSteps
    <2>11. QED BY <2>9, <2>10 DEF RowsMade
<1>6. QED BY <1>4, <1>5 DEF UpsertChunkEmbedding

LEMMA EndRowsMade ==
    ASSUME Types, RowsMade, MarkNoteEmbeddingsCurrent \/ DeleteNote
    PROVE  RowsMade'
<1> DEFINE n == ix.note
<1>1. ix.at \in {"mark_embedded", "delete"} /\ Go("next")
    BY DEF MarkNoteEmbeddingsCurrent, DeleteNote, At, Skip
<1>2. /\ n \in Notes /\ RowOK(rows[n])
      /\ ix'.at = "next" /\ ix'.phase = ix.phase
      /\ ix.phase \in {"files", "embeddings", "deletes"}
    BY <1>1 DEF Go, Types, PassOK, RowsOK, Busy, EmbedSteps
<1>3. AtWork'
    BY <1>2 DEF AtWork, ChunkSteps, EmbedSteps
<1>4. CASE MarkNoteEmbeddingsCurrent
    <2> DEFINE r == [rows[ix.note] EXCEPT !.embedded = TRUE]
    <2>1. /\ ix.at = "mark_embedded" /\ rows' = [rows EXCEPT ![ix.note] = r]
          /\ inherited' = inherited /\ faults' = faults
        BY <1>4 DEF MarkNoteEmbeddingsCurrent, At, Stays
    <2>2. r.text = rows[n].text /\ r.chunked = rows[n].chunked /\ r.chunks = rows[n].chunks
        BY <1>2 DEF RowOK
    <2> HIDE DEF r
    <2>3. r.chunked = "current" => LexicalOf(r.chunks) = Chunks(r.text)
        BY <1>2, <2>2 DEF RowsMade, Marked, Lexical, LexicalOf
    <2>4. Embedded(r) /\ r.chunked = "current"
        BY <2>1, <2>2 DEF RowsMade, AtWork, Embedded, EmbedSteps
    <2>5. ix'.todo = ix.todo
        BY <1>1 DEF Go, Types, PassOK
    <2>6. QED BY <1>2, <1>3, <2>1, <2>3, <2>4, <2>5, RowMade DEF RowsMade
<1>5. CASE DeleteNote
    <2>1. /\ rows' = [rows EXCEPT ![ix.note] = NoRow]
          /\ inherited' = inherited \ {n} /\ faults' = faults
        BY <1>5 DEF DeleteNote
    <2>2. NoRow.chunked = "none" /\ ~NoRow.embedded
        BY DEF NoRow
    <2>3. ix.phase = "deletes"
        BY <1>5 DEF DeleteNote, At, Types, PassOK
    <2>4. QED BY <1>2, <1>3, <2>1, <2>2, <2>3, RowMade DEF RowsMade, Embedded
<1>6. QED BY <1>4, <1>5

-----------------------------------------------------------------------------
(***************************************************************************)
(* The profiles and their vectors.                                          *)
(***************************************************************************)
\* A current vector with the source of a current profile is the one of this profile,
\* and a current vector goes with a current profile.
Fitting(k) ==
    k.profile.current /\ k.vector.current /\ k.vector.source = k.profile.source =>
        k.vector.of = k.profile.card

Versions(k) == k.profile.source # Nothing /\ k.vector.current => k.profile.current

\* The notes whose profile was made in this pass and whose vector is to follow.
Profiled ==
    {n \in Notes : \/ ix.phase = "profiles" /\ n \in Known \ NotesNeedingProfiles
                   \/ /\ ix.phase = "vectors"
                      /\ n \in ix.todo \/ (ix.at = "embed_profile" /\ n = ix.note)}

\* As long as nothing failed, each profile that was made has got its vector before
\* another one is made.
Paired ==
    /\ \A n \in Notes : Fitting(cards[n])
    /\ ix.at # "reset_vectors" => \A n \in Notes : Versions(cards[n])
    /\ \A n \in Notes \ Profiled : cards[n].vector.source = cards[n].profile.source

ProfilesMade ==
    /\ faults = 0 => Paired
    /\ ix.phase = "profiles" => ix.todo \subseteq NotesNeedingProfiles
    /\ ix.at = "extract" => ix.note \in NotesNeedingProfiles /\ ix.note \notin ix.todo
    /\ ix.phase = "vectors" => \A n \in ix.todo : cards[n].profile.current
    /\ ix.at = "embed_profile" => cards[ix.note].profile.current

\* Steps that leave the profiles, outside their phases or to the end of a note.
LEMMA ProfilesKept ==
    ASSUME Types, Types', ProfilesMade, cards' = cards,
           \/ faults' # 0
           \/ faults' = faults /\ ix' = ix /\ rows' = rows
           \/ /\ faults' = faults
              /\ ix.at # "reset_vectors" /\ ix.phase \notin {"profiles", "vectors"},
           \/ ix'.phase \notin {"profiles", "vectors"}
           \/ rows' = rows /\ (ix' = ix \/ Leaves)
    PROVE  ProfilesMade'
<1>1. faults' = 0 => Paired'
    <2>1. CASE faults' = faults /\ ix' = ix /\ rows' = rows
        <3>1. Profiled' = Profiled
            BY <2>1 DEF Profiled, Known, NotesNeedingProfiles
        <3>2. QED BY <2>1, <3>1 DEF ProfilesMade, Paired
    <2>2. CASE /\ faults' = faults
               /\ ix.at # "reset_vectors" /\ ix.phase \notin {"profiles", "vectors"}
        <3>1. Profiled = {}
            BY <2>2 DEF Profiled
        <3>2. QED BY <2>2, <3>1 DEF ProfilesMade, Paired
    <2>3. QED BY <2>1, <2>2
<1>2. CASE ix'.phase \notin {"profiles", "vectors"}
    <2>1. ix'.at \notin {"extract", "embed_profile"}
        BY <1>2 DEF Types, PassOK
    <2>2. QED BY <1>1, <1>2, <2>1 DEF ProfilesMade
<1>3. CASE rows' = rows /\ (ix' = ix \/ Leaves)
    <2>1. NotesNeedingProfiles' = NotesNeedingProfiles
        BY <1>3 DEF NotesNeedingProfiles, Known
    <2>2. CASE ix' = ix
        BY <1>1, <2>1, <2>2 DEF ProfilesMade
    <2>3. CASE Leaves
        BY <1>1, <2>1, <2>3 DEF ProfilesMade, Leaves
    <2>4. QED BY <1>3, <2>2, <2>3
<1>4. QED BY <1>2, <1>3

LEMMA TakeProfilesMade ==
    ASSUME Types, Types', ProfilesMade, Take
    PROVE  ProfilesMade'
<1>1. /\ rows' = rows /\ cards' = cards /\ faults' = faults
      /\ ix.at = "next" /\ ix.phase \in PhaseNames
    BY DEF Take, Stays, tables, At, Types, PassOK, Early
<1>2. /\ NotesNeedingProfiles' = NotesNeedingProfiles /\ Known' = Known
      /\ faults' = 0 => \A n \in Notes : Fitting(cards'[n]) /\ Versions(cards'[n])
    BY <1>1 DEF NotesNeedingProfiles, Known, ProfilesMade, Paired
<1>3. ASSUME NEW n \in ix.todo, NEW t,
             ix' = [ix EXCEPT !.at = FirstStep[ix.phase], !.note = n, !.todo = @ \ {n}, !.text = t]
      PROVE  ProfilesMade'
    <2>1. /\ ix'.at = FirstStep[ix.phase] /\ ix'.note = n /\ ix'.todo = ix.todo \ {n}
          /\ ix'.phase = ix.phase
        BY <1>3 DEF Types, PassOK
    <2>2. /\ ix'.at = "extract" => ix.phase = "profiles"
          /\ ix'.at = "embed_profile" => ix.phase = "vectors"
        BY <2>1 DEF Types, PassOK
    <2>3. FirstStep["vectors"] = "embed_profile"
        BY DEF FirstStep
    <2>4. Profiled \subseteq Profiled'
        BY <1>1, <1>2, <2>1, <2>3 DEF Profiled
    <2>5. faults' = 0 => Paired'
        BY <1>1, <1>2, <2>4 DEF ProfilesMade, Paired
    <2>6. QED BY <1>1, <1>2, <1>3, <2>1, <2>2, <2>5 DEF ProfilesMade
<1>4. ASSUME ix.todo = {}, ix.phase # "deletes",
             ix' = [ix EXCEPT !.phase = After(ix.phase), !.todo = Todo(After(ix.phase)),
                              !.note = Nothing]
      PROVE  ProfilesMade'
    <2>1. ix'.at = "next" /\ ix'.phase = After(ix.phase) /\ ix'.todo = Todo(After(ix.phase))
        BY <1>1, <1>4 DEF Types, PassOK
    <2>2. Todo("profiles") = NotesNeedingProfiles /\ Todo("vectors") = ProfilesNeedingEmbeddings
        BY DEF Todo
    <2>3. \A n \in ProfilesNeedingEmbeddings : cards[n].profile.current
        BY DEF ProfilesNeedingEmbeddings, NotesNeedingProfiles
    <2>4. ASSUME NEW n \in Notes \ Profiled',
                 \A m \in Notes \ Profiled : cards[m].vector.source = cards[m].profile.source
          PROVE  cards[n].vector.source = cards[n].profile.source
        <3>1. CASE n \notin Profiled
            BY <2>4, <3>1
        <3>2. CASE n \in Profiled
            <4>1. ix.phase = "profiles" /\ n \in Known \ NotesNeedingProfiles
                BY <1>1, <1>4, <3>2 DEF Profiled
            <4>2. ix'.phase = "vectors" /\ ix'.todo = ProfilesNeedingEmbeddings
                BY <2>1, <2>2, <4>1, PhaseOrder
            <4>3. n \notin ProfilesNeedingEmbeddings
                BY <2>4, <4>2 DEF Profiled
            <4>4. VectorFits(n)
                BY <4>1, <4>3 DEF ProfilesNeedingEmbeddings
            <4>5. QED BY <4>4 DEF VectorFits
        <3>3. QED BY <3>1, <3>2
    <2>5. faults' = 0 => Paired'
        BY <1>1, <1>2, <2>4 DEF ProfilesMade, Paired
    <2>6. QED BY <1>1, <1>2, <2>1, <2>2, <2>3, <2>5 DEF ProfilesMade
<1>5. ASSUME ix.todo = {}, ix.phase = "deletes", ix' = Idle
      PROVE  ProfilesMade'
    <2>1. ix'.phase = "none"
        BY <1>5 DEF Idle
    <2>2. QED BY <1>1, <1>5, <2>1, ProfilesKept
<1>6. QED BY <1>3, <1>4, <1>5 DEF Take

\* One row of the profiles.
LEMMA OneCard ==
    ASSUME Types, ix.note \in Notes, NEW k, cards' = [cards EXCEPT ![ix.note] = k]
    PROVE  cards'[ix.note] = k /\ \A m \in Notes \ {ix.note} : cards'[m] = cards[m]
BY DEF Types, CardsOK

\* The profile is another one; a current vector that is there has another source.
LEMMA ProfileMade ==
    ASSUME Types, Types', ProfilesMade, UpsertNoteProfile
    PROVE  ProfilesMade'
<1> DEFINE n == ix.note
           old == cards[n]
<1>1. ix.at = "extract" /\ rows' = rows /\ faults' = faults /\ Go("next")
    BY DEF UpsertNoteProfile, At, Skip, Stays
<1>2. PICK card \in Cards :
          cards' = [cards EXCEPT ![ix.note].profile =
                       [source |-> ix.text, card |-> card, current |-> TRUE]]
    BY DEF UpsertNoteProfile
<1>3. /\ n \in Notes /\ ix.phase = "profiles" /\ CardOK(old)
      /\ ix.text \in Texts /\ rows[n].text = ix.text
    BY <1>1 DEF Types, PassOK, TextOK, CardsOK, Busy
<1>4. ix'.at = "next" /\ ix'.phase = "profiles" /\ ix'.todo = ix.todo
    BY <1>1, <1>3 DEF Go, Types, PassOK
<1> DEFINE p == [source |-> ix.text, card |-> card, current |-> TRUE]
           k == [old EXCEPT !.profile = p]
<1>5. k.profile = p /\ k.vector = old.vector
    <2>1. ProfileOK(p)
        BY <1>3 DEF ProfileOK, MaybeText
    <2> HIDE DEF p
    <2>2. QED BY <1>3, <2>1, CardParts
<1>6. p.source = ix.text /\ p.current
    OBVIOUS
<1>7. cards' = [cards EXCEPT ![ix.note] = k]
    BY <1>2
<1> HIDE DEF k, p
<1>8. cards'[n] = k /\ \A m \in Notes \ {n} : cards'[m] = cards[m]
    BY <1>3, <1>7, OneCard
<1>9. n \in NotesNeedingProfiles /\ n \notin ix.todo
    BY <1>1 DEF ProfilesMade
<1>10. ASSUME Paired, old.vector.current
       PROVE  old.vector.source # ix.text
    <2>1. n \notin Profiled /\ ix.at # "reset_vectors"
        BY <1>1, <1>3, <1>9 DEF Profiled
    <2>2. old.vector.source = old.profile.source /\ Versions(old)
        BY <1>3, <1>10, <2>1 DEF Paired
    <2>3. old.profile.source = ix.text => ~old.profile.current
        BY <1>3, <1>9 DEF NotesNeedingProfiles
    <2>4. QED BY <1>3, <1>10, <2>2, <2>3, SearchAssumption DEF Versions
<1>11. Paired => Fitting(k) /\ Versions(k)
    BY <1>5, <1>6, <1>10 DEF Fitting, Versions
<1>12. Paired => Paired'
    <2>1. ASSUME NEW m \in Profiled, m # n
          PROVE  m \in Profiled'
        <3>1. m \in Notes /\ m \in Known \ NotesNeedingProfiles
            BY <1>3, <2>1 DEF Profiled
        <3>2. m \in Known' \ NotesNeedingProfiles'
            BY <1>1, <1>8, <2>1, <3>1 DEF Known, NotesNeedingProfiles
        <3>3. QED BY <1>4, <3>1, <3>2 DEF Profiled
    <2>2. n \in Profiled'
        BY <1>1, <1>3, <1>4, <1>5, <1>6, <1>8, SearchAssumption
           DEF Profiled, Known, NotesNeedingProfiles
    <2>3. QED BY <1>1, <1>8, <1>11, <2>1, <2>2 DEF Paired
<1>13. ix'.todo \subseteq NotesNeedingProfiles'
    BY <1>1, <1>3, <1>4, <1>8, <1>9 DEF ProfilesMade, NotesNeedingProfiles, Known
<1>14. QED BY <1>1, <1>4, <1>12, <1>13 DEF ProfilesMade

\* The vector is that of the profile that is stored.
LEMMA ProfileVectorMade ==
    ASSUME Types, Types', ProfilesMade, UpsertProfileEmbedding
    PROVE  ProfilesMade'
<1> DEFINE n == ix.note
           old == cards[n]
           v == [source |-> cards[ix.note].profile.source, of |-> cards[ix.note].profile.card,
                 current |-> TRUE]
           k == [old EXCEPT !.vector = v]
<1>1. /\ ix.at = "embed_profile" /\ rows' = rows /\ Go("next") /\ faults' = faults
      /\ cards' = [cards EXCEPT ![ix.note] = k]
    BY DEF UpsertProfileEmbedding, At, Skip, Stays
<1>2. n \in Notes /\ ix.phase = "vectors" /\ CardOK(old) /\ old.profile.current
    BY <1>1 DEF Types, PassOK, CardsOK, Busy, ProfilesMade
<1>3. ix'.at = "next" /\ ix'.phase = "vectors" /\ ix'.todo = ix.todo
    BY <1>1, <1>2 DEF Go, Types, PassOK
<1>4. k.profile = old.profile /\ k.vector = v
    <2>1. VectorOK(v)
        BY <1>2 DEF CardOK, ProfileOK, VectorOK
    <2> HIDE DEF v
    <2>2. QED BY <1>2, <2>1, CardParts
<1>5. v.source = old.profile.source /\ v.of = old.profile.card
    OBVIOUS
<1> HIDE DEF k, v
<1>6. cards'[n] = k /\ \A m \in Notes \ {n} : cards'[m] = cards[m]
    BY <1>1, <1>2, OneCard
<1>7. Fitting(k) /\ Versions(k)
    BY <1>2, <1>4, <1>5 DEF Fitting, Versions
<1>8. Paired => Paired'
    <2>1. Profiled \subseteq Profiled' \cup {n}
        BY <1>2, <1>3 DEF Profiled
    <2>2. QED BY <1>1, <1>4, <1>5, <1>6, <1>7, <2>1 DEF Paired
<1>9. \A m \in ix'.todo : cards'[m].profile.current
    BY <1>2, <1>3, <1>4, <1>6 DEF ProfilesMade, Types, PassOK
<1>10. QED BY <1>1, <1>3, <1>8, <1>9 DEF ProfilesMade

\* Invalidation marks the profiles and then their vectors.
LEMMA InvalidateMade ==
    ASSUME Types, Types', ProfilesMade, InvalidateProfiles \/ InvalidateVectors
    PROVE  ProfilesMade'
<1>1. /\ ix.at \in {"reset", "reset_vectors"} /\ faults' = faults
      /\ \E place \in {"reset_vectors", "walk"} : Go(place)
    BY DEF InvalidateProfiles, InvalidateVectors, At, Stays
<1>2. ix'.phase = "none" /\ ix.phase = "none" /\ ix'.at \in {"reset_vectors", "walk"}
    BY <1>1 DEF Go, Types, PassOK, Early
<1>3. \A n \in Notes : CardOK(cards[n])
    BY DEF Types, CardsOK
<1>4. Profiled = {} /\ Profiled' = {}
    BY <1>2 DEF Profiled
<1>5. CASE InvalidateProfiles
    <2>1. /\ cards' = [n \in Notes |-> [cards[n] EXCEPT !.profile.current = FALSE]]
          /\ ix'.at = "reset_vectors"
        BY <1>5 DEF InvalidateProfiles, Go, Types, PassOK
    <2>2. ASSUME NEW n \in Notes
          PROVE  /\ Fitting(cards'[n])
                 /\ cards'[n].vector.source = cards[n].vector.source
                 /\ cards'[n].profile.source = cards[n].profile.source
        <3>1. ProfileOK([cards[n].profile EXCEPT !.current = FALSE])
            BY <1>3 DEF CardOK, ProfileOK
        <3>2. LET k == [cards[n] EXCEPT !.profile.current = FALSE]
              IN  /\ k.vector = cards[n].vector
                  /\ k.profile = [cards[n].profile EXCEPT !.current = FALSE]
            BY <1>3, <3>1, CardParts
        <3>3. cards'[n] = [cards[n] EXCEPT !.profile.current = FALSE]
            BY <2>1
        <3>4. /\ [cards[n].profile EXCEPT !.current = FALSE].source = cards[n].profile.source
              /\ ~[cards[n].profile EXCEPT !.current = FALSE].current
            BY <1>3 DEF CardOK, ProfileOK
        <3>5. QED BY <3>2, <3>3, <3>4 DEF Fitting
    <2>3. Paired => Paired'
        BY <1>4, <2>1, <2>2 DEF Paired
    <2>4. QED BY <1>1, <1>2, <2>3 DEF ProfilesMade
<1>6. CASE InvalidateVectors
    <2>1. cards' = [n \in Notes |-> [cards[n] EXCEPT !.vector.current = FALSE]]
        BY <1>6 DEF InvalidateVectors
    <2>2. ASSUME NEW n \in Notes
          PROVE  /\ Fitting(cards'[n]) /\ Versions(cards'[n])
                 /\ cards'[n].vector.source = cards[n].vector.source
                 /\ cards'[n].profile.source = cards[n].profile.source
        <3>1. VectorOK([cards[n].vector EXCEPT !.current = FALSE])
            BY <1>3 DEF CardOK, VectorOK
        <3>2. LET k == [cards[n] EXCEPT !.vector.current = FALSE]
              IN  /\ k.vector = [cards[n].vector EXCEPT !.current = FALSE]
                  /\ k.profile = cards[n].profile
            BY <1>3, <3>1, CardParts
        <3>3. /\ ~[cards[n].vector EXCEPT !.current = FALSE].current
              /\ [cards[n].vector EXCEPT !.current = FALSE].source = cards[n].vector.source
            BY <1>3 DEF CardOK, VectorOK
        <3>4. cards'[n] = [cards[n] EXCEPT !.vector.current = FALSE]
            BY <2>1
        <3>5. QED BY <3>2, <3>3, <3>4 DEF Fitting, Versions
    <2>3. Paired => Paired'
        BY <1>4, <2>2 DEF Paired
    <2>4. QED BY <1>1, <1>2, <2>3 DEF ProfilesMade
<1>7. QED BY <1>5, <1>6

LEMMA DeleteMade ==
    ASSUME Types, Types', ProfilesMade, DeleteNote
    PROVE  ProfilesMade'
<1> DEFINE k == [profile |-> NoCard, vector |-> NoVector]
<1>1. /\ ix.at = "delete" /\ Go("next") /\ faults' = faults
      /\ cards' = [cards EXCEPT ![ix.note] = k]
    BY DEF DeleteNote, At, Skip
<1>2. ix.note \in Notes /\ ix'.at = "next" /\ ix'.phase = "deletes" /\ ix.phase = "deletes"
    BY <1>1 DEF Go, Types, PassOK, Busy
<1>3. Fitting(k) /\ Versions(k) /\ k.vector.source = k.profile.source
    BY DEF Fitting, Versions, NoCard, NoVector
<1> HIDE DEF k
<1>4. cards'[ix.note] = k /\ \A m \in Notes \ {ix.note} : cards'[m] = cards[m]
    BY <1>1, <1>2, OneCard
<1>5. Profiled = {} /\ Profiled' = {}
    BY <1>2 DEF Profiled
<1>6. Paired => Paired'
    BY <1>1, <1>3, <1>4, <1>5 DEF Paired
<1>7. QED BY <1>1, <1>2, <1>6 DEF ProfilesMade

-----------------------------------------------------------------------------
(***************************************************************************)
(* Both together, for every step.                                           *)
(***************************************************************************)
Inv3 == Types /\ faults \in Nat /\ RowsMade /\ ProfilesMade

\* Looks, failures and what happens outside a pass.
LEMMA LeavesTables ==
    ASSUME Types, faults \in Nat,
           Begin \/ Walk \/ Stat \/ Read \/ Fails \/ Crash \/ Edit \/ Unmount \/ Mount
                  \/ UNCHANGED vars
    PROVE  /\ UNCHANGED <<rows, cards, inherited>> /\ (ix' = ix \/ Leaves)
           /\ \/ faults' # 0
              \/ faults' = faults /\ ix' = ix
              \/ faults' = faults /\ ix.at \in {"idle", "walk", "stat", "read"}
<1>1. UNCHANGED <<rows, cards, inherited>>
    BY DEF Begin, Walk, Stat, Read, Fails, Crash, Edit, Unmount, Mount, Stays, tables, vars
<1>2. \/ faults' # 0
      \/ faults' = faults /\ ix' = ix
      \/ faults' = faults /\ ix.at \in {"idle", "walk", "stat", "read"}
    <2>1. CASE Begin \/ Walk \/ Stat \/ Read
        BY <2>1 DEF Begin, Walk, Stat, Read, Stays, At
    <2>2. CASE Fails \/ Crash \/ Unmount
        BY <2>2 DEF Fails, Crash, Unmount
    <2>3. CASE Edit \/ Mount \/ UNCHANGED vars
        BY <2>3 DEF Edit, Mount, vars
    <2>4. QED BY <2>1, <2>2, <2>3
<1>3. ASSUME ix' = Idle \/ ix' = [Idle EXCEPT !.at = "walk"]
             \/ ix' = [Idle EXCEPT !.at = "reset", !.force = TRUE]
      PROVE  Leaves
    <2>1. Idle.at = "idle" /\ Idle.phase = "none"
        BY DEF Idle
    <2>2. [Idle EXCEPT !.at = "walk"].at = "walk" /\ [Idle EXCEPT !.at = "walk"].phase = "none"
        BY DEF Idle
    <2>3. LET i == [Idle EXCEPT !.at = "reset", !.force = TRUE]
          IN  i.at = "reset" /\ i.phase = "none"
        BY DEF Idle
    <2>4. ix'.at \in {"idle", "walk", "reset"} /\ ix'.phase = "none"
        BY <1>3, <2>1, <2>2, <2>3
    <2>5. QED BY <2>4 DEF Leaves, ChunkSteps, EmbedSteps
<1>4. CASE Walk
    <2>1. ASSUME NEW l,
                 ix' = [ix EXCEPT !.at = "next", !.phase = "files", !.todo = l,
                                  !.listed = l, !.known = Known]
          PROVE  ix'.at = "next" /\ ix'.phase = "files"
        BY <2>1 DEF Types, PassOK
    <2>2. ix' = Idle \/ (ix'.at = "next" /\ ix'.phase = "files")
        BY <1>4, <2>1 DEF Walk
    <2>3. QED BY <1>1, <1>2, <1>3, <2>2 DEF Leaves, ChunkSteps, EmbedSteps
<1>5. CASE Stat \/ Read
    <2>1. /\ ix'.at \in {"next", "read", "touch", "upsert"}
          /\ ix'.phase = ix.phase /\ ix'.todo = ix.todo
        BY <1>5 DEF Stat, Read, Types, PassOK
    <2>2. QED BY <1>1, <1>2, <2>1 DEF Leaves, ChunkSteps, EmbedSteps
<1>6. CASE Fails \/ Crash
    <2>1. \/ ix' = Idle
          \/ ix' = [ix EXCEPT !.todo = {}] /\ ix.at = "next"
          \/ ix' = [ix EXCEPT !.at = "next"]
        BY <1>6 DEF Fails, Crash, At
    <2>2. ix' = Idle \/ (ix'.at = "next" /\ ix'.phase = ix.phase /\ ix'.todo \subseteq ix.todo)
        BY <2>1 DEF Types, PassOK
    <2>3. QED BY <1>1, <1>2, <1>3, <2>2 DEF Leaves, ChunkSteps, EmbedSteps
<1>7. CASE Begin
    BY <1>1, <1>2, <1>3, <1>7 DEF Begin
<1>8. CASE Edit \/ Unmount \/ Mount \/ UNCHANGED vars
    BY <1>1, <1>2, <1>8 DEF Edit, Unmount, Mount, vars
<1>9. QED BY <1>1, <1>2, <1>4, <1>5, <1>6, <1>7, <1>8

\* Statements on profiles.
LEMMA CardSteps ==
    ASSUME Types, \/ UpsertNoteProfile \/ UpsertProfileEmbedding \/ InvalidateProfiles
                  \/ InvalidateVectors
    PROVE  /\ rows' = rows /\ inherited' = inherited /\ faults' = faults /\ Leaves
           /\ ix.at \notin {"write_chunks", "invalidate"}
<1>1. /\ rows' = rows /\ inherited' = inherited /\ faults' = faults
      /\ ix.at \notin {"write_chunks", "invalidate"}
      /\ \E place \in {"next", "reset_vectors", "walk"} : Go(place)
    BY DEF UpsertNoteProfile, UpsertProfileEmbedding, InvalidateProfiles, InvalidateVectors, Skip,
           Stays, At
<1>2. ix'.at \in {"next", "reset_vectors", "walk"} /\ ix'.phase = ix.phase /\ ix'.todo = ix.todo
    BY <1>1 DEF Go, Types, PassOK
<1>3. QED BY <1>1, <1>2 DEF Leaves, ChunkSteps, EmbedSteps

\* Statements on rows.
LEMMA RowSteps ==
    ASSUME Types, Types',
           \/ TouchNoteMeta \/ UpsertNote \/ ListChunks \/ UpsertChunk \/ DeleteChunksByID
           \/ InvalidateNoteEmbeddings \/ MarkNoteChunksCurrent
           \/ UpsertChunkEmbedding \/ MarkNoteEmbeddingsCurrent
    PROVE  /\ cards' = cards /\ faults' = faults
           /\ ix.at # "reset_vectors" /\ ix.phase \notin {"profiles", "vectors"}
           /\ ix'.phase \notin {"profiles", "vectors"}
<1>1. /\ cards' = cards /\ faults' = faults
      /\ ix.at \in FileSteps \cup ChunkSteps \cup EmbedSteps
    BY UpsertChunkIs DEF TouchNoteMeta, UpsertNote, ListChunks, DeleteChunksByID,
       InvalidateNoteEmbeddings, MarkNoteChunksCurrent, UpsertChunkEmbedding,
       MarkNoteEmbeddingsCurrent, Stays, tables, At, FileSteps, ChunkSteps, EmbedSteps
<1>2. ix.phase \notin {"profiles", "vectors"} /\ ix.at # "reset_vectors"
    BY <1>1 DEF Types, PassOK, FileSteps, ChunkSteps, EmbedSteps
<1>3. \/ ix' = ix
      \/ \E place : Go(place)
      \/ \E S : ix' = [ix EXCEPT !.write = S]
      \/ \E S, T, b : ix' = [ix EXCEPT !.at = "write_chunks", !.write = S, !.stale = T,
                                       !.changed = b]
    <2>1. CASE ListChunks
        BY <2>1 DEF ListChunks
    <2>2. CASE ~ListChunks
        BY <2>2, UpsertChunkIs DEF TouchNoteMeta, UpsertNote, DeleteChunksByID,
           InvalidateNoteEmbeddings, MarkNoteChunksCurrent, UpsertChunkEmbedding,
           MarkNoteEmbeddingsCurrent, Skip
    <2>3. QED BY <2>1, <2>2
<1>4. ix'.phase = ix.phase
    BY <1>3 DEF Go, Types, PassOK
<1>5. QED BY <1>1, <1>2, <1>4

LEMMA NextInv3 == Inv3 /\ [Next]_vars => Inv3'
<1> SUFFICES ASSUME Inv3, [Next]_vars PROVE Inv3'
    OBVIOUS
<1>1. /\ Types /\ Types' /\ RowsMade /\ ProfilesMade
      /\ faults \in Nat /\ faults' \in Nat
    <2>1. /\ Fails \/ Crash \/ Unmount => faults' = faults + 1
          /\ Edit \/ Mount \/ UNCHANGED vars => faults' = faults
        BY DEF Fails, Crash, Unmount, Edit, Mount, vars
    <2>2. Pass => faults' = faults
        BY UpsertChunkIs DEF Pass, Begin, InvalidateProfiles, InvalidateVectors, Walk,
           Take, Stat, Read, TouchNoteMeta, UpsertNote, ListChunks, DeleteChunksByID,
           InvalidateNoteEmbeddings, MarkNoteChunksCurrent, UpsertChunkEmbedding,
           MarkNoteEmbeddingsCurrent, UpsertNoteProfile, UpsertProfileEmbedding, DeleteNote, Stays
    <2>3. QED BY <2>1, <2>2, NextTypes DEF Inv3, Next
<1>2. CASE Begin \/ Walk \/ Stat \/ Read \/ Fails \/ Crash \/ Edit \/ Unmount \/ Mount
           \/ UNCHANGED vars
    <2>1. /\ UNCHANGED <<rows, cards, inherited>> /\ (ix' = ix \/ Leaves)
          /\ \/ faults' # 0
             \/ faults' = faults /\ ix' = ix
             \/ faults' = faults /\ ix.at \in {"idle", "walk", "stat", "read"}
        BY <1>1, <1>2, LeavesTables
    <2>2. Torn \subseteq Torn'
        BY <2>1, TornStays
    <2>3. ix.at \in {"idle", "walk", "stat", "read"} => ix.phase \notin {"profiles", "vectors"}
        BY <1>1 DEF Types, PassOK, Early, FileSteps
    <2>4. RowsMade'
        BY <1>1, <2>1, <2>2, RowsKept
    <2>5. ProfilesMade'
        BY <1>1, <2>1, <2>3, ProfilesKept
    <2>6. QED BY <1>1, <2>4, <2>5 DEF Inv3
<1>3. CASE Take
    BY <1>1, <1>3, TakeRowsMade, TakeProfilesMade DEF Inv3
<1>4. CASE \/ UpsertNoteProfile \/ UpsertProfileEmbedding \/ InvalidateProfiles
           \/ InvalidateVectors
    <2>1. RowsMade'
        BY <1>1, <1>4, CardSteps, TornStays, RowsKept
    <2>2. ProfilesMade'
        BY <1>1, <1>4, ProfileMade, ProfileVectorMade, InvalidateMade
    <2>3. QED BY <1>1, <2>1, <2>2 DEF Inv3
<1>5. CASE DeleteNote
    BY <1>1, <1>5, EndRowsMade, DeleteMade DEF Inv3
<1>6. CASE \/ TouchNoteMeta \/ UpsertNote \/ ListChunks \/ UpsertChunk \/ DeleteChunksByID
           \/ InvalidateNoteEmbeddings \/ MarkNoteChunksCurrent
           \/ UpsertChunkEmbedding \/ MarkNoteEmbeddingsCurrent
    <2>1. ProfilesMade'
        BY <1>1, <1>6, RowSteps, ProfilesKept
    <2>2. RowsMade'
        BY <1>1, <1>6, FileRowsMade, ListRowsMade, UpsertChunkRowsMade, DeleteChunksRowsMade,
           InvalidateRowsMade, MarkRowsMade, EmbedRowsMade, EndRowsMade
    <2>3. QED BY <1>1, <2>1, <2>2 DEF Inv3
<1>7. QED BY <1>2, <1>3, <1>4, <1>5, <1>6 DEF Next, Pass

LEMMA InitInv3 == Init => Inv3
<1> SUFFICES ASSUME Init PROVE Inv3
    OBVIOUS
<1>1. Types
    BY InitTypes
<1>2. PICK t \in Texts : rows \in [Notes -> {NoRow, OldRow(t)}]
    BY DEF Init
<1>3. /\ \A n \in Notes : cards[n] = [profile |-> NoCard, vector |-> NoVector]
      /\ ix = Idle
    BY DEF Init
<1>4. /\ NoRow.chunked = "none" /\ ~NoRow.embedded /\ OldRow(t).chunked = "old"
      /\ \A c \in OldRow(t).chunks : c.vector = c.text
    BY DEF NoRow, OldRow
<1>5. Marked /\ VectorsMade /\ Settled
    <2>1. \A n \in Notes \ inherited : ~rows[n].embedded
        <3>1. OldRow(t).text # Nothing
            BY SearchAssumption DEF OldRow
        <3>2. QED BY <1>2, <1>4, <3>1 DEF Init, Known
    <2>2. QED BY <1>2, <1>4, <2>1 DEF Marked, VectorsMade, Embedded, Settled
<1>6. Waiting /\ AtWork
    BY <1>3 DEF Waiting, AtWork, Idle, ChunkSteps, EmbedSteps
<1>7. ProfilesMade /\ faults \in Nat
    BY <1>3 DEF ProfilesMade, Paired, Fitting, Versions, NoCard, NoVector, Idle, Init
<1>8. QED BY <1>1, <1>5, <1>6, <1>7 DEF Inv3, RowsMade

\* Whatever passes failed or stopped, and whatever was edited meanwhile: the chunks
\* of a marked note are those of its text, and the vectors of a note that this
\* version has read are made of the chunks the search compares them for.  What the
\* former version left is right after passes that nothing has disturbed.
THEOREM VectorsStayCurrent == Spec => []VectorsAreCurrent
<1>1. Inv3 => VectorsAreCurrent
    <2> SUFFICES ASSUME Inv3, NEW n \in Known
                 PROVE  /\ rows[n].chunked = "current" => Lexical(n) = Chunks(rows[n].text)
                        /\ n \notin inherited => VectorsMatch(n)
                        /\ faults = 0 => ProfileMatches(n) /\ (At("idle") => VectorsMatch(n))
        BY DEF VectorsAreCurrent
    <2>1. n \in Notes /\ rows[n].text # Nothing
        BY DEF Known
    <2>2. rows[n].chunked = "current" => Lexical(n) = Chunks(rows[n].text)
        BY <2>1 DEF Inv3, RowsMade, Marked
    <2>3. ASSUME n \notin Torn
          PROVE  VectorsMatch(n)
        BY <2>1, <2>3 DEF Inv3, RowsMade, VectorsMade, Embedded, VectorsMatch, Compared
    <2>4. n \notin inherited => VectorsMatch(n)
        BY <2>3 DEF Torn
    <2>5. ASSUME faults = 0, At("idle")
          PROVE  VectorsMatch(n)
        BY <2>3, <2>5 DEF Torn, InUpgrade, At
    <2>6. ASSUME faults = 0, n \notin NotesNeedingProfiles, VectorFits(n)
          PROVE  cards[n].vector.of = cards[n].profile.card
        <3>1. Fitting(cards[n])
            BY <2>1, <2>6 DEF Inv3, ProfilesMade, Paired
        <3>2. QED BY <2>1, <2>6, <3>1 DEF Fitting, NotesNeedingProfiles, VectorFits
    <2>7. QED BY <2>2, <2>4, <2>5, <2>6 DEF ProfileMatches
<1>2. QED BY <1>1, InitInv3, NextInv3, PTL DEF Spec

=============================================================================
