----------------------------- MODULE Ingestion -----------------------------
(***************************************************************************)
(* The ingestion of a project's files into the memories of one branch      *)
(* (src/core/ingestion/ingest.pipeline.ts): the source fingerprints, the   *)
(* memories of each source, several ingests at once, edits of the files    *)
(* between and during them, failures and crashes.                          *)
(*                                                                         *)
(* A file is a sequence of texts, the chunks of a code file or the turns   *)
(* of a chat; the id of the memory of a text hashes its source, index and  *)
(* text.  Its hash stands for the file: two contents are never confused.   *)
(* Which files an ingest looks at, and how a file becomes texts, is in     *)
(* IngestSelection.                                                        *)
(***************************************************************************)
EXTENDS Integers, FiniteSets, Sequences, SequencesExt

CONSTANTS Source,       \* files of the project
          Chats,        \* those of them that are chat sessions
          Content,      \* what a file may hold: sequences of texts
          Blank,        \* the text of a turn with nothing left to store
          Absent,       \* no file, no fingerprint
          Ingest,       \* ingests that may run at the same time
          MaxEdits,     \* bound on the edits of files
          MaxMishaps    \* bound on failures, crashes and deletions by hand

ASSUME IngestionAssumption ==
  /\ IsFiniteSet(Source) /\ Chats \subseteq Source
  /\ Content \subseteq Seq(STRING)
  /\ Absent \notin Content
  /\ MaxEdits \in Nat /\ MaxMishaps \in Nat

VARIABLES onBranch,     \* the ingests are for a branch other than main
          file,         \* Source -> Content or Absent
          rows,         \* memory ids with a row, a set of <<source, index, text>>
          tombs,        \* memory ids with a tombstone on the branch
          printed,      \* memory_ingestion_sources: Source -> Content or Absent
          ing,          \* Ingest -> where the ingest is
          blemished,    \* history: sources an ingest left half done or raced on
          unwanted,     \* history: memory ids deleted by hand
          edits, mishaps

ingestVars ==
  <<onBranch, file, rows, tombs, printed, ing, blemished, unwanted, edits, mishaps>>

-----------------------------------------------------------------------------
(***************************************************************************)
(* Identities.                                                             *)
(***************************************************************************)

\* The memories of a file: one for each segment of its chunks, or for each turn of
\* a chat; a turn without prompt and response is passed over but keeps its index.
MemoriesOf(s, content) ==
  {<<s, i, content[i]>> : i \in {j \in DOMAIN content : s \in Chats => content[j] # Blank}}

MemoryId == UNION {MemoriesOf(s, c) : s \in Source, c \in Content}

\* What the primary key of the row of a memory is: its logical id on main, and
\* on a branch a hash of project, branch and logical id.
StorageId(id) == <<IF onBranch THEN "storage" ELSE "logical", id>>

\* listExistingSourceMemoryIds: primary keys, whatever the branch.
ExistingIds(s) == {StorageId(id) : id \in {r \in rows : r[1] = s}}

\* The ids of the memories written, which are compared with the existing ones.
LogicalIds(ids) == {<<"logical", id>> : id \in ids}

IdleIngest == [at |-> "idle", todo |-> <<>>, skip |-> FALSE, chats |-> FALSE, src |-> Absent, read |-> Absent,
         left |-> {}, old |-> {}, stale |-> {}, masks |-> Absent, alone |-> TRUE]

Working(p) == ing[p].at \in {"storing", "removing", "masking"}

WorkingOn(s) == {p \in Ingest : Working(p) /\ ing[p].src = s}

\* The memory is part of what a reader of the branch sees.
ReaderSees(id) == id \in rows \ tombs

-----------------------------------------------------------------------------
IngestInit ==
  /\ onBranch \in BOOLEAN
  /\ file \in [Source -> Content]
  /\ rows = {} /\ tombs = {} /\ unwanted = {} /\ blemished = {}
  /\ printed = [s \in Source |-> Absent]
  /\ ing = [p \in Ingest |-> IdleIngest]
  /\ edits = 0 /\ mishaps = 0

\* Those of the files that are there, in the order of the walk.
Found(files) == SetToSeq({s \in files : file[s] # Absent})

\* runIngestion up to its first loop: the code files it walked to.
BeginIngest(p, skip, chats) ==
  /\ ing[p].at = "idle"
  /\ ing' = [ing EXCEPT ![p] = [IdleIngest EXCEPT !.at = "next", !.skip = skip, !.chats = chats,
                                                  !.todo = Found(Source \ Chats)]]
  /\ UNCHANGED <<onBranch, file, rows, tombs, printed, blemished, unwanted, edits, mishaps>>

\* The code files are done and the chat files are looked for, if they are included.
DiscoverChatFiles(p) ==
  /\ ing[p].at = "next" /\ ing[p].todo = <<>> /\ ing[p].chats
  /\ ing' = [ing EXCEPT ![p].todo = Found(Chats), ![p].chats = FALSE]
  /\ UNCHANGED <<onBranch, file, rows, tombs, printed, blemished, unwanted, edits, mishaps>>

\* Every ingest that works on the source at the same time as another is noted.
Joined(p, s) ==
  [q \in Ingest |-> IF q \in WorkingOn(s) /\ q # p THEN [ing[q] EXCEPT !.alone = FALSE] ELSE ing[q]]

\* shouldSkipUnchangedSource
Unchanged(p, s) == ing[p].skip /\ printed[s] = file[s]

\* One turn of the loop over the files up to its first await: the file is read,
\* hashed, compared with its fingerprint, parsed, and the memories it had before
\* are listed.  A file that is gone, too large or not readable is an error.
NextFile(p) ==
  /\ ing[p].at = "next" /\ ing[p].todo # <<>>
  /\ LET s    == Head(ing[p].todo)
         rest == Tail(ing[p].todo)
         work == [ing[p] EXCEPT !.at = "storing", !.todo = rest, !.src = s, !.read = file[s],
                    !.left = MemoriesOf(s, file[s]), !.old = ExistingIds(s), !.stale = {},
                    !.alone = WorkingOn(s) = {}]
     IN  IF file[s] = Absent \/ Unchanged(p, s)
         THEN ing' = [ing EXCEPT ![p].todo = rest] /\ UNCHANGED blemished
         ELSE /\ ing' = [Joined(p, s) EXCEPT ![p] = work]
              /\ blemished' = IF WorkingOn(s) = {} THEN blemished ELSE blemished \cup {s}
  /\ UNCHANGED <<onBranch, file, rows, tombs, printed, unwanted, edits, mishaps>>

\* Auto-tags and embedding are awaited, then upsertMemory writes the row of the
\* next memory and takes the branch's tombstone of it away.
Store(p) ==
  /\ ing[p].at = "storing"
  /\ \E id \in ing[p].left :
       /\ \A other \in ing[p].left : id[2] <= other[2]
       /\ rows' = rows \cup {id}
       /\ tombs' = tombs \ {id}
       /\ unwanted' = unwanted \ {id}
       /\ ing' = [ing EXCEPT ![p].left = @ \ {id}]
  /\ UNCHANGED <<onBranch, file, printed, blemished, edits, mishaps>>

\* removeStaleSourceMemories: listed before, not written since.
Stale(p) == ing[p].old \ LogicalIds(MemoriesOf(ing[p].src, ing[p].read))

StoredAll(p) ==
  /\ ing[p].at = "storing" /\ ing[p].left = {}
  /\ ing' = [ing EXCEPT ![p].at = "removing", ![p].stale = Stale(p)]
  /\ UNCHANGED <<onBranch, file, rows, tombs, printed, blemished, unwanted, edits, mishaps>>

\* deleteMemory of one stale id up to its await.  On a branch the id is looked
\* up among the visible memories to find the logical id the tombstone is for; an
\* id it does not find masks nothing.  Without a row nothing is awaited.
RemoveStale(p) ==
  /\ ing[p].at = "removing"
  /\ \E key \in ing[p].stale :
       LET id == key[2]
       IN  /\ rows' = rows \ {id}
           /\ ing' = [ing EXCEPT ![p].stale = @ \ {key},
                                 ![p].at = IF onBranch /\ id \in rows THEN "masking" ELSE "removing",
                                 ![p].masks = IF onBranch /\ ReaderSees(id) THEN id ELSE Absent]
  /\ UNCHANGED <<onBranch, file, tombs, printed, blemished, unwanted, edits, mishaps>>

\* The rest of deleteMemory on a branch, after the vector was removed.
Mask(p) ==
  /\ ing[p].at = "masking"
  /\ tombs' = IF ing[p].masks = Absent THEN tombs ELSE tombs \cup {ing[p].masks}
  /\ ing' = [ing EXCEPT ![p].at = "removing", ![p].masks = Absent]
  /\ UNCHANGED <<onBranch, file, rows, printed, blemished, unwanted, edits, mishaps>>

LeftFile(p) == [ing[p] EXCEPT !.at = "next", !.src = Absent, !.read = Absent, !.left = {},
                          !.old = {}, !.stale = {}, !.masks = Absent, !.alone = TRUE]

\* The hash of the file as it is now, not as it was read.
SealedMutant(p) == [printed EXCEPT ![ing[p].src] = file[ing[p].src]]

\* upsertSourceFingerprint, with the hash of what was read.
Sealed(p) == [printed EXCEPT ![ing[p].src] = ing[p].read]

Seal(p) ==
  /\ ing[p].at = "removing" /\ ing[p].stale = {}
  /\ printed' = Sealed(p)
  /\ blemished' = IF ing[p].alone THEN blemished \ {ing[p].src} ELSE blemished
  /\ ing' = [ing EXCEPT ![p] = LeftFile(p)]
  /\ UNCHANGED <<onBranch, file, rows, tombs, unwanted, edits, mishaps>>

\* An exception while the file was worked on: it is reported among the errors of
\* the result and the loop goes on, without a fingerprint.
FileFails(p) ==
  /\ Working(p) /\ mishaps < MaxMishaps
  /\ mishaps' = mishaps + 1
  /\ blemished' = blemished \cup {ing[p].src}
  /\ ing' = [ing EXCEPT ![p] = LeftFile(p)]
  /\ UNCHANGED <<onBranch, file, rows, tombs, printed, unwanted, edits>>

\* The loops are done and the result is returned.
Finish(p) ==
  /\ ing[p].at = "next" /\ ing[p].todo = <<>> /\ ~ing[p].chats
  /\ ing' = [ing EXCEPT ![p] = IdleIngest]
  /\ UNCHANGED <<onBranch, file, rows, tombs, printed, blemished, unwanted, edits, mishaps>>

-----------------------------------------------------------------------------
(***************************************************************************)
(* The environment.                                                        *)
(***************************************************************************)

\* Somebody edits, restores or deletes a file.
Edit(s) ==
  /\ edits < MaxEdits
  /\ \E c \in Content \cup {Absent} : c # file[s] /\ file' = [file EXCEPT ![s] = c]
  /\ edits' = edits + 1
  /\ UNCHANGED <<onBranch, rows, tombs, printed, ing, blemished, unwanted, mishaps>>

\* A memory is deleted by hand, in one step: MemoryService has the steps.
DeleteByHand(id) ==
  /\ ReaderSees(id) /\ mishaps < MaxMishaps
  /\ rows' = rows \ {id}
  /\ tombs' = IF onBranch THEN tombs \cup {id} ELSE tombs
  /\ unwanted' = unwanted \cup {id}
  /\ mishaps' = mishaps + 1
  /\ UNCHANGED <<onBranch, file, printed, ing, blemished, edits>>

\* The process ends and starts again: the tables stay.
IngestCrash ==
  /\ mishaps < MaxMishaps /\ \E p \in Ingest : ing[p].at # "idle"
  /\ mishaps' = mishaps + 1
  /\ blemished' = blemished \cup {ing[p].src : p \in {q \in Ingest : Working(q)}}
  /\ ing' = [p \in Ingest |-> IdleIngest]
  /\ UNCHANGED <<onBranch, file, rows, tombs, printed, unwanted, edits>>

IngestStep(p) ==
  DiscoverChatFiles(p) \/ NextFile(p) \/ Store(p) \/ StoredAll(p) \/ RemoveStale(p) \/ Mask(p) \/ Seal(p) \/ Finish(p)

IngestNext ==
  \/ \E p \in Ingest : \/ \E skip, chats \in BOOLEAN : BeginIngest(p, skip, chats)
                       \/ IngestStep(p) \/ FileFails(p)
  \/ \E s \in Source : Edit(s)
  \/ \E id \in rows : DeleteByHand(id)
  \/ IngestCrash

IngestSpec == IngestInit /\ [][IngestNext]_ingestVars

-----------------------------------------------------------------------------
(***************************************************************************)
(* Properties.                                                             *)
(***************************************************************************)

\* Types of the tables and of the ingests in progress.
IngestTypeOK ==
  /\ file \in [Source -> Content \cup {Absent}]
  /\ printed \in [Source -> Content \cup {Absent}]
  /\ rows \subseteq MemoryId /\ tombs \subseteq MemoryId /\ unwanted \subseteq MemoryId
  /\ onBranch \in BOOLEAN /\ blemished \subseteq Source
  /\ \A p \in Ingest :
       /\ ing[p].at \in {"idle", "next", "storing", "removing", "masking"}
       /\ Working(p) => ing[p].src \in Source /\ ing[p].read \in Content

\* What the fingerprint of a source promises a later ingest that skips it.
Promised(s) ==
  IF printed[s] = Absent THEN {} ELSE MemoriesOf(s, printed[s]) \ unwanted

\* No ingest is working on the source and the last one that did finished, alone.
Settled(s) == WorkingOn(s) = {} /\ s \notin blemished

ReadersSee(s) == {id \in rows : id[1] = s /\ ReaderSees(id)}

\* A fingerprint is only worth a skip if the memories match it.  For a source
\* whose last ingest finished alone, whatever edits, skips, crashes, failures and
\* races came before it, a reader sees no memory but those of the content the
\* fingerprint is of and not deleted by hand, and on main sees them all
\* (runIngestion, ingest.pipeline.ts:777-885).
SourceExact ==
  \A s \in Source : Settled(s) => /\ ReadersSee(s) \subseteq Promised(s)
                                  /\ ~onBranch => ReadersSee(s) = Promised(s)

\* The same of every branch: "branch-aware stale cleanup" (CHANGELOG.md:70) does
\* not remove what the file still holds (removeStaleSourceMemories).
BranchSourceExact == \A s \in Source : Settled(s) => ReadersSee(s) = Promised(s)
=============================================================================
