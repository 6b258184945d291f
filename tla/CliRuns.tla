------------------------------ MODULE CliRuns ------------------------------
(***************************************************************************)
(* Commands of the CLI that run at the same time, or after one that died,  *)
(* on the same disk (cli.py): `seed` writes the corpus in CDA layout       *)
(* (simulator.py) and ingests it, `ingest` ingests one batch.  They share  *)
(* the batch folders (source.py) and the pickle file, which a process      *)
(* loads once, when its LocalVectorStore is built, and writes whole after  *)
(* each change (local_store.py).  `query` only loads it.                   *)
(*                                                                         *)
(* Saving opens the file, which empties it, and writes one pickle; bytes   *)
(* that a longer one left behind it are ignored by pickle.  Parquet files  *)
(* of one batch have the same bytes whoever writes them.                   *)
(***************************************************************************)
EXTENDS Naturals, Sequences, FiniteSets

CONSTANTS
    Chunks,
    DocOf,      \* the document of each chunk
    Corpus,     \* the batches seed generates: what each deletes and holds
    Older,      \* what the pickle file may hold from an earlier corpus
    MaxRuns,    \* bound on commands
    MaxLive     \* bound on commands at a time

VARIABLES
    folder,     \* what lies at each batch's path
    opener,     \* the run that opened or removed each Parquet file last; 0: none
    manifest,   \* the run that listed each batch in the manifest; 0: none
    file,       \* the dictionary in the pickle file, if it has a readable one
    runs,       \* the commands, in the order they began
    due         \* history: what the calls since the last load leave stored

vars == <<folder, opener, manifest, file, runs, due>>

Docs == {DocOf[c] : c \in Chunks}

Paths == DOMAIN Corpus

ASSUME CliAssumption ==
    /\ DOMAIN DocOf = Chunks
    /\ Corpus \in Seq([deletes : SUBSET Docs, chunks : SUBSET Chunks])
    /\ Corpus # <<>>
    /\ \A b \in Paths : \A c \in Corpus[b].chunks : DocOf[c] \notin Corpus[b].deletes
    /\ Older \subseteq SUBSET Chunks
    /\ MaxRuns \in Nat /\ MaxLive \in Nat

Run == [cmd : {"seed", "ingest"},
        pc : {"generate", "opening", "writing", "publish", "load", "read",
              "apply", "saving", "done", "dead"},
        at : Paths,                \* the batch it is working on
        mem : SUBSET Chunks,       \* its store's dictionary
        deletes : SUBSET Docs, chunks : SUBSET Chunks,   \* still to apply
        alone : BOOLEAN]           \* no other command ran since it began

Live == {r \in DOMAIN runs : runs[r].pc \notin {"done", "dead"}}

Init ==
    /\ folder = [b \in Paths |-> "none"]
    /\ opener = [b \in Paths |-> 0]
    /\ manifest = [b \in Paths |-> 0]
    /\ file \in {{}} \cup {{S} : S \in Older}
    /\ runs = <<>>
    /\ due = {}

Fresh(cmd, pc, b) ==
    [cmd |-> cmd, pc |-> pc, at |-> b, mem |-> {}, deletes |-> {}, chunks |-> {},
     alone |-> Live = {}]

Begin(run) ==
    /\ Len(runs) < MaxRuns
    /\ Cardinality(Live) < MaxLive
    /\ runs' = Append([r \in DOMAIN runs |-> [runs[r] EXCEPT !.alone = @ /\ r \notin Live]], run)
    /\ UNCHANGED <<folder, opener, manifest, file, due>>

Seed == Begin(Fresh("seed", "generate", 1))

Ingest == \E b \in Paths : Begin(Fresh("ingest", "load", b))

At(r, pc) == r \in DOMAIN runs /\ runs[r].pc = pc

(* A process that ended has no memory.                                     *)
Gone(pc, r) ==
    [runs[r] EXCEPT !.pc = pc, !.at = 1, !.mem = {}, !.deletes = {}, !.chunks = {}]

-----------------------------------------------------------------------------
(* seed: the simulator.                                                    *)

NextFolder(r) ==
    IF runs[r].at < Len(Corpus)
      THEN runs' = [runs EXCEPT ![r].pc = "generate", ![r].at = @ + 1]
      ELSE runs' = [runs EXCEPT ![r].pc = "publish"]

(* Slips: the manifests are written first; a folder that is there is kept. *)
PublishFirst(r) ==
    /\ At(r, "generate")
    /\ folder' = [folder EXCEPT ![runs[r].at] = IF @ = "none" THEN "empty" ELSE @]
    /\ manifest' = [b \in Paths |-> r]
    /\ runs' = [runs EXCEPT ![r].pc = "opening"]
    /\ UNCHANGED <<opener, file, due>>

KeepFolder(r) ==
    /\ At(r, "generate")
    /\ folder' = [folder EXCEPT ![runs[r].at] = IF @ = "none" THEN "empty" ELSE @]
    /\ IF folder[runs[r].at] = "none"
         THEN runs' = [runs EXCEPT ![r].pc = "opening"]
         ELSE NextFolder(r)
    /\ UNCHANGED <<opener, manifest, file, due>>

MakeFolder(r) ==
    /\ At(r, "generate")
    /\ folder' = [folder EXCEPT ![runs[r].at] = IF @ = "none" THEN "empty" ELSE @]
    /\ runs' = [runs EXCEPT ![r].pc = "opening"]
    /\ UNCHANGED <<opener, manifest, file, due>>

OpenParquet(r) ==
    /\ At(r, "opening")
    /\ folder' = [folder EXCEPT ![runs[r].at] = "torn"]
    /\ opener' = [opener EXCEPT ![runs[r].at] = r]
    /\ runs' = [runs EXCEPT ![r].pc = "writing"]
    /\ UNCHANGED <<manifest, file, due>>

(* A file another run emptied since this one opened it may have gaps, and  *)
(* one it removed is gone.                                                 *)
CloseParquet(r) ==
    LET b == runs[r].at IN
    /\ At(r, "writing")
    /\ \/ /\ opener[b] = r \/ folder[b] # "empty"
          /\ folder' = [folder EXCEPT ![b] = "whole"]
       \/ /\ opener[b] # r
          /\ UNCHANGED folder
    /\ NextFolder(r)
    /\ UNCHANGED <<opener, manifest, file, due>>

PublishManifest(r) ==
    /\ At(r, "publish")
    /\ manifest' = [b \in Paths |-> r]
    /\ runs' = [runs EXCEPT ![r].pc = "load", ![r].at = 1]
    /\ UNCHANGED <<folder, opener, file, due>>

-----------------------------------------------------------------------------
(* The store, and ingest_batch.                                            *)

(* An unreadable file counts as none.                                      *)
Loaded == UNION file

Load(r) ==
    /\ At(r, "load")
    /\ runs' = [runs EXCEPT ![r].pc = "read",
                            ![r].mem = Loaded]
    /\ due' = Loaded
    /\ UNCHANGED <<folder, opener, manifest, file>>

(* A folder without a file has no rows; a path that does not exist, and a  *)
(* partial file, raise.                                                    *)
ReadBatch(r) ==
    LET b == runs[r].at IN
    /\ At(r, "read")
    /\ IF folder[b] \in {"none", "torn"}
         THEN runs' = [runs EXCEPT ![r] = Gone("dead", r)]
         ELSE runs' = [runs EXCEPT ![r].pc = "apply",
                 ![r].deletes = IF folder[b] = "whole" THEN Corpus[b].deletes ELSE {},
                 ![r].chunks = IF folder[b] = "whole" THEN Corpus[b].chunks ELSE {}]
    /\ UNCHANGED <<folder, opener, manifest, file, due>>

WithoutDoc(S, d) == {c \in S : DocOf[c] # d}

(* Slip: deletions stay in memory.                                         *)
DeleteUnsaved(r, d) ==
    /\ At(r, "apply")
    /\ d \in runs[r].deletes
    /\ runs' = [runs EXCEPT ![r].mem = WithoutDoc(@, d), ![r].deletes = @ \ {d}]
    /\ due' = WithoutDoc(due, d)
    /\ UNCHANGED <<folder, opener, manifest, file>>

DeleteDocument(r, d) ==
    /\ At(r, "apply")
    /\ d \in runs[r].deletes
    /\ runs' = [runs EXCEPT ![r].mem = WithoutDoc(@, d), ![r].deletes = @ \ {d},
                            ![r].pc = "saving"]
    /\ file' = {}
    /\ due' = WithoutDoc(due, d)
    /\ UNCHANGED <<folder, opener, manifest>>

Upsert(r) ==
    /\ At(r, "apply")
    /\ runs[r].deletes = {} /\ runs[r].chunks # {}
    /\ runs' = [runs EXCEPT ![r].mem = @ \cup runs[r].chunks, ![r].chunks = {},
                            ![r].pc = "saving"]
    /\ file' = {}
    /\ due' = due \cup runs[r].chunks
    /\ UNCHANGED <<folder, opener, manifest>>

WritePickle(r) ==
    /\ At(r, "saving")
    /\ file' = {runs[r].mem}
    /\ runs' = [runs EXCEPT ![r].pc = "apply"]
    /\ UNCHANGED <<folder, opener, manifest, due>>

(* Slip: the loop goes on after a store call that failed.                  *)
EndBatchEarly(r) ==
    /\ At(r, "apply")
    /\ IF runs[r].cmd = "seed" /\ runs[r].at < Len(Corpus)
         THEN runs' = [runs EXCEPT ![r].pc = "read", ![r].at = @ + 1]
         ELSE runs' = [runs EXCEPT ![r] = Gone("done", r)]
    /\ UNCHANGED <<folder, opener, manifest, file, due>>

EndBatch(r) ==
    /\ At(r, "apply")
    /\ runs[r].deletes = {} /\ runs[r].chunks = {}
    /\ IF runs[r].cmd = "seed" /\ runs[r].at < Len(Corpus)
         THEN runs' = [runs EXCEPT ![r].pc = "read", ![r].at = @ + 1]
         ELSE runs' = [runs EXCEPT ![r] = Gone("done", r)]
    /\ UNCHANGED <<folder, opener, manifest, file, due>>

(* A process is killed, or an exception ends it; pyarrow removes the file  *)
(* it could not write.                                                     *)
Die(r) ==
    /\ r \in Live
    /\ \/ UNCHANGED <<folder, opener>>
       \/ /\ runs[r].pc = "writing"
          /\ folder' = [folder EXCEPT ![runs[r].at] = "empty"]
          /\ opener' = [opener EXCEPT ![runs[r].at] = r]
    /\ runs' = [runs EXCEPT ![r] = Gone("dead", r)]
    /\ UNCHANGED <<manifest, file, due>>

Step(r) ==
    \/ MakeFolder(r) \/ OpenParquet(r) \/ CloseParquet(r) \/ PublishManifest(r)
    \/ Load(r) \/ ReadBatch(r)
    \/ \E d \in runs[r].deletes : DeleteDocument(r, d)
    \/ Upsert(r) \/ WritePickle(r) \/ EndBatch(r)

Next ==
    \/ Seed \/ Ingest
    \/ \E r \in DOMAIN runs : Step(r) \/ Die(r)

Spec == Init /\ [][Next]_vars

-----------------------------------------------------------------------------
(* The variables stay in their types; what a run still has to apply        *)
(* belongs to the batch it works on.                                       *)
TypeOK ==
    /\ folder \in [Paths -> {"none", "empty", "torn", "whole"}]
    /\ opener \in [Paths -> 0 .. MaxRuns] /\ manifest \in [Paths -> 0 .. MaxRuns]
    /\ file \subseteq SUBSET Chunks /\ Cardinality(file) <= 1
    /\ runs \in Seq(Run) /\ Len(runs) <= MaxRuns
    /\ due \subseteq Chunks
    /\ \A r \in DOMAIN runs :
         /\ runs[r].deletes \subseteq Corpus[runs[r].at].deletes
         /\ runs[r].chunks \subseteq Corpus[runs[r].at].chunks

LastAlone(r) == r = Len(runs) /\ runs[r].alone

(* A command that runs alone loses nothing: after each of its store calls  *)
(* the file holds what it held when the command began, changed by all of   *)
(* its calls so far, whatever died before (local_store.py 39-41).          *)
LoneWriterKeepsAll ==
    \A r \in DOMAIN runs :
        LastAlone(r) /\ runs[r].pc \in {"read", "apply", "done"} => Loaded = due

(* The corpus applied in order: a chunk's last batch to mention its        *)
(* document decides.                                                       *)
Mentions(b, d) == d \in Corpus[b].deletes \/ \E c \in Corpus[b].chunks : DocOf[c] = d

Owed(c) ==
    \E b \in Paths :
        /\ c \in Corpus[b].chunks
        /\ \A a \in Paths : a > b => DocOf[c] \notin Corpus[a].deletes

Removed(c) ==
    \E b \in Paths :
        /\ DocOf[c] \in Corpus[b].deletes
        /\ \A a \in Paths : a >= b => c \notin Corpus[a].chunks

(* Running `seed` again repairs what dead or overlapping runs left: one    *)
(* that runs alone reads only whole batches, and when it is done the file  *)
(* holds the corpus and nothing the corpus deletes.                        *)
SeedHeals ==
    \A r \in DOMAIN runs :
        LastAlone(r) /\ runs[r].cmd = "seed" =>
            /\ runs[r].pc = "read" => folder[runs[r].at] = "whole"
            /\ runs[r].pc = "done" =>
                 \A c \in Chunks : (Owed(c) => c \in Loaded) /\ (Removed(c) => c \notin Loaded)

(* The manifest is written after the Parquet files: a listed batch is not  *)
(* whole only if another run has opened it since (source.py 4-8).          *)
CommittedIsWhole ==
    \A b \in Paths : manifest[b] # 0 /\ folder[b] # "whole" => opener[b] # manifest[b]

(* "read committed rows (LocalCdaSource.read_batch, manifest-gated)"       *)
(* (ingest.py 6): what is read, the manifest lists.                        *)
OnlyCommittedRead ==
    \A r \in DOMAIN runs :
        runs[r].pc \in {"apply", "saving"} => manifest[runs[r].at] # 0

=============================================================================
