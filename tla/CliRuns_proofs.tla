--------------------------- MODULE CliRuns_proofs ---------------------------
(***************************************************************************)
(* Proofs about CLI commands that share a disk, for any corpus, any number *)
(* of commands and any that run at a time.                                 *)
(***************************************************************************)
EXTENDS CliRuns, FiniteSetTheorems, SequenceTheorems, TLAPS

-----------------------------------------------------------------------------
(* The inductive invariant, besides the type invariant.                    *)

(* Only a run that applies a batch has anything of it left to apply.       *)
PendingWhileApplying ==
    \A r \in DOMAIN runs :
        runs[r].pc \notin {"apply", "saving"} => runs[r].deletes = {} /\ runs[r].chunks = {}

(* A folder whose file a run has closed is whole until another opens it;   *)
(* a run is in the manifest only when it has closed them all.              *)
Writing(r) == runs[r].pc \in {"generate", "opening", "writing", "publish"}

HasClosed(r, b) ==
    \/ runs[r].pc \in {"generate", "opening", "writing"} /\ b < runs[r].at
    \/ runs[r].pc = "publish"

ClosedIsWhole ==
    \A b \in Paths :
        /\ opener[b] \in {0} \cup DOMAIN runs /\ manifest[b] \in {0} \cup DOMAIN runs
        /\ \A r \in DOMAIN runs :
             /\ opener[b] = r /\ HasClosed(r, b) => folder[b] = "whole"
             /\ manifest[b] = r => ~ Writing(r)

(* While the last command runs alone no other one is alive.                *)
AloneIsAlone ==
    \A r \in DOMAIN runs : LastAlone(r) => Live \subseteq {r}

(* What a lone seed has written so far is whole.                           *)
LoneFolders ==
    \A r \in DOMAIN runs :
        LastAlone(r) /\ runs[r].cmd = "seed" =>
            /\ runs[r].pc \in {"generate", "opening", "writing"} =>
                 \A b \in Paths : b < runs[r].at => folder[b] = "whole"
            /\ runs[r].pc = "writing" => opener[runs[r].at] = r
            /\ runs[r].pc \in {"publish", "load", "read", "apply", "saving"} =>
                 \A b \in Paths : folder[b] = "whole"
            /\ runs[r].pc = "load" => runs[r].at = 1

(* A lone run's dictionary, and between its store calls the file, are what *)
(* its calls so far have made of what it loaded.                           *)
LoneMemory ==
    \A r \in DOMAIN runs :
        LastAlone(r) =>
            /\ runs[r].pc \in {"read", "apply", "saving"} => runs[r].mem = due
            /\ runs[r].pc \in {"read", "apply", "done"} => Loaded = due

(* What a run has applied of the batch it works on.                        *)
AppliedDeletes(r) ==
    IF runs[r].pc = "read" THEN {} ELSE Corpus[runs[r].at].deletes \ runs[r].deletes

AppliedChunks(r) ==
    IF runs[r].pc = "read" THEN {} ELSE Corpus[runs[r].at].chunks \ runs[r].chunks

(* What the batches before the k-th call for, and what they remove.        *)
OwedBefore(c, k) ==
    \E b \in Paths :
        /\ b < k /\ c \in Corpus[b].chunks
        /\ \A a \in Paths : b < a /\ a < k => DocOf[c] \notin Corpus[a].deletes

RemovedBefore(c, k) ==
    \E b \in Paths :
        /\ b < k /\ DocOf[c] \in Corpus[b].deletes
        /\ \A a \in Paths : b <= a /\ a < k => c \notin Corpus[a].chunks

(* A lone seed has the corpus in its dictionary as far as it has got.      *)
LoneCorpus ==
    \A r \in DOMAIN runs :
        LastAlone(r) /\ runs[r].cmd = "seed" =>
            /\ runs[r].pc \in {"read", "apply", "saving"} =>
                 \A c \in Chunks :
                    /\ OwedBefore(c, runs[r].at) /\ DocOf[c] \notin AppliedDeletes(r) => c \in due
                    /\ c \in AppliedChunks(r) => c \in due
                    /\ RemovedBefore(c, runs[r].at) \/ DocOf[c] \in AppliedDeletes(r) =>
                         c \in AppliedChunks(r) \/ c \notin due
            /\ runs[r].pc = "done" =>
                 \A c \in Chunks : (Owed(c) => c \in due) /\ (Removed(c) => c \notin due)

Inv ==
    /\ TypeOK /\ PendingWhileApplying
    /\ ClosedIsWhole /\ CommittedIsWhole
    /\ AloneIsAlone /\ LoneFolders /\ LoneMemory /\ LoneCorpus

-----------------------------------------------------------------------------
(* What the steps do to the list of runs.                                  *)

LEMMA RunTypes ==
    ASSUME TypeOK
    PROVE  /\ runs \in Seq(Run) /\ Len(runs) \in Nat /\ DOMAIN runs = 1 .. Len(runs)
           /\ Paths = 1 .. Len(Corpus) /\ Len(Corpus) \in Nat /\ 1 \in Paths
           /\ \A r \in DOMAIN runs : runs[r] \in Run
<1>1. Corpus \in Seq([deletes : SUBSET Docs, chunks : SUBSET Chunks]) /\ Corpus # <<>>
  BY CliAssumption
<1>2. Paths = 1 .. Len(Corpus) /\ Len(Corpus) \in Nat /\ 1 \in Paths
  BY <1>1, EmptySeq DEF Paths
<1>3. QED
  BY <1>2 DEF TypeOK

LEMMA BatchTypes ==
    ASSUME NEW b \in Paths
    PROVE  /\ Corpus[b].deletes \in SUBSET Docs /\ Corpus[b].chunks \in SUBSET Chunks
           /\ \A c \in Corpus[b].chunks : DocOf[c] \notin Corpus[b].deletes
<1> DEFINE T == [deletes : SUBSET Docs, chunks : SUBSET Chunks]
<1>1. Corpus \in Seq(T)
  BY CliAssumption
<1> HIDE DEF T
<1>2. Corpus[b] \in T
  BY <1>1, ElementOfSeq DEF Paths
<1>3. QED
  BY <1>2, CliAssumption DEF T

(* Run r goes on to pc; its command, and the other runs, do not change.    *)
Turned(r, pc, at, mem, deletes, chunks) ==
    /\ runs' \in Seq(Run) /\ Len(runs') = Len(runs) /\ DOMAIN runs' = DOMAIN runs
    /\ \A q \in DOMAIN runs \ {r} : runs'[q] = runs[q]
    /\ runs'[r].cmd = runs[r].cmd /\ runs'[r].alone = runs[r].alone
    /\ runs'[r].pc = pc /\ runs'[r].at = at /\ runs'[r].mem = mem
    /\ runs'[r].deletes = deletes /\ runs'[r].chunks = chunks

LEMMA Update ==
    ASSUME TypeOK, NEW r \in DOMAIN runs, NEW new \in Run, runs' = [runs EXCEPT ![r] = new],
           new.cmd = runs[r].cmd, new.alone = runs[r].alone
    PROVE  Turned(r, new.pc, new.at, new.mem, new.deletes, new.chunks)
<1>1. runs \in Seq(Run) /\ DOMAIN runs = 1 .. Len(runs) /\ Len(runs) \in Nat
  BY RunTypes
<1>2. runs' \in Seq(Run) /\ Len(runs') = Len(runs)
  BY <1>1, ExceptSeq
<1>3. runs'[r] = new /\ \A q \in DOMAIN runs \ {r} : runs'[q] = runs[q]
  BY <1>1
<1>4. DOMAIN runs' = DOMAIN runs
  OBVIOUS
<1>5. QED
  BY <1>2, <1>3, <1>4 DEF Turned

LEMMA MakeFolderTurns ==
    ASSUME TypeOK, NEW r \in DOMAIN runs, MakeFolder(r)
    PROVE  Turned(r, "opening", runs[r].at, runs[r].mem, runs[r].deletes, runs[r].chunks)
<1> DEFINE new == [runs[r] EXCEPT !.pc = "opening"]
<1>1. runs[r] \in Run
  BY RunTypes
<1>2. /\ new \in Run /\ new.cmd = runs[r].cmd /\ new.alone = runs[r].alone
      /\ new.pc = "opening" /\ new.at = runs[r].at /\ new.mem = runs[r].mem
      /\ new.deletes = runs[r].deletes /\ new.chunks = runs[r].chunks
  BY <1>1 DEF Run
<1>3. runs' = [runs EXCEPT ![r] = new]
  BY DEF MakeFolder
<1> HIDE DEF new
<1>4. QED
  BY <1>2, <1>3, Update

LEMMA OpenParquetTurns ==
    ASSUME TypeOK, NEW r \in DOMAIN runs, OpenParquet(r)
    PROVE  Turned(r, "writing", runs[r].at, runs[r].mem, runs[r].deletes, runs[r].chunks)
<1> DEFINE new == [runs[r] EXCEPT !.pc = "writing"]
<1>1. runs[r] \in Run
  BY RunTypes
<1>2. /\ new \in Run /\ new.cmd = runs[r].cmd /\ new.alone = runs[r].alone
      /\ new.pc = "writing" /\ new.at = runs[r].at /\ new.mem = runs[r].mem
      /\ new.deletes = runs[r].deletes /\ new.chunks = runs[r].chunks
  BY <1>1 DEF Run
<1>3. runs' = [runs EXCEPT ![r] = new]
  BY DEF OpenParquet
<1> HIDE DEF new
<1>4. QED
  BY <1>2, <1>3, Update

LEMMA NextFolderTurns ==
    ASSUME TypeOK, NEW r \in DOMAIN runs, NextFolder(r)
    PROVE  \/ /\ runs[r].at < Len(Corpus)
              /\ Turned(r, "generate", runs[r].at + 1, runs[r].mem, runs[r].deletes, runs[r].chunks)
           \/ /\ runs[r].at = Len(Corpus)
              /\ Turned(r, "publish", runs[r].at, runs[r].mem, runs[r].deletes, runs[r].chunks)
<1> DEFINE on == [runs[r] EXCEPT !.pc = "generate", !.at = @ + 1]
           last == [runs[r] EXCEPT !.pc = "publish"]
<1>1. /\ runs[r] \in Run /\ Paths = 1 .. Len(Corpus) /\ Len(Corpus) \in Nat
      /\ runs[r].at \in 1 .. Len(Corpus)
  BY RunTypes DEF Run
<1>2. CASE runs[r].at < Len(Corpus)
  <2>1. runs[r].at + 1 \in Paths
    BY <1>1, <1>2
  <2>2. /\ on \in Run /\ on.cmd = runs[r].cmd /\ on.alone = runs[r].alone
        /\ on.pc = "generate" /\ on.at = runs[r].at + 1 /\ on.mem = runs[r].mem
        /\ on.deletes = runs[r].deletes /\ on.chunks = runs[r].chunks
    BY <1>1, <2>1 DEF Run
  <2>3. runs' = [runs EXCEPT ![r] = on]
    BY <1>2 DEF NextFolder
  <2> HIDE DEF on
  <2>4. QED
    BY <1>2, <2>2, <2>3, Update
<1>3. CASE runs[r].at >= Len(Corpus)
  <2>1. /\ last \in Run /\ last.cmd = runs[r].cmd /\ last.alone = runs[r].alone
        /\ last.pc = "publish" /\ last.at = runs[r].at /\ last.mem = runs[r].mem
        /\ last.deletes = runs[r].deletes /\ last.chunks = runs[r].chunks
    BY <1>1 DEF Run
  <2>2. runs' = [runs EXCEPT ![r] = last]
    BY <1>1, <1>3 DEF NextFolder
  <2>3. runs[r].at = Len(Corpus)
    BY <1>1, <1>3
  <2> HIDE DEF last
  <2>4. QED
    BY <2>1, <2>2, <2>3, Update
<1>4. QED
  BY <1>1, <1>2, <1>3

LEMMA PublishManifestTurns ==
    ASSUME TypeOK, NEW r \in DOMAIN runs, PublishManifest(r)
    PROVE  Turned(r, "load", 1, runs[r].mem, runs[r].deletes, runs[r].chunks)
<1> DEFINE new == [runs[r] EXCEPT !.pc = "load", !.at = 1]
<1>1. runs[r] \in Run
  BY RunTypes
<1>2. /\ new \in Run /\ new.cmd = runs[r].cmd /\ new.alone = runs[r].alone
      /\ new.pc = "load" /\ new.at = 1 /\ new.mem = runs[r].mem
      /\ new.deletes = runs[r].deletes /\ new.chunks = runs[r].chunks
  BY <1>1, RunTypes DEF Run
<1>3. runs' = [runs EXCEPT ![r] = new]
  BY DEF PublishManifest
<1> HIDE DEF new
<1>4. QED
  BY <1>2, <1>3, Update

LEMMA LoadedTyped == TypeOK => Loaded \subseteq Chunks
BY DEF TypeOK, Loaded

LEMMA LoadTurns ==
    ASSUME TypeOK, NEW r \in DOMAIN runs, Load(r)
    PROVE  Turned(r, "read", runs[r].at, Loaded, runs[r].deletes, runs[r].chunks)
<1> DEFINE new == [runs[r] EXCEPT !.pc = "read", !.mem = Loaded]
<1>1. runs[r] \in Run
  BY RunTypes
<1>2. /\ new \in Run /\ new.cmd = runs[r].cmd /\ new.alone = runs[r].alone
      /\ new.pc = "read" /\ new.at = runs[r].at /\ new.mem = Loaded
      /\ new.deletes = runs[r].deletes /\ new.chunks = runs[r].chunks
  BY <1>1, LoadedTyped DEF Run
<1>3. runs' = [runs EXCEPT ![r] = new]
  BY DEF Load
<1> HIDE DEF new
<1>4. QED
  BY <1>2, <1>3, Update

LEMMA DeleteDocumentTurns ==
    ASSUME TypeOK, NEW r \in DOMAIN runs, NEW d, DeleteDocument(r, d)
    PROVE  Turned(r, "saving", runs[r].at, WithoutDoc(runs[r].mem, d),
                  runs[r].deletes \ {d}, runs[r].chunks)
<1> DEFINE new == [runs[r] EXCEPT !.pc = "saving", !.mem = WithoutDoc(runs[r].mem, d),
                                  !.deletes = runs[r].deletes \ {d}]
<1>1. runs[r] \in Run
  BY RunTypes
<1>2. /\ new \in Run /\ new.cmd = runs[r].cmd /\ new.alone = runs[r].alone
      /\ new.pc = "saving" /\ new.at = runs[r].at /\ new.mem = WithoutDoc(runs[r].mem, d)
      /\ new.deletes = runs[r].deletes \ {d} /\ new.chunks = runs[r].chunks
  BY <1>1 DEF Run, WithoutDoc
<1>3. runs' = [runs EXCEPT ![r] = new]
  BY DEF DeleteDocument
<1> HIDE DEF new
<1>4. QED
  BY <1>2, <1>3, Update

LEMMA UpsertTurns ==
    ASSUME TypeOK, NEW r \in DOMAIN runs, Upsert(r)
    PROVE  Turned(r, "saving", runs[r].at, runs[r].mem \cup runs[r].chunks, runs[r].deletes, {})
<1> DEFINE new == [runs[r] EXCEPT !.pc = "saving", !.mem = runs[r].mem \cup runs[r].chunks,
                                  !.chunks = {}]
<1>1. runs[r] \in Run
  BY RunTypes
<1>2. /\ new \in Run /\ new.cmd = runs[r].cmd /\ new.alone = runs[r].alone
      /\ new.pc = "saving" /\ new.at = runs[r].at /\ new.mem = runs[r].mem \cup runs[r].chunks
      /\ new.deletes = runs[r].deletes /\ new.chunks = {}
  BY <1>1 DEF Run
<1>3. runs' = [runs EXCEPT ![r] = new]
  BY DEF Upsert
<1> HIDE DEF new
<1>4. QED
  BY <1>2, <1>3, Update

LEMMA WritePickleTurns ==
    ASSUME TypeOK, NEW r \in DOMAIN runs, WritePickle(r)
    PROVE  Turned(r, "apply", runs[r].at, runs[r].mem, runs[r].deletes, runs[r].chunks)
<1> DEFINE new == [runs[r] EXCEPT !.pc = "apply"]
<1>1. runs[r] \in Run
  BY RunTypes
<1>2. /\ new \in Run /\ new.cmd = runs[r].cmd /\ new.alone = runs[r].alone
      /\ new.pc = "apply" /\ new.at = runs[r].at /\ new.mem = runs[r].mem
      /\ new.deletes = runs[r].deletes /\ new.chunks = runs[r].chunks
  BY <1>1 DEF Run
<1>3. runs' = [runs EXCEPT ![r] = new]
  BY DEF WritePickle
<1> HIDE DEF new
<1>4. QED
  BY <1>2, <1>3, Update

(* A run that ended has nothing in memory.                                 *)
LEMMA GoneTurns ==
    ASSUME TypeOK, NEW r \in DOMAIN runs, NEW pc \in {"done", "dead"},
           runs' = [runs EXCEPT ![r] = Gone(pc, r)]
    PROVE  Turned(r, pc, 1, {}, {}, {})
<1> DEFINE new == Gone(pc, r)
<1>1. runs[r] \in Run /\ 1 \in Paths
  BY RunTypes
<1>2. /\ new \in Run /\ new.cmd = runs[r].cmd /\ new.alone = runs[r].alone
      /\ new.pc = pc /\ new.at = 1 /\ new.mem = {} /\ new.deletes = {} /\ new.chunks = {}
  BY <1>1 DEF Run, Gone
<1> HIDE DEF new
<1>3. QED
  BY <1>2, Update DEF new

LEMMA ReadBatchTurns ==
    ASSUME TypeOK, NEW r \in DOMAIN runs, ReadBatch(r)
    PROVE  \/ /\ folder[runs[r].at] # "whole"
              /\ Turned(r, "dead", 1, {}, {}, {})
           \/ /\ folder[runs[r].at] = "whole"
              /\ Turned(r, "apply", runs[r].at, runs[r].mem,
                        Corpus[runs[r].at].deletes, Corpus[runs[r].at].chunks)
           \/ /\ folder[runs[r].at] # "whole"
              /\ Turned(r, "apply", runs[r].at, runs[r].mem, {}, {})
<1> DEFINE b == runs[r].at
           new == [runs[r] EXCEPT !.pc = "apply",
                                  !.deletes = IF folder[b] = "whole" THEN Corpus[b].deletes ELSE {},
                                  !.chunks = IF folder[b] = "whole" THEN Corpus[b].chunks ELSE {}]
<1>1. runs[r] \in Run /\ b \in Paths
  BY RunTypes DEF Run
<1>2. CASE folder[b] \in {"none", "torn"}
  <2>1. runs' = [runs EXCEPT ![r] = Gone("dead", r)]
    BY <1>2 DEF ReadBatch
  <2>2. Turned(r, "dead", 1, {}, {}, {})
    BY <2>1, GoneTurns
  <2>3. QED
    BY <1>2, <2>2
<1>3. CASE folder[b] \notin {"none", "torn"}
  <2>1. Corpus[b].deletes \in SUBSET Docs /\ Corpus[b].chunks \in SUBSET Chunks
    BY <1>1, BatchTypes
  <2>2. /\ new \in Run /\ new.cmd = runs[r].cmd /\ new.alone = runs[r].alone
        /\ new.pc = "apply" /\ new.at = b /\ new.mem = runs[r].mem
        /\ new.deletes = IF folder[b] = "whole" THEN Corpus[b].deletes ELSE {}
        /\ new.chunks = IF folder[b] = "whole" THEN Corpus[b].chunks ELSE {}
    BY <1>1, <2>1 DEF Run
  <2>3. runs' = [runs EXCEPT ![r] = new]
    BY <1>3 DEF ReadBatch
  <2> HIDE DEF new
  <2>4. Turned(r, new.pc, new.at, new.mem, new.deletes, new.chunks)
    BY <2>2, <2>3, Update
  <2>5. QED
    BY <2>2, <2>4
<1>4. QED
  BY <1>2, <1>3

LEMMA EndBatchTurns ==
    ASSUME TypeOK, NEW r \in DOMAIN runs, EndBatch(r)
    PROVE  \/ /\ runs[r].cmd = "seed" /\ runs[r].at < Len(Corpus)
              /\ Turned(r, "read", runs[r].at + 1, runs[r].mem, runs[r].deletes, runs[r].chunks)
           \/ /\ runs[r].cmd = "seed" => runs[r].at = Len(Corpus)
              /\ Turned(r, "done", 1, {}, {}, {})
<1> DEFINE new == [runs[r] EXCEPT !.pc = "read", !.at = @ + 1]
<1>1. /\ runs[r] \in Run /\ Paths = 1 .. Len(Corpus) /\ Len(Corpus) \in Nat
      /\ runs[r].at \in 1 .. Len(Corpus)
  BY RunTypes DEF Run
<1>2. CASE runs[r].cmd = "seed" /\ runs[r].at < Len(Corpus)
  <2>1. runs[r].at + 1 \in Paths
    BY <1>1, <1>2
  <2>2. /\ new \in Run /\ new.cmd = runs[r].cmd /\ new.alone = runs[r].alone
        /\ new.pc = "read" /\ new.at = runs[r].at + 1 /\ new.mem = runs[r].mem
        /\ new.deletes = runs[r].deletes /\ new.chunks = runs[r].chunks
    BY <1>1, <2>1 DEF Run
  <2>3. runs' = [runs EXCEPT ![r] = new]
    BY <1>2 DEF EndBatch
  <2> HIDE DEF new
  <2>4. QED
    BY <1>2, <2>2, <2>3, Update
<1>3. CASE ~ (runs[r].cmd = "seed" /\ runs[r].at < Len(Corpus))
  <2>1. runs' = [runs EXCEPT ![r] = Gone("done", r)]
    BY <1>3 DEF EndBatch
  <2>2. Turned(r, "done", 1, {}, {}, {})
    BY <2>1, GoneTurns
  <2>3. QED
    BY <1>1, <1>3, <2>2
<1>4. QED
  BY <1>2, <1>3

LEMMA DieTurns ==
    ASSUME TypeOK, NEW r \in DOMAIN runs, Die(r)
    PROVE  Turned(r, "dead", 1, {}, {}, {})
<1>1. runs' = [runs EXCEPT ![r] = Gone("dead", r)]
  BY DEF Die
<1>2. QED
  BY <1>1, GoneTurns

(* A step is of a living run, and it turns that run only.                  *)
LEMMA Stepped ==
    ASSUME TypeOK, NEW r \in DOMAIN runs, Step(r) \/ Die(r)
    PROVE  /\ r \in Live
           /\ \E pc, at, mem, deletes, chunks : Turned(r, pc, at, mem, deletes, chunks)
<1>1. r \in Live
  BY DEF Step, Die, MakeFolder, OpenParquet, CloseParquet, PublishManifest, Load, ReadBatch,
     DeleteDocument, Upsert, WritePickle, EndBatch, At, Live
<1>2. CASE MakeFolder(r) \/ OpenParquet(r) \/ PublishManifest(r) \/ Load(r)
  BY <1>1, <1>2, MakeFolderTurns, OpenParquetTurns, PublishManifestTurns, LoadTurns
<1>3. CASE CloseParquet(r)
  BY <1>1, <1>3, NextFolderTurns DEF CloseParquet
<1>4. CASE ReadBatch(r) \/ EndBatch(r)
  BY <1>1, <1>4, ReadBatchTurns, EndBatchTurns
<1>5. CASE Upsert(r) \/ WritePickle(r) \/ \E d \in runs[r].deletes : DeleteDocument(r, d)
  BY <1>1, <1>5, UpsertTurns, WritePickleTurns, DeleteDocumentTurns
<1>6. CASE Die(r)
  BY <1>1, <1>6, DieTurns
<1>7. QED
  BY <1>2, <1>3, <1>4, <1>5, <1>6 DEF Step

LEMMA Framed ==
    ASSUME TypeOK, NEW r \in DOMAIN runs, Step(r) \/ Die(r)
    PROVE  /\ r \in Live
           /\ runs' \in Seq(Run) /\ Len(runs') = Len(runs) /\ DOMAIN runs' = DOMAIN runs
           /\ \A q \in DOMAIN runs \ {r} : runs'[q] = runs[q]
           /\ runs'[r].cmd = runs[r].cmd /\ runs'[r].alone = runs[r].alone
           /\ \A q \in DOMAIN runs : LastAlone(q)' <=> LastAlone(q)
BY Stepped DEF Turned, LastAlone

(* A command that begins is the last one; it is alone if no other one is   *)
(* alive, and none of those is alone any more.                             *)
LEMMA Begun ==
    ASSUME TypeOK, Seed \/ Ingest
    PROVE  LET k == Len(runs) + 1
               new == runs'[k]
           IN
           /\ runs' \in Seq(Run) /\ Len(runs') <= MaxRuns /\ Len(runs') = k
           /\ DOMAIN runs' = DOMAIN runs \cup {k} /\ k \notin DOMAIN runs
           /\ \A r \in DOMAIN runs :
                /\ runs'[r].cmd = runs[r].cmd /\ runs'[r].pc = runs[r].pc
                /\ runs'[r].at = runs[r].at /\ runs'[r].mem = runs[r].mem
                /\ runs'[r].deletes = runs[r].deletes /\ runs'[r].chunks = runs[r].chunks
           /\ \/ new.cmd = "seed" /\ new.pc = "generate" /\ new.at = 1
              \/ new.cmd = "ingest" /\ new.pc = "load" /\ new.at \in Paths
           /\ new.deletes = {} /\ new.chunks = {}
           /\ new.alone => Live = {}
           /\ UNCHANGED <<folder, opener, manifest, file, due>>
<1> DEFINE old == [r \in DOMAIN runs |-> [runs[r] EXCEPT !.alone = @ /\ r \notin Live]]
<1>1. PICK cmd \in {"seed", "ingest"}, pc \in {"generate", "load"}, b \in Paths :
         /\ Begin(Fresh(cmd, pc, b))
         /\ \/ cmd = "seed" /\ pc = "generate" /\ b = 1
            \/ cmd = "ingest" /\ pc = "load"
  BY RunTypes DEF Seed, Ingest
<1> DEFINE new == Fresh(cmd, pc, b)
<1>2. new \in Run
  BY DEF Fresh, Run
<1>3. /\ new.cmd = cmd /\ new.pc = pc /\ new.at = b /\ new.deletes = {} /\ new.chunks = {}
      /\ new.alone = (Live = {})
  BY DEF Fresh
<1>4. old \in Seq(Run) /\ Len(old) = Len(runs) /\ DOMAIN old = DOMAIN runs
  <2>1. \A r \in DOMAIN runs : [runs[r] EXCEPT !.alone = @ /\ r \notin Live] \in Run
    BY RunTypes DEF Run
  <2>2. old \in [1 .. Len(runs) -> Run]
    BY <2>1, RunTypes
  <2>3. QED
    BY <2>2, RunTypes
<1>5. \A r \in DOMAIN runs :
        /\ old[r].cmd = runs[r].cmd /\ old[r].pc = runs[r].pc
        /\ old[r].at = runs[r].at /\ old[r].mem = runs[r].mem
        /\ old[r].deletes = runs[r].deletes /\ old[r].chunks = runs[r].chunks
  BY RunTypes DEF Run
<1>6. runs' = Append(old, new) /\ Len(runs) < MaxRuns /\ MaxRuns \in Nat
      /\ UNCHANGED <<folder, opener, manifest, file, due>>
  BY <1>1, CliAssumption DEF Begin
<1> HIDE DEF old, new
<1>7. /\ runs' \in Seq(Run) /\ Len(runs') = Len(old) + 1
      /\ \A i \in 1 .. Len(old) : runs'[i] = old[i]
      /\ runs'[Len(old) + 1] = new
  BY <1>2, <1>4, <1>6, AppendProperties
<1>8. DOMAIN runs = 1 .. Len(runs) /\ Len(runs) \in Nat
  BY RunTypes
<1>9. DOMAIN runs' = 1 .. Len(runs')
  BY <1>7
<1>10. Len(old) = Len(runs) /\ DOMAIN runs' = 1 .. Len(runs) + 1
  BY <1>4, <1>7, <1>9
<1>11. /\ DOMAIN runs' = DOMAIN runs \cup {Len(runs) + 1} /\ Len(runs) + 1 \notin DOMAIN runs
       /\ \A r \in DOMAIN runs : runs'[r] = old[r]
       /\ Len(runs') = Len(runs) + 1 /\ Len(runs') <= MaxRuns
       /\ runs'[Len(runs) + 1] = new
  BY <1>6, <1>7, <1>8, <1>10
<1>12. new.alone => Live = {}
  BY <1>3
<1>13. QED
  BY <1>1, <1>3, <1>5, <1>6, <1>7, <1>11, <1>12

LEMMA RunsTyped ==
    ASSUME TypeOK, Next
    PROVE  runs' \in Seq(Run) /\ Len(runs') <= MaxRuns
BY Begun, Framed DEF Next, TypeOK

-----------------------------------------------------------------------------
(* The invariant holds at first, and every step keeps each part of it.     *)

LEMMA FileSizes ==
    /\ Cardinality({}) = 0 /\ \A S : Cardinality({S}) = 1
BY FS_EmptySet, FS_Singleton

LEMMA InitInv == Init => Inv
<1> SUFFICES ASSUME Init PROVE Inv
  OBVIOUS
<1>1. runs \in Seq(Run) /\ Len(runs) = 0 /\ DOMAIN runs = {}
  BY EmptySeq DEF Init
<1>2. TypeOK
  <2>1. file \subseteq SUBSET Chunks /\ Cardinality(file) <= 1
    <3>1. CASE file = {}
      BY <3>1, FileSizes
    <3>2. ASSUME NEW S \in Older, file = {S}
          PROVE  file \subseteq SUBSET Chunks /\ Cardinality(file) <= 1
      <4>1. Cardinality(file) = 1
        BY <3>2, FileSizes
      <4>2. S \subseteq Chunks
        BY CliAssumption
      <4>3. QED
        BY <3>2, <4>1, <4>2
    <3>3. QED
      BY <3>1, <3>2 DEF Init
  <2>2. QED
    BY <1>1, <2>1, CliAssumption DEF Init, TypeOK
<1>3. QED
  BY <1>1, <1>2 DEF Inv, Init, PendingWhileApplying, ClosedIsWhole, CommittedIsWhole,
     AloneIsAlone, LoneFolders, LoneMemory, LoneCorpus

LEMMA NextTypes ==
    ASSUME TypeOK, PendingWhileApplying, Next
    PROVE  TypeOK' /\ PendingWhileApplying'
<1> DEFINE Typed(r) == /\ runs[r].deletes \subseteq Corpus[runs[r].at].deletes
                       /\ runs[r].chunks \subseteq Corpus[runs[r].at].chunks
           Idle(r) == runs[r].pc \notin {"apply", "saving"} =>
                         runs[r].deletes = {} /\ runs[r].chunks = {}
<1>0. \A r \in DOMAIN runs : Typed(r) /\ Idle(r)
  BY DEF TypeOK, PendingWhileApplying
<1>1. CASE Seed \/ Ingest
  <2>1. \A r \in DOMAIN runs' : Typed(r)' /\ Idle(r)'
    BY <1>0, <1>1, Begun
  <2>2. QED
    BY <1>1, <2>1, Begun DEF TypeOK, PendingWhileApplying
<1>2. ASSUME NEW r \in DOMAIN runs, Step(r) \/ Die(r)
      PROVE  TypeOK' /\ PendingWhileApplying'
  <2>0. /\ runs' \in Seq(Run) /\ Len(runs') <= MaxRuns /\ DOMAIN runs' = DOMAIN runs
        /\ \A q \in DOMAIN runs \ {r} : Typed(q)' /\ Idle(q)'
        /\ r \in 0 .. MaxRuns
    BY <1>0, <1>2, Framed, RunTypes, CliAssumption DEF TypeOK
  <2> DEFINE Disk ==
        /\ folder \in [Paths -> {"none", "empty", "torn", "whole"}]
        /\ opener \in [Paths -> 0 .. MaxRuns] /\ manifest \in [Paths -> 0 .. MaxRuns]
        /\ file \subseteq SUBSET Chunks /\ Cardinality(file) <= 1
        /\ due \subseteq Chunks
  <2>1. Disk
    BY DEF TypeOK
  <2>2. /\ runs[r] \in Run
        /\ runs[r].mem \subseteq Chunks /\ runs[r].chunks \subseteq Chunks
        /\ Loaded \subseteq Chunks
    BY RunTypes, LoadedTyped DEF Run
  <2>3. Disk'
    <3>1. CASE MakeFolder(r) \/ OpenParquet(r) \/ CloseParquet(r) \/ PublishManifest(r) \/ Die(r)
      <4>1. UNCHANGED <<file, due>>
        BY <3>1 DEF MakeFolder, OpenParquet, CloseParquet, PublishManifest, Die
      <4>2. folder' \in [Paths -> {"none", "empty", "torn", "whole"}]
        BY <2>1, <3>1 DEF MakeFolder, OpenParquet, CloseParquet, PublishManifest, Die
      <4>3. opener' \in [Paths -> 0 .. MaxRuns]
        BY <2>0, <2>1, <3>1 DEF MakeFolder, OpenParquet, CloseParquet, PublishManifest, Die
      <4>4. manifest' \in [Paths -> 0 .. MaxRuns]
        BY <2>0, <2>1, <3>1 DEF MakeFolder, OpenParquet, CloseParquet, PublishManifest, Die
      <4>5. QED
        BY <2>1, <4>1, <4>2, <4>3, <4>4
    <3>2. CASE Load(r) \/ ReadBatch(r) \/ EndBatch(r)
      BY <2>1, <2>2, <3>2 DEF Load, ReadBatch, EndBatch
    <3>3. CASE Upsert(r) \/ WritePickle(r) \/ \E d \in runs[r].deletes : DeleteDocument(r, d)
      <4>1. UNCHANGED <<folder, opener, manifest>>
        BY <3>3 DEF Upsert, WritePickle, DeleteDocument
      <4>2. due' \subseteq Chunks
        BY <2>1, <2>2, <3>3 DEF Upsert, WritePickle, DeleteDocument, WithoutDoc
      <4>3. file' = {} \/ file' = {runs[r].mem}
        BY <3>3 DEF Upsert, WritePickle, DeleteDocument
      <4>4. file' \subseteq SUBSET Chunks
        BY <2>2, <4>3
      <4>5. Cardinality(file') <= 1
        <5>1. Cardinality(file') = 0 \/ Cardinality(file') = 1
          BY <4>3, FileSizes, Zenon
        <5>2. QED
          BY <5>1
      <4>6. QED
        BY <2>1, <4>1, <4>2, <4>4, <4>5
    <3>4. QED
      BY <1>2, <3>1, <3>2, <3>3 DEF Step
  <2>4. Typed(r)' /\ Idle(r)'
    <3>1. CASE MakeFolder(r) \/ OpenParquet(r) \/ PublishManifest(r) \/ Load(r)
      BY <1>0, <3>1, MakeFolderTurns, OpenParquetTurns, PublishManifestTurns, LoadTurns
         DEF Turned, MakeFolder, OpenParquet, PublishManifest, Load, At
    <3>2. CASE CloseParquet(r)
      BY <1>0, <3>2, NextFolderTurns DEF Turned, CloseParquet, At
    <3>3. CASE ReadBatch(r) \/ EndBatch(r) \/ Die(r)
      <4>1. CASE ReadBatch(r)
        BY <4>1, ReadBatchTurns DEF Turned
      <4>2. CASE EndBatch(r)
        BY <4>2, EndBatchTurns DEF Turned, EndBatch
      <4>3. CASE Die(r)
        BY <4>3, DieTurns DEF Turned
      <4>4. QED
        BY <3>3, <4>1, <4>2, <4>3
    <3>4. CASE Upsert(r) \/ WritePickle(r) \/ \E d \in runs[r].deletes : DeleteDocument(r, d)
      BY <1>0, <3>4, UpsertTurns, WritePickleTurns, DeleteDocumentTurns DEF Turned
    <3>5. QED
      BY <1>2, <3>1, <3>2, <3>3, <3>4 DEF Step
  <2>5. \A q \in DOMAIN runs' : Typed(q)' /\ Idle(q)'
    BY <2>0, <2>4
  <2>6. QED
    BY <2>0, <2>3, <2>5 DEF TypeOK, PendingWhileApplying
<1>3. QED
  BY <1>1, <1>2 DEF Next

LEMMA NextAlone ==
    ASSUME TypeOK, AloneIsAlone, Next
    PROVE  AloneIsAlone'
<1>1. CASE Seed \/ Ingest
  <2>1. ASSUME NEW r \in DOMAIN runs', LastAlone(r)'
        PROVE  Live' \subseteq {r}
    <3>1. r = Len(runs) + 1 /\ Live = {}
      BY <1>1, <2>1, Begun DEF LastAlone
    <3>2. QED
      BY <1>1, <3>1, Begun DEF Live
  <2>2. QED
    BY <2>1 DEF AloneIsAlone
<1>2. ASSUME NEW r \in DOMAIN runs, Step(r) \/ Die(r)
      PROVE  AloneIsAlone'
  <2>1. Live' \subseteq Live /\ DOMAIN runs' = DOMAIN runs
        /\ \A q \in DOMAIN runs : LastAlone(q)' <=> LastAlone(q)
    BY <1>2, Framed DEF Live
  <2>2. QED
    BY <2>1 DEF AloneIsAlone
<1>3. QED
  BY <1>1, <1>2 DEF Next

(* What a folder holds changes only under the run that writes it, and      *)
(* there only by opening the file, closing it or dying.                    *)
LEMMA NextClosed ==
    ASSUME TypeOK, ClosedIsWhole, CommittedIsWhole, Next
    PROVE  ClosedIsWhole' /\ CommittedIsWhole'
<1> DEFINE Good(b) ==
             /\ opener[b] \in {0} \cup DOMAIN runs /\ manifest[b] \in {0} \cup DOMAIN runs
             /\ \A r \in DOMAIN runs :
                  /\ opener[b] = r /\ HasClosed(r, b) => folder[b] = "whole"
                  /\ manifest[b] = r => ~ Writing(r)
             /\ manifest[b] # 0 /\ folder[b] # "whole" => opener[b] # manifest[b]
<1>0. \A b \in Paths : Good(b)
  BY DEF ClosedIsWhole, CommittedIsWhole
<1> SUFFICES ASSUME NEW b \in Paths PROVE Good(b)'
  BY DEF ClosedIsWhole, CommittedIsWhole
<1>1. CASE Seed \/ Ingest
  <2>1. \A r \in DOMAIN runs : r \in DOMAIN runs' /\ (HasClosed(r, b)' <=> HasClosed(r, b))
                               /\ (Writing(r)' <=> Writing(r))
    BY <1>1, Begun DEF HasClosed, Writing
  <2>2. UNCHANGED <<folder, opener, manifest>>
        /\ DOMAIN runs' = DOMAIN runs \cup {Len(runs) + 1}
        /\ Len(runs) + 1 \notin DOMAIN runs /\ Len(runs) + 1 # 0
    BY <1>1, Begun, RunTypes
  <2>3. QED
    BY <1>0, <2>1, <2>2
<1>2. ASSUME NEW r \in DOMAIN runs, Step(r) \/ Die(r)
      PROVE  Good(b)'
  <2>0. /\ DOMAIN runs' = DOMAIN runs /\ r # 0
        /\ \A q \in DOMAIN runs \ {r} : (HasClosed(q, b)' <=> HasClosed(q, b))
                                        /\ (Writing(q)' <=> Writing(q))
    BY <1>2, Framed, RunTypes DEF HasClosed, Writing
  <2>1. /\ folder \in [Paths -> {"none", "empty", "torn", "whole"}]
        /\ opener \in [Paths -> 0 .. MaxRuns] /\ manifest \in [Paths -> 0 .. MaxRuns]
        /\ runs[r].at \in Paths /\ Paths = 1 .. Len(Corpus) /\ Len(Corpus) \in Nat
    BY RunTypes DEF TypeOK, Run
  (* A step of r that opens no file and lists no batch.                    *)
  <2>2. ASSUME opener'[b] = opener[b], manifest'[b] = manifest[b],
               folder[b] = "whole" => folder'[b] = "whole",
               HasClosed(r, b)' => HasClosed(r, b) \/ (opener[b] = r => folder'[b] = "whole"),
               Writing(r)' => Writing(r)
        PROVE  Good(b)'
    <3>1. \A q \in DOMAIN runs : manifest'[b] = q => ~ Writing(q)'
      BY <1>0, <2>0, <2>2
    <3>2. \A q \in DOMAIN runs : opener'[b] = q /\ HasClosed(q, b)' => folder'[b] = "whole"
      BY <1>0, <2>0, <2>2
    <3>3. QED
      BY <1>0, <2>0, <2>2, <3>1, <3>2
  (* A step of r that opens, or removes, the file it writes.               *)
  <2>3. ASSUME opener'[b] = r, manifest'[b] = manifest[b], Writing(r), ~ HasClosed(r, b)',
               manifest[b] = r => FALSE
        PROVE  Good(b)'
    <3>1. \A q \in DOMAIN runs : manifest'[b] = q => ~ Writing(q)'
      BY <1>0, <2>0, <2>3
    <3>2. QED
      BY <1>0, <2>0, <2>3, <3>1
  <2>4. CASE MakeFolder(r)
    <3>1. folder[b] = "whole" => folder'[b] = "whole"
      BY <2>1, <2>4 DEF MakeFolder
    <3>2. opener' = opener /\ manifest' = manifest
      BY <2>4 DEF MakeFolder
    <3>3. (HasClosed(r, b)' <=> HasClosed(r, b)) /\ (Writing(r)' <=> Writing(r))
      BY <2>4, MakeFolderTurns DEF Turned, MakeFolder, At, HasClosed, Writing
    <3>4. QED
      BY <2>2, <3>1, <3>2, <3>3
  <2>5. CASE OpenParquet(r)
    <3>1. /\ runs[r].pc = "opening" /\ manifest' = manifest
          /\ runs'[r].pc = "writing" /\ runs'[r].at = runs[r].at
      BY <2>5, OpenParquetTurns DEF Turned, OpenParquet, At
    <3>2. CASE b = runs[r].at
      <4>1. opener'[b] = r
        BY <2>1, <2>5, <3>2 DEF OpenParquet
      <4>2. Writing(r) /\ ~ HasClosed(r, b)'
        BY <2>1, <3>1, <3>2 DEF Writing, HasClosed
      <4>3. QED
        BY <1>0, <2>3, <3>1, <4>1, <4>2
    <3>3. CASE b # runs[r].at
      <4>1. opener'[b] = opener[b] /\ folder'[b] = folder[b]
        BY <2>1, <2>5, <3>3 DEF OpenParquet
      <4>2. (HasClosed(r, b)' <=> HasClosed(r, b)) /\ (Writing(r)' <=> Writing(r))
        BY <3>1 DEF HasClosed, Writing
      <4>3. QED
        BY <2>2, <3>1, <4>1, <4>2
    <3>4. QED
      BY <3>2, <3>3
  <2>6. CASE CloseParquet(r)
    <3>1. /\ runs[r].pc = "writing" /\ opener' = opener /\ manifest' = manifest
          /\ folder' = folder \/ folder' = [folder EXCEPT ![runs[r].at] = "whole"]
          /\ opener[runs[r].at] = r => folder' = [folder EXCEPT ![runs[r].at] = "whole"]
      BY <2>6 DEF CloseParquet, At
    <3>2. folder[b] = "whole" => folder'[b] = "whole"
      BY <2>1, <3>1
    <3>3. HasClosed(r, b)' => HasClosed(r, b) \/ b = runs[r].at
      <4>1. NextFolder(r)
        BY <2>6 DEF CloseParquet
      <4>2. \/ runs'[r].pc = "generate" /\ runs'[r].at = runs[r].at + 1
            \/ runs'[r].pc = "publish" /\ runs[r].at = Len(Corpus)
        BY <4>1, NextFolderTurns DEF Turned
      <4>3. QED
        BY <2>1, <3>1, <4>2 DEF HasClosed
    <3>4. b = runs[r].at /\ opener[b] = r => folder'[b] = "whole"
      BY <2>1, <3>1
    <3>5. Writing(r)
      BY <3>1 DEF Writing
    <3>6. QED
      BY <2>2, <3>1, <3>2, <3>3, <3>4, <3>5
  <2>7. CASE PublishManifest(r)
    <3>1. /\ runs[r].pc = "publish" /\ UNCHANGED <<folder, opener>> /\ manifest'[b] = r
          /\ ~ Writing(r)' /\ ~ HasClosed(r, b)' /\ HasClosed(r, b)
      BY <2>7, PublishManifestTurns DEF Turned, PublishManifest, At, HasClosed, Writing
    <3>2. QED
      BY <1>0, <2>0, <3>1
  <2>8. CASE Die(r)
    <3>1. ~ Writing(r)' /\ ~ HasClosed(r, b)' /\ manifest' = manifest
      BY <2>8, DieTurns DEF Turned, Die, HasClosed, Writing
    <3>2. CASE opener'[b] = opener[b] /\ folder'[b] = folder[b]
      BY <2>2, <3>1, <3>2
    <3>3. CASE ~ (opener'[b] = opener[b] /\ folder'[b] = folder[b])
      <4>1. opener'[b] = r /\ Writing(r)
        BY <2>1, <2>8, <3>3 DEF Die, Writing
      <4>2. QED
        BY <1>0, <2>3, <3>1, <4>1
    <3>4. QED
      BY <3>2, <3>3
  <2>9. CASE Load(r) \/ ReadBatch(r) \/ EndBatch(r) \/ Upsert(r) \/ WritePickle(r)
             \/ \E d \in runs[r].deletes : DeleteDocument(r, d)
    <3>1. UNCHANGED <<folder, opener, manifest>>
      BY <2>9 DEF Load, ReadBatch, EndBatch, Upsert, WritePickle, DeleteDocument
    <3>2. runs'[r].pc \in {"read", "apply", "saving", "done", "dead"}
      BY <2>9, LoadTurns, ReadBatchTurns, EndBatchTurns, UpsertTurns, WritePickleTurns,
         DeleteDocumentTurns DEF Turned
    <3>3. ~ Writing(r)' /\ ~ HasClosed(r, b)'
      BY <3>2 DEF Writing, HasClosed
    <3>4. QED
      BY <2>2, <3>1, <3>3
  <2>10. QED
    BY <1>2, <2>4, <2>5, <2>6, <2>7, <2>8, <2>9 DEF Step
<1>3. QED
  BY <1>1, <1>2 DEF Next

(* Only the lone command itself moves, until another one begins.           *)
LEMMA LoneSteps ==
    ASSUME TypeOK, AloneIsAlone, Next, NEW r \in DOMAIN runs', LastAlone(r)'
    PROVE  \/ /\ r \notin DOMAIN runs
              /\ \/ runs'[r].cmd = "seed" /\ runs'[r].pc = "generate" /\ runs'[r].at = 1
                 \/ runs'[r].cmd = "ingest" /\ runs'[r].pc = "load"
           \/ /\ r \in DOMAIN runs /\ LastAlone(r)
              /\ Step(r) \/ Die(r)
              /\ runs'[r].cmd = runs[r].cmd
<1>1. CASE Seed \/ Ingest
  <2>1. r = Len(runs) + 1
    BY <1>1, Begun DEF LastAlone
  <2>2. QED
    BY <1>1, <2>1, Begun
<1>2. ASSUME NEW q \in DOMAIN runs, Step(q) \/ Die(q)
      PROVE  /\ r \in DOMAIN runs /\ LastAlone(r)
             /\ Step(r) \/ Die(r)
             /\ runs'[r].cmd = runs[r].cmd
  <2>1. r \in DOMAIN runs /\ LastAlone(r) /\ q \in Live
    BY <1>2, Framed
  <2>2. q = r
    BY <2>1 DEF AloneIsAlone
  <2>3. QED
    BY <1>2, <2>1, <2>2, Framed
<1>3. QED
  BY <1>1, <1>2 DEF Next

(* The lone seed finds what it has written as it left it.                  *)
LEMMA NextFolders ==
    ASSUME TypeOK, AloneIsAlone, LoneFolders, Next
    PROVE  LoneFolders'
<1> DEFINE Good(r) ==
      /\ runs[r].pc \in {"generate", "opening", "writing"} =>
           \A b \in Paths : b < runs[r].at => folder[b] = "whole"
      /\ runs[r].pc = "writing" => opener[runs[r].at] = r
      /\ runs[r].pc \in {"publish", "load", "read", "apply", "saving"} =>
           \A b \in Paths : folder[b] = "whole"
      /\ runs[r].pc = "load" => runs[r].at = 1
<1> SUFFICES ASSUME NEW r \in DOMAIN runs', LastAlone(r)', runs'[r].cmd = "seed"
             PROVE  Good(r)'
  BY DEF LoneFolders
<1>0. Paths = 1 .. Len(Corpus) /\ Len(Corpus) \in Nat
  BY RunTypes
<1>1. CASE r \notin DOMAIN runs
  <2>1. runs'[r].pc = "generate" /\ runs'[r].at = 1
    BY <1>1, LoneSteps
  <2>2. QED
    BY <1>0, <2>1
<1>2. CASE r \in DOMAIN runs
  <2>0. /\ Step(r) \/ Die(r)
        /\ Good(r)
    BY <1>2, LoneSteps DEF LoneFolders
  <2>1. /\ folder \in [Paths -> {"none", "empty", "torn", "whole"}]
        /\ opener \in [Paths -> 0 .. MaxRuns]
        /\ runs[r].at \in Paths
    BY <1>2, RunTypes DEF TypeOK, Run
  <2>2. CASE MakeFolder(r)
    <3>1. /\ runs[r].pc = "generate" /\ runs'[r].pc = "opening" /\ runs'[r].at = runs[r].at
      BY <1>2, <2>2, MakeFolderTurns DEF Turned, MakeFolder, At
    <3>2. \A b \in Paths : folder[b] = "whole" => folder'[b] = "whole"
      BY <2>1, <2>2 DEF MakeFolder
    <3>3. QED
      BY <2>0, <3>1, <3>2
  <2>3. CASE OpenParquet(r)
    <3>1. /\ runs[r].pc = "opening" /\ runs'[r].pc = "writing" /\ runs'[r].at = runs[r].at
      BY <1>2, <2>3, OpenParquetTurns DEF Turned, OpenParquet, At
    <3>2. /\ \A b \in Paths : b < runs[r].at => folder'[b] = folder[b]
          /\ opener'[runs[r].at] = r
      BY <1>0, <2>1, <2>3 DEF OpenParquet
    <3>3. QED
      BY <2>0, <3>1, <3>2
  <2>4. CASE CloseParquet(r)
    <3>1. runs[r].pc = "writing" /\ opener[runs[r].at] = r /\ NextFolder(r)
      BY <2>0, <2>4 DEF CloseParquet, At
    <3>2. folder' = [folder EXCEPT ![runs[r].at] = "whole"]
      BY <2>4, <3>1 DEF CloseParquet
    <3>3. \A b \in Paths : b <= runs[r].at => folder'[b] = "whole"
      BY <1>0, <2>0, <2>1, <3>1, <3>2
    <3>4. \/ runs'[r].pc = "generate" /\ runs'[r].at = runs[r].at + 1
          \/ runs'[r].pc = "publish" /\ runs[r].at = Len(Corpus)
      BY <1>2, <3>1, NextFolderTurns DEF Turned
    <3>5. QED
      BY <1>0, <2>1, <3>3, <3>4
  <2>5. CASE PublishManifest(r)
    <3>1. /\ runs[r].pc = "publish" /\ folder' = folder
          /\ runs'[r].pc = "load" /\ runs'[r].at = 1
      BY <1>2, <2>5, PublishManifestTurns DEF Turned, PublishManifest, At
    <3>2. QED
      BY <2>0, <3>1
  <2>6. CASE Die(r)
    BY <1>2, <2>6, DieTurns DEF Turned
  <2>7. CASE Load(r) \/ ReadBatch(r) \/ EndBatch(r) \/ Upsert(r) \/ WritePickle(r)
             \/ \E d \in runs[r].deletes : DeleteDocument(r, d)
    <3>1. folder' = folder /\ runs[r].pc \in {"load", "read", "apply", "saving"}
      BY <2>7 DEF Load, ReadBatch, EndBatch, Upsert, WritePickle, DeleteDocument, At
    <3>2. runs'[r].pc \in {"read", "apply", "saving", "done", "dead"}
      BY <1>2, <2>7, LoadTurns, ReadBatchTurns, EndBatchTurns, UpsertTurns, WritePickleTurns,
         DeleteDocumentTurns DEF Turned
    <3>3. QED
      BY <2>0, <3>1, <3>2
  <2>8. QED
    BY <2>0, <2>2, <2>3, <2>4, <2>5, <2>6, <2>7 DEF Step
<1>3. QED
  BY <1>1, <1>2

(* A lone run's dictionary is what its calls have made of the file.        *)
LEMMA NextMemory ==
    ASSUME TypeOK, AloneIsAlone, LoneMemory, Next
    PROVE  LoneMemory'
<1> DEFINE Good(r) ==
      /\ runs[r].pc \in {"read", "apply", "saving"} => runs[r].mem = due
      /\ runs[r].pc \in {"read", "apply", "done"} => Loaded = due
<1> SUFFICES ASSUME NEW r \in DOMAIN runs', LastAlone(r)'
             PROVE  Good(r)'
  BY DEF LoneMemory
<1>1. CASE r \notin DOMAIN runs
  BY <1>1, LoneSteps
<1>2. CASE r \in DOMAIN runs
  <2>0. /\ Step(r) \/ Die(r)
        /\ Good(r)
    BY <1>2, LoneSteps DEF LoneMemory
  <2>1. CASE MakeFolder(r) \/ OpenParquet(r) \/ CloseParquet(r) \/ PublishManifest(r) \/ Die(r)
    <3>1. runs'[r].pc \notin {"read", "apply", "saving", "done"}
      BY <1>2, <2>1, MakeFolderTurns, OpenParquetTurns, NextFolderTurns, PublishManifestTurns,
         DieTurns DEF Turned, CloseParquet
    <3>2. QED
      BY <3>1
  <2>2. CASE Load(r)
    <3>1. runs'[r].pc = "read" /\ runs'[r].mem = Loaded /\ due' = Loaded /\ file' = file
      BY <1>2, <2>2, LoadTurns DEF Turned, Load
    <3>2. QED
      BY <3>1 DEF Loaded
  <2>3. CASE ReadBatch(r)
    <3>1. runs[r].pc = "read" /\ due' = due /\ file' = file
      BY <2>3 DEF ReadBatch, At
    <3>2. runs'[r].pc = "dead" \/ (runs'[r].pc = "apply" /\ runs'[r].mem = runs[r].mem)
      BY <1>2, <2>3, ReadBatchTurns DEF Turned
    <3>3. QED
      BY <2>0, <3>1, <3>2 DEF Loaded
  <2>4. CASE EndBatch(r)
    <3>1. runs[r].pc = "apply" /\ due' = due /\ file' = file
      BY <2>4 DEF EndBatch, At
    <3>2. runs'[r].pc = "done" \/ (runs'[r].pc = "read" /\ runs'[r].mem = runs[r].mem)
      BY <1>2, <2>4, EndBatchTurns DEF Turned
    <3>3. QED
      BY <2>0, <3>1, <3>2 DEF Loaded
  <2>5. CASE Upsert(r)
    <3>1. /\ runs[r].pc = "apply" /\ due' = due \cup runs[r].chunks
          /\ runs'[r].pc = "saving" /\ runs'[r].mem = runs[r].mem \cup runs[r].chunks
      BY <1>2, <2>5, UpsertTurns DEF Turned, Upsert, At
    <3>2. QED
      BY <2>0, <3>1
  <2>6. ASSUME NEW d \in runs[r].deletes, DeleteDocument(r, d)
        PROVE  Good(r)'
    <3>1. /\ runs[r].pc = "apply" /\ due' = WithoutDoc(due, d)
          /\ runs'[r].pc = "saving" /\ runs'[r].mem = WithoutDoc(runs[r].mem, d)
      BY <1>2, <2>6, DeleteDocumentTurns DEF Turned, DeleteDocument, At
    <3>2. QED
      BY <2>0, <3>1
  <2>7. CASE WritePickle(r)
    <3>1. /\ runs[r].pc = "saving" /\ due' = due /\ file' = {runs[r].mem}
          /\ runs'[r].pc = "apply" /\ runs'[r].mem = runs[r].mem
      BY <1>2, <2>7, WritePickleTurns DEF Turned, WritePickle, At
    <3>2. UNION {runs[r].mem} = runs[r].mem
      OBVIOUS
    <3>3. QED
      BY <2>0, <3>1, <3>2 DEF Loaded
  <2>8. QED
    BY <2>0, <2>1, <2>2, <2>3, <2>4, <2>5, <2>6, <2>7 DEF Step
<1>3. QED
  BY <1>1, <1>2

(* What the batches call for, one batch after the other.                   *)
LEMMA NothingBefore ==
    ASSUME NEW c
    PROVE  ~ OwedBefore(c, 1) /\ ~ RemovedBefore(c, 1)
<1>1. Paths \subseteq Nat \ {0}
  BY CliAssumption DEF Paths
<1>2. \A b \in Paths : ~ (b < 1)
  BY <1>1
<1>3. QED
  BY <1>2 DEF OwedBefore, RemovedBefore

LEMMA OwedNext ==
    ASSUME NEW c, NEW k \in Paths, OwedBefore(c, k + 1)
    PROVE  c \in Corpus[k].chunks \/ (OwedBefore(c, k) /\ DocOf[c] \notin Corpus[k].deletes)
<1>1. Paths \subseteq Nat
  BY CliAssumption DEF Paths
<1>2. PICK b \in Paths : /\ b < k + 1 /\ c \in Corpus[b].chunks
                         /\ \A a \in Paths : b < a /\ a < k + 1 => DocOf[c] \notin Corpus[a].deletes
  BY DEF OwedBefore
<1>3. CASE b = k
  BY <1>2, <1>3
<1>4. CASE b # k
  <2>1. b < k /\ \A a \in Paths : a < k => a < k + 1
    BY <1>1, <1>2, <1>4
  <2>2. OwedBefore(c, k)
    BY <1>2, <2>1 DEF OwedBefore
  <2>3. DocOf[c] \notin Corpus[k].deletes
    BY <1>1, <1>2, <2>1
  <2>4. QED
    BY <2>2, <2>3
<1>5. QED
  BY <1>3, <1>4

LEMMA RemovedNext ==
    ASSUME NEW c, NEW k \in Paths, RemovedBefore(c, k + 1)
    PROVE  /\ c \notin Corpus[k].chunks
           /\ DocOf[c] \in Corpus[k].deletes \/ RemovedBefore(c, k)
<1>1. Paths \subseteq Nat
  BY CliAssumption DEF Paths
<1>2. PICK b \in Paths : /\ b < k + 1 /\ DocOf[c] \in Corpus[b].deletes
                         /\ \A a \in Paths : b <= a /\ a < k + 1 => c \notin Corpus[a].chunks
  BY DEF RemovedBefore
<1>3. b <= k /\ \A a \in Paths : a < k => a < k + 1
  BY <1>1, <1>2
<1>4. c \notin Corpus[k].chunks
  BY <1>1, <1>2, <1>3
<1>5. CASE b = k
  BY <1>2, <1>4, <1>5
<1>6. CASE b # k
  <2>1. b < k
    BY <1>1, <1>3, <1>6
  <2>2. RemovedBefore(c, k)
    BY <1>2, <1>3, <2>1 DEF RemovedBefore
  <2>3. QED
    BY <1>4, <2>2
<1>7. QED
  BY <1>5, <1>6

LEMMA WholeCorpus ==
    ASSUME NEW c
    PROVE  /\ Owed(c) => OwedBefore(c, Len(Corpus) + 1)
           /\ Removed(c) => RemovedBefore(c, Len(Corpus) + 1)
<1>1. Paths = 1 .. Len(Corpus) /\ Len(Corpus) \in Nat
  BY CliAssumption DEF Paths
<1>2. \A b \in Paths : b < Len(Corpus) + 1
  BY <1>1
<1>3. \A a, b \in Paths : (b < a => a > b) /\ (b <= a => a >= b)
  BY <1>1
<1>4. QED
  BY <1>2, <1>3 DEF Owed, Removed, OwedBefore, RemovedBefore

(* The lone seed has applied the corpus as far as it has got.              *)
LEMMA NextCorpus ==
    ASSUME TypeOK, PendingWhileApplying, AloneIsAlone, LoneFolders, LoneCorpus, Next
    PROVE  LoneCorpus'
<1> DEFINE Applying(r) ==
      \A c \in Chunks :
        /\ OwedBefore(c, runs[r].at) /\ DocOf[c] \notin AppliedDeletes(r) => c \in due
        /\ c \in AppliedChunks(r) => c \in due
        /\ RemovedBefore(c, runs[r].at) \/ DocOf[c] \in AppliedDeletes(r) =>
             c \in AppliedChunks(r) \/ c \notin due
           Healed == \A c \in Chunks : (Owed(c) => c \in due) /\ (Removed(c) => c \notin due)
           Good(r) == /\ runs[r].pc \in {"read", "apply", "saving"} => Applying(r)
                      /\ runs[r].pc = "done" => Healed
<1> SUFFICES ASSUME NEW r \in DOMAIN runs', LastAlone(r)', runs'[r].cmd = "seed"
             PROVE  Good(r)'
  BY DEF LoneCorpus
<1>1. CASE r \notin DOMAIN runs
  BY <1>1, LoneSteps
<1>2. CASE r \in DOMAIN runs
  <2>0. /\ Step(r) \/ Die(r)
        /\ LastAlone(r) /\ runs[r].cmd = "seed"
        /\ Good(r)
    BY <1>2, LoneSteps DEF LoneCorpus
  <2>1. /\ runs[r].at \in Paths /\ runs[r].deletes \subseteq Corpus[runs[r].at].deletes
        /\ runs[r].chunks \subseteq Corpus[runs[r].at].chunks
        /\ runs[r].chunks \subseteq Chunks
        /\ \A c \in Corpus[runs[r].at].chunks : DocOf[c] \notin Corpus[runs[r].at].deletes
    BY <1>2, RunTypes, BatchTypes DEF TypeOK, Run
  <2>2. CASE MakeFolder(r) \/ OpenParquet(r) \/ CloseParquet(r) \/ PublishManifest(r) \/ Die(r)
    <3>1. runs'[r].pc \notin {"read", "apply", "saving", "done"}
      BY <1>2, <2>2, MakeFolderTurns, OpenParquetTurns, NextFolderTurns, PublishManifestTurns,
         DieTurns DEF Turned, CloseParquet
    <3>2. QED
      BY <3>1
  <2>3. CASE Load(r)
    <3>1. runs'[r].pc = "read" /\ runs'[r].at = 1
      BY <1>2, <2>0, <2>3, LoadTurns DEF Turned, Load, At, LoneFolders
    <3>2. AppliedDeletes(r)' = {} /\ AppliedChunks(r)' = {}
      BY <3>1 DEF AppliedDeletes, AppliedChunks
    <3>3. QED
      BY <3>1, <3>2, NothingBefore
  <2>4. CASE ReadBatch(r)
    <3>1. runs[r].pc = "read" /\ due' = due /\ folder[runs[r].at] = "whole"
      BY <1>2, <2>0, <2>1, <2>4 DEF ReadBatch, At, LoneFolders
    <3>2. /\ runs'[r].pc = "apply" /\ runs'[r].at = runs[r].at
          /\ runs'[r].deletes = Corpus[runs[r].at].deletes
          /\ runs'[r].chunks = Corpus[runs[r].at].chunks
      BY <1>2, <2>4, <3>1, ReadBatchTurns DEF Turned
    <3>3. /\ AppliedDeletes(r)' = AppliedDeletes(r) /\ AppliedChunks(r)' = AppliedChunks(r)
      BY <3>1, <3>2 DEF AppliedDeletes, AppliedChunks
    <3>4. QED
      BY <2>0, <3>1, <3>2, <3>3
  <2>5. ASSUME NEW d \in runs[r].deletes, DeleteDocument(r, d)
        PROVE  Good(r)'
    <3>1. /\ runs[r].pc = "apply" /\ due' = WithoutDoc(due, d)
          /\ runs'[r].pc = "saving" /\ runs'[r].at = runs[r].at
          /\ runs'[r].deletes = runs[r].deletes \ {d} /\ runs'[r].chunks = runs[r].chunks
      BY <1>2, <2>5, DeleteDocumentTurns DEF Turned, DeleteDocument, At
    <3>2. /\ AppliedDeletes(r)' = AppliedDeletes(r) \cup {d}
          /\ AppliedChunks(r)' = AppliedChunks(r)
      BY <2>1, <3>1 DEF AppliedDeletes, AppliedChunks
    <3>3. \A c \in AppliedChunks(r) : DocOf[c] # d
      BY <2>1 DEF AppliedChunks
    <3>4. \A c \in Chunks : c \in due' <=> c \in due /\ DocOf[c] # d
      BY <3>1 DEF WithoutDoc
    <3>5. Applying(r)
      BY <2>0, <3>1
    <3>6. QED
      BY <3>1, <3>2, <3>3, <3>4, <3>5
  <2>6. CASE Upsert(r)
    <3>1. /\ runs[r].pc = "apply" /\ due' = due \cup runs[r].chunks
          /\ runs'[r].pc = "saving" /\ runs'[r].at = runs[r].at
          /\ runs'[r].deletes = runs[r].deletes /\ runs'[r].chunks = {}
      BY <1>2, <2>6, UpsertTurns DEF Turned, Upsert, At
    <3>2. /\ AppliedDeletes(r)' = AppliedDeletes(r)
          /\ AppliedChunks(r)' = AppliedChunks(r) \cup runs[r].chunks
      BY <2>1, <3>1 DEF AppliedDeletes, AppliedChunks
    <3>3. Applying(r)
      BY <2>0, <3>1
    <3>4. QED
      BY <3>1, <3>2, <3>3
  <2>7. CASE WritePickle(r)
    <3>1. /\ runs[r].pc = "saving" /\ due' = due
          /\ runs'[r].pc = "apply" /\ runs'[r].at = runs[r].at
          /\ runs'[r].deletes = runs[r].deletes /\ runs'[r].chunks = runs[r].chunks
      BY <1>2, <2>7, WritePickleTurns DEF Turned, WritePickle, At
    <3>2. /\ AppliedDeletes(r)' = AppliedDeletes(r) /\ AppliedChunks(r)' = AppliedChunks(r)
      BY <3>1 DEF AppliedDeletes, AppliedChunks
    <3>3. QED
      BY <2>0, <3>1, <3>2
  <2>8. CASE EndBatch(r)
    <3>1. /\ runs[r].pc = "apply" /\ runs[r].deletes = {} /\ runs[r].chunks = {} /\ due' = due
      BY <2>8 DEF EndBatch, At
    <3>2. /\ AppliedDeletes(r) = Corpus[runs[r].at].deletes
          /\ AppliedChunks(r) = Corpus[runs[r].at].chunks
          /\ Applying(r)
      BY <2>0, <3>1 DEF AppliedDeletes, AppliedChunks
    <3>3. ASSUME NEW c \in Chunks
          PROVE  /\ OwedBefore(c, runs[r].at + 1) => c \in due
                 /\ RemovedBefore(c, runs[r].at + 1) => c \notin due
      <4>1. OwedBefore(c, runs[r].at + 1) => c \in due
        BY <2>1, <3>2, OwedNext
      <4>2. RemovedBefore(c, runs[r].at + 1) => c \notin due
        BY <2>1, <3>2, RemovedNext
      <4>3. QED
        BY <4>1, <4>2
    <3>4. CASE runs'[r].pc = "read" /\ runs'[r].at = runs[r].at + 1
      <4>1. AppliedDeletes(r)' = {} /\ AppliedChunks(r)' = {}
        BY <3>4 DEF AppliedDeletes, AppliedChunks
      <4>2. QED
        BY <3>1, <3>3, <3>4, <4>1
    <3>5. CASE runs'[r].pc = "done" /\ runs[r].at = Len(Corpus)
      BY <3>1, <3>3, <3>5, WholeCorpus
    <3>6. QED
      BY <1>2, <2>0, <2>8, <3>4, <3>5, EndBatchTurns DEF Turned
  <2>9. QED
    BY <2>0, <2>2, <2>3, <2>4, <2>5, <2>6, <2>7, <2>8 DEF Step
<1>3. QED
  BY <1>1, <1>2

LEMMA InvariantHolds == Spec => []Inv
<1>1. Inv /\ [Next]_vars => Inv'
  <2>1. CASE Next
    BY <2>1, NextTypes, NextClosed, NextAlone, NextFolders, NextMemory, NextCorpus DEF Inv
  <2>2. CASE UNCHANGED vars
    <3>1. UNCHANGED <<folder, opener, manifest, file, runs, due>>
      BY <2>2 DEF vars
    <3>2. TypeOK' = TypeOK /\ PendingWhileApplying' = PendingWhileApplying
      BY <3>1 DEF TypeOK, PendingWhileApplying
    <3>3. ClosedIsWhole' = ClosedIsWhole /\ CommittedIsWhole' = CommittedIsWhole
      BY <3>1 DEF ClosedIsWhole, HasClosed, Writing, CommittedIsWhole
    <3>4. AloneIsAlone' = AloneIsAlone /\ LoneFolders' = LoneFolders
      BY <3>1 DEF AloneIsAlone, LastAlone, Live, LoneFolders
    <3>5. LoneMemory' = LoneMemory /\ LoneCorpus' = LoneCorpus
      BY <3>1 DEF LastAlone, LoneMemory, Loaded, LoneCorpus, AppliedDeletes, AppliedChunks
    <3>6. QED
      BY <3>2, <3>3, <3>4, <3>5 DEF Inv
  <2>3. QED
    BY <2>1, <2>2
<1>2. QED
  BY <1>1, InitInv, PTL DEF Spec

-----------------------------------------------------------------------------
(* What commands on one disk keep true, whatever dies or overlaps.         *)

(* The variables stay in their types, and what a run still has to apply is *)
(* of the batch it works on.                                               *)
THEOREM RunsTypeCorrect == Spec => []TypeOK
<1>1. Inv => TypeOK
  BY DEF Inv
<1>2. QED
  BY <1>1, InvariantHolds, PTL

(* The manifest is written after the files: a listed batch that is not     *)
(* whole has been opened by another run since.                             *)
THEOREM ManifestIsHonest == Spec => []CommittedIsWhole
<1>1. Inv => CommittedIsWhole
  BY DEF Inv
<1>2. QED
  BY <1>1, InvariantHolds, PTL

(* A command that runs alone loses nothing of what it found in the file.   *)
THEOREM LoneRunLosesNothing == Spec => []LoneWriterKeepsAll
<1>1. Inv => LoneWriterKeepsAll
  BY DEF Inv, LoneMemory, LoneWriterKeepsAll
<1>2. QED
  BY <1>1, InvariantHolds, PTL

(* Running seed again, alone, repairs what dead or overlapping runs left:  *)
(* it reads whole batches only, and ends with the corpus in the file and   *)
(* nothing the corpus deletes.                                             *)
THEOREM SeedRepairs == Spec => []SeedHeals
<1>1. Inv => SeedHeals
  <2> SUFFICES ASSUME Inv, NEW r \in DOMAIN runs, LastAlone(r), runs[r].cmd = "seed"
               PROVE  /\ runs[r].pc = "read" => folder[runs[r].at] = "whole"
                      /\ runs[r].pc = "done" =>
                           \A c \in Chunks : /\ Owed(c) => c \in Loaded
                                             /\ Removed(c) => c \notin Loaded
    BY DEF SeedHeals
  <2>1. runs[r].at \in Paths
    BY RunTypes DEF Inv, Run
  <2>2. runs[r].pc = "read" => folder[runs[r].at] = "whole"
    BY <2>1 DEF Inv, LoneFolders
  <2>3. runs[r].pc = "done" => Loaded = due
    BY DEF Inv, LoneMemory
  <2>4. QED
    BY <2>2, <2>3 DEF Inv, LoneCorpus
<1>2. QED
  BY <1>1, InvariantHolds, PTL

=============================================================================
