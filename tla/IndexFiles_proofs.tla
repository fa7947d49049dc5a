-------------------------- MODULE IndexFiles_proofs --------------------------
(***************************************************************************)
(* What the marker and a loaded index stand for, for any number of builds, *)
(* kills and write errors.                                                 *)
(***************************************************************************)
EXTENDS IndexFiles, TLAPS

\* No file is of a build to come, and nothing was built into an older index yet.
BuildsInv == /\ \A f \in File : disk[f].build <= builds /\ memory[f].build <= builds
             /\ builds = 0 => pc # "saving" /\ damaged = {}

\* What a build has written so far, but for the files it failed to write.
Written(f, n) == at > n /\ f \notin damaged

SaveInv ==
  pc = "saving" =>
    /\ marker => superseded
    /\ Written("meta", 1) => disk["meta"].build = builds
    /\ Written("vecs", 2) => disk["vecs"] = Whole(builds)
    /\ Written("labels", 3) => disk["labels"] = Whole(builds)
    /\ Written("tables", 4) => disk["tables"] = Whole(builds)
    /\ Written("vector_attr_graph", 5) => disk["vector_attr_graph"] = Whole(builds)
    /\ Written("bitmaps", 6) => disk["bitmaps"] = Whole(builds)
    /\ Written("group_attr", 7) => disk["group_attr"] = Whole(builds)
    /\ Written("rabitq_side", 8) /\ enabled[builds] => disk["rabitq_side"] = Whole(builds)
    /\ writing => at \in DOMAIN SaveOrder /\ disk[SaveOrder[at]] \in Cut(builds)

\* The two files whose writing is tested, in part: the attribute graph is of
\* this build, and group bitmaps that are of this build are not cut.
CheckedInv ==
  pc = "saving" =>
    /\ at > 5 => disk["vector_attr_graph"] \in {Whole(builds)} \cup Cut(builds)
    /\ at < 7 \/ (at = 7 /\ ~writing) => disk["group_attr"].build < builds
    /\ at > 7 => disk["group_attr"] \notin Cut(builds)

\* A side index that the marked build has written in full is on the disk.
SideInv ==
  Marked /\ enabled[builds] /\ "rabitq_side" \notin damaged =>
    disk["rabitq_side"] = Whole(builds)

\* What a search on a marked index has read; only meta can have been cut since.
Loading == pc \in {"loaded", "rewriting", "ready"}

LoadInv ==
  Loading /\ Marked =>
    /\ \A f \in Data \ damaged : memory[f] = Whole(builds)
    /\ "meta" \notin damaged => memory["meta"].build = builds
    /\ {"rabitq_side", "meta"} \cap damaged = {} =>
         memory["rabitq_side"] \in {Nothing, Whole(builds)}

IInv == /\ TypeOK
        /\ BuildsInv
        /\ SaveInv
        /\ CheckedInv
        /\ MarkerMeansWhole
        /\ SideInv
        /\ LoadInv
-----------------------------------------------------------------------------
\* The files and the order they are written in.

\* The files and the order in which save writes them, spelled out.
LEMMA Files ==
  /\ File = {"meta", "vecs", "labels", "tables", "vector_attr_graph", "bitmaps", "group_attr",
             "rabitq_side"}
  /\ Data = {"vecs", "labels", "tables", "vector_attr_graph", "bitmaps", "group_attr"}
  /\ DOMAIN SaveOrder = 1 .. 9 /\ Len(SaveOrder) = 9
  /\ SaveOrder[1] = "meta" /\ SaveOrder[2] = "vecs" /\ SaveOrder[3] = "labels"
  /\ SaveOrder[4] = "tables" /\ SaveOrder[5] = "vector_attr_graph" /\ SaveOrder[6] = "bitmaps"
  /\ SaveOrder[7] = "group_attr" /\ SaveOrder[8] = "rabitq_side" /\ SaveOrder[9] = "meta"
<1>1. DOMAIN SaveOrder = 1 .. 9 /\ Len(SaveOrder) = 9
  BY DEF SaveOrder
<1>2. /\ SaveOrder[1] = "meta" /\ SaveOrder[2] = "vecs" /\ SaveOrder[3] = "labels"
      /\ SaveOrder[4] = "tables" /\ SaveOrder[5] = "vector_attr_graph" /\ SaveOrder[6] = "bitmaps"
      /\ SaveOrder[7] = "group_attr" /\ SaveOrder[8] = "rabitq_side" /\ SaveOrder[9] = "meta"
  BY DEF SaveOrder
<1>3. File = {"meta", "vecs", "labels", "tables", "vector_attr_graph", "bitmaps", "group_attr",
              "rabitq_side"}
  <2>1. \A k \in 1 .. 9 : k = 1 \/ k = 2 \/ k = 3 \/ k = 4 \/ k = 5 \/ k = 6 \/ k = 7 \/ k = 8 \/ k = 9
    OBVIOUS
  <2>2. QED
    BY <1>1, <1>2, <2>1 DEF File
<1>4. QED
  BY <1>1, <1>2, <1>3 DEF Data

\* A position of save is that of one file, and a file has one (meta two).
LEMMA Positions ==
  ASSUME NEW f \in File, NEW k \in DOMAIN SaveOrder, SaveOrder[k] = f
  PROVE  /\ k \in 1 .. 9
         /\ f = "meta" => k = 1 \/ k = 9
         /\ f = "vecs" => k = 2
         /\ f = "labels" => k = 3
         /\ f = "tables" => k = 4
         /\ f = "vector_attr_graph" => k = 5
         /\ f = "bitmaps" => k = 6
         /\ f = "group_attr" => k = 7
         /\ f = "rabitq_side" => k = 8
BY Files

\* A missing file is a file state.
LEMMA NothingIsAFile == Nothing \in FileState
BY MaxBuildsAssumption DEF Nothing, FileState, Build

\* The invariant holds of a fresh directory and of an older index.
LEMMA InitIInv == Init => IInv
<1> SUFFICES ASSUME Init PROVE IInv
  OBVIOUS
<1> USE Files, MaxBuildsAssumption, StartLegacyAssumption DEF Init
<1>1. TypeOK
  <2>1. 0 \in Build
    BY DEF Build
  <2>2. Nothing \in FileState /\ Whole(0) \in FileState
    BY <2>1 DEF FileState, Nothing, Whole
  <2>3. legacyFiles \in [File -> FileState] /\ [f \in File |-> Nothing] \in [File -> FileState]
    BY <2>2 DEF legacyFiles
  <2>4. marker \in BOOLEAN /\ superseded \in BOOLEAN /\ writing \in BOOLEAN
    OBVIOUS
  <2>5. builds \in Build /\ enabled \in [Build -> BOOLEAN]
    BY <2>1
  <2>6. disk \in [File -> FileState] /\ memory \in [File -> FileState]
    BY <2>3
  <2>7. pc \in {"idle", "saving", "available", "loaded", "rewriting", "ready"}
    OBVIOUS
  <2>8. at \in 1 .. Len(SaveOrder) + 1 /\ damaged \in SUBSET File
    OBVIOUS
  <2>9. QED
    BY <2>4, <2>5, <2>6, <2>7, <2>8 DEF TypeOK
<1>2. BuildsInv
  BY DEF BuildsInv, legacyFiles, Nothing, Whole
<1>3. SaveInv /\ CheckedInv /\ LoadInv
  BY DEF SaveInv, CheckedInv, LoadInv, Loading
<1>4. MarkerMeansWhole
  <2>1. Marked => builds = 0 /\ disk = legacyFiles
    BY DEF Marked
  <2>2. Marked => \A f \in Data : disk[f] = Whole(builds) \/ (f = "group_attr" /\ disk[f] = Nothing)
    BY <2>1 DEF legacyFiles
  <2>3. QED
    BY <2>1, <2>2 DEF MarkerMeansWhole, legacyFiles, Whole, Nothing, Cut
<1>5. SideInv
  BY DEF SideInv, Marked, legacyFiles
<1>6. QED
  BY <1>1, <1>2, <1>3, <1>4, <1>5 DEF IInv

-----------------------------------------------------------------------------
\* The steps of a build keep the invariant.

\* While a build saves no marker stands for it, so nothing is said of one.
LEMMA NotMarked ==
  ASSUME IInv, pc = "saving", UNCHANGED <<marker, superseded>>
  PROVE  MarkerMeansWhole' /\ SideInv' /\ LoadInv'
<1>1. ~Marked'
  BY DEF IInv, SaveInv, Marked
<1>2. QED
  BY <1>1 DEF MarkerMeansWhole, SideInv, LoadInv

\* What is known where save stands: of the file that is due, and of those that
\* are not damaged.
LEMMA DueFacts ==
  ASSUME IInv, NEW f \in File, Due(f)
  PROVE  /\ at \in 1 .. 9 /\ builds \in Nat \ {0} /\ pc = "saving"
         /\ disk \in [File -> FileState] /\ damaged \in SUBSET File
         /\ \A g \in File : disk[g].build \in Nat /\ disk[g].build <= builds
         /\ f = "meta" => at = 1 \/ at = 9
         /\ f = "vecs" => at = 2
         /\ f = "labels" => at = 3
         /\ f = "tables" => at = 4
         /\ f = "vector_attr_graph" => at = 5
         /\ f = "bitmaps" => at = 6
         /\ f = "group_attr" => at = 7
         /\ f = "rabitq_side" => at = 8 /\ enabled[builds]
<1>1. at \in 1 .. 9 /\ SaveOrder[at] = f
  BY Files DEF Due
<1>2. builds \in Nat \ {0} /\ disk \in [File -> FileState] /\ damaged \in SUBSET File
  BY MaxBuildsAssumption DEF IInv, TypeOK, Build, BuildsInv, Due
<1>3. \A g \in File : disk[g].build \in Nat /\ disk[g].build <= builds
  BY <1>2, MaxBuildsAssumption DEF IInv, BuildsInv, FileState, Build
<1>4. QED
  BY <1>1, <1>2, <1>3, Positions, Files DEF Due

\* Truncating a file loses nothing that save has written before.
LEMMA OpenFileStep == ASSUME IInv, NEW f \in File, openFile(f) PROVE IInv'
<1> USE Files DEF openFile
<1>1. PICK part \in Cut(builds) : disk' = [disk EXCEPT ![f] = part]
  OBVIOUS
<1>2. part \in FileState /\ part.build = builds
  BY DEF IInv, TypeOK, Cut, FileState
<1>3. disk \in [File -> FileState]
  BY DEF IInv, TypeOK
<1>4. TypeOK'
  BY <1>1, <1>2 DEF IInv, TypeOK
<1>5. BuildsInv'
  BY <1>1, <1>2, <1>3, DueFacts DEF IInv, BuildsInv
<1>6. at \in 1 .. 9 /\ SaveOrder[at] = f /\ pc = "saving"
  BY DueFacts DEF Due
<1>7. SaveInv'
  <2>1. \A g \in File : g # f => disk'[g] = disk[g]
    BY <1>1, <1>3
  <2>2. (writing => at \in DOMAIN SaveOrder /\ disk[SaveOrder[at]] \in Cut(builds))'
    BY <1>1, <1>2, <1>3, <1>6
  <2>3. disk'[f].build = builds
    BY <1>1, <1>2, <1>3
  <2>4. QED
    BY <2>1, <2>2, <2>3, <1>6, DueFacts DEF IInv, SaveInv, Written
<1>8. CheckedInv'
  <2>1. \A g \in File : g # f => disk'[g] = disk[g]
    BY <1>1, <1>3
  <2>2. QED
    BY <2>1, <1>6, DueFacts DEF IInv, CheckedInv
<1>9. MarkerMeansWhole' /\ SideInv' /\ LoadInv'
  BY <1>6, NotMarked
<1>10. QED
  BY <1>4, <1>5, <1>7, <1>8, <1>9 DEF IInv

\* A file is complete: the next one in SaveOrder is due.
LEMMA CloseFileStep == ASSUME IInv, NEW f \in File, closeFile(f) PROVE IInv'
<1> USE Files DEF closeFile
<1>1. Whole(builds) \in FileState /\ Whole(builds).build = builds /\ Whole(builds) \notin Cut(builds)
  BY DEF IInv, TypeOK, Whole, Cut, FileState
<1>2. disk \in [File -> FileState] /\ disk'[f] = Whole(builds)
      /\ \A g \in File : g # f => disk'[g] = disk[g]
  BY DEF IInv, TypeOK
<1>3. at \in 1 .. 9 /\ pc = "saving" /\ at' = at + 1
  BY DueFacts
<1>4. TypeOK'
  <2>1. disk' \in [File -> FileState]
    BY <1>1, <1>2
  <2>2. at' \in 1 .. Len(SaveOrder) + 1
    BY <1>3
  <2>3. damaged' \in SUBSET File
    BY DEF IInv, TypeOK
  <2>4. QED
    BY <2>1, <2>2, <2>3 DEF IInv, TypeOK
<1>5. BuildsInv'
  BY <1>1, <1>2, DueFacts DEF IInv, BuildsInv
<1>6. SaveInv'
  <2>1. damaged' = damaged \ {f}
    OBVIOUS
  <2>2. QED
    BY <1>1, <1>2, <1>3, <2>1, DueFacts DEF IInv, SaveInv, Written
<1>7. CheckedInv'
  BY <1>1, <1>2, <1>3, DueFacts DEF IInv, CheckedInv
<1>8. MarkerMeansWhole' /\ SideInv' /\ LoadInv'
  BY <1>3, NotMarked
<1>9. QED
  BY <1>4, <1>5, <1>6, <1>7, <1>8 DEF IInv

\* A file that does not open is damaged, or save throws.
LEMMA FailOpenStep == ASSUME IInv, NEW f \in File, failOpen(f) PROVE IInv'
<1> USE Files DEF failOpen, goOnWithout, throwFromSave
<1>1. at \in 1 .. 9 /\ pc = "saving"
  BY DueFacts
<1>2. /\ pc' \in {"idle", "saving"} /\ ~writing'
      /\ pc' = "saving" => /\ f \in damaged' /\ damaged' = damaged \cup {f, IF f = "vecs" THEN "labels" ELSE f}
                           /\ f # "vector_attr_graph"
                           /\ at' = IF f = "vecs" THEN at + 2 ELSE at + 1
      /\ pc' = "idle" => at' = at /\ damaged' = damaged
  BY <1>1, Zenon DEF OpenChecked, SizeChecked
<1>3. TypeOK'
  <2>1. disk' \in [File -> FileState] /\ memory' \in [File -> FileState]
    BY DEF IInv, TypeOK
  <2>2. marker' \in BOOLEAN /\ superseded' \in BOOLEAN /\ writing' \in BOOLEAN
    BY DEF IInv, TypeOK
  <2>3. builds' \in Build /\ enabled' \in [Build -> BOOLEAN]
    BY DEF IInv, TypeOK
  <2>4. at' \in 1 .. Len(SaveOrder) + 1
    BY <1>1, <1>2, DueFacts
  <2>5. damaged' \in SUBSET File
    BY <1>2, DueFacts
  <2>6. QED
    BY <1>2, <2>1, <2>2, <2>3, <2>4, <2>5 DEF TypeOK
<1>4. BuildsInv'
  BY DueFacts DEF IInv, BuildsInv
<1>5. SaveInv'
  BY <1>1, <1>2, DueFacts DEF IInv, SaveInv, Written
<1>6. CheckedInv'
  BY <1>1, <1>2, DueFacts DEF IInv, CheckedInv, Cut
<1>7. MarkerMeansWhole' /\ SideInv' /\ LoadInv'
  BY <1>1, NotMarked
<1>8. QED
  BY <1>3, <1>4, <1>5, <1>6, <1>7 DEF IInv

\* A short file is damaged, or save throws.
LEMMA ShortFileStep == ASSUME IInv, NEW f \in File, shortFile(f) PROVE IInv'
<1> USE Files DEF shortFile, goOnWithout, throwFromSave
<1>1. at \in 1 .. 9 /\ pc = "saving" /\ SaveOrder[at] = f /\ disk[f] \in Cut(builds)
  BY DueFacts DEF IInv, SaveInv, Due
<1>2. /\ pc' \in {"idle", "saving"} /\ ~writing'
      /\ pc' = "saving" => damaged' = damaged \cup {f} /\ f # "group_attr" /\ at' = at + 1
      /\ pc' = "idle" => at' = at /\ damaged' = damaged
  BY <1>1, Zenon DEF SizeChecked
<1>3. TypeOK'
  <2>1. disk' \in [File -> FileState] /\ memory' \in [File -> FileState]
    BY DEF IInv, TypeOK
  <2>2. marker' \in BOOLEAN /\ superseded' \in BOOLEAN /\ writing' \in BOOLEAN
    BY DEF IInv, TypeOK
  <2>3. builds' \in Build /\ enabled' \in [Build -> BOOLEAN]
    BY DEF IInv, TypeOK
  <2>4. at' \in 1 .. Len(SaveOrder) + 1
    BY <1>1, <1>2
  <2>5. damaged' \in SUBSET File
    BY <1>2, DueFacts
  <2>6. QED
    BY <1>2, <2>1, <2>2, <2>3, <2>4, <2>5 DEF TypeOK
<1>4. BuildsInv'
  BY DueFacts DEF IInv, BuildsInv
<1>5. SaveInv'
  BY <1>1, <1>2, DueFacts DEF IInv, SaveInv, Written
<1>6. CheckedInv'
  BY <1>1, <1>2, DueFacts DEF IInv, CheckedInv, Cut
<1>7. MarkerMeansWhole' /\ SideInv' /\ LoadInv'
  BY <1>1, NotMarked
<1>8. QED
  BY <1>3, <1>4, <1>5, <1>6, <1>7 DEF IInv

\* A new build is younger than every file, and an older marker not its own.
LEMMA StartBuildStep == ASSUME IInv, startBuild PROVE IInv'
<1> USE Files, MaxBuildsAssumption DEF startBuild
<1>1. builds \in Nat /\ builds' = builds + 1 /\ disk' = disk /\ builds' \in Build
  BY DEF IInv, TypeOK, Build
<1>2. TypeOK'
  <2>1. disk' \in [File -> FileState] /\ memory' \in [File -> FileState]
    BY DEF IInv, TypeOK
  <2>2. marker' \in BOOLEAN /\ superseded' \in BOOLEAN /\ writing' \in BOOLEAN
    BY DEF IInv, TypeOK
  <2>3. builds' \in Build /\ enabled' \in [Build -> BOOLEAN]
    BY <1>1 DEF IInv, TypeOK
  <2>4. pc' \in {"idle", "saving", "available", "loaded", "rewriting", "ready"}
    OBVIOUS
  <2>5. at' \in 1 .. Len(SaveOrder) + 1 /\ damaged' \in SUBSET File
    OBVIOUS
  <2>6. QED
    BY <2>1, <2>2, <2>3, <2>4, <2>5 DEF TypeOK
<1>3. \A f \in File : /\ disk[f].build \in Nat /\ disk[f].build <= builds
                       /\ memory[f].build \in Nat /\ memory[f].build <= builds
  <2>1. disk \in [File -> FileState] /\ memory \in [File -> FileState]
    BY DEF IInv, TypeOK
  <2>2. \A f \in File : disk[f].build \in Nat /\ memory[f].build \in Nat
    BY <2>1 DEF FileState, Build
  <2>3. QED
    BY <2>2 DEF IInv, BuildsInv
<1>4. BuildsInv'
  BY <1>1, <1>3 DEF BuildsInv
<1>5. SaveInv'
  BY DEF SaveInv, Written
<1>6. CheckedInv'
  BY <1>1, <1>3 DEF CheckedInv
<1>7. ~Marked'
  BY DEF Marked
<1>8. MarkerMeansWhole' /\ SideInv' /\ LoadInv'
  BY <1>7 DEF MarkerMeansWhole, SideInv, LoadInv
<1>9. QED
  BY <1>2, <1>4, <1>5, <1>6, <1>8 DEF IInv

\* The marker is written after every file of SaveOrder.
LEMMA MarkBuiltStep == ASSUME IInv, markBuilt PROVE IInv'
<1> USE Files DEF markBuilt
<1>1. at = 10 /\ pc = "saving"
  BY DEF IInv, TypeOK
<1>2. TypeOK' /\ BuildsInv' /\ SaveInv' /\ CheckedInv' /\ LoadInv'
  BY DEF IInv, TypeOK, BuildsInv, SaveInv, CheckedInv, LoadInv, Loading
<1>3. \A f \in Data \ damaged : disk[f] = Whole(builds)
  BY <1>1 DEF IInv, SaveInv, Written
<1>4. /\ "meta" \notin damaged => disk["meta"].build = builds
      /\ enabled[builds] /\ "rabitq_side" \notin damaged => disk["rabitq_side"] = Whole(builds)
  BY <1>1 DEF IInv, SaveInv, Written
<1>5. /\ disk["vector_attr_graph"] \in {Whole(builds)} \cup Cut(builds)
      /\ disk["group_attr"] \notin Cut(builds)
  BY <1>1 DEF IInv, CheckedInv
<1>6. MarkerMeansWhole' /\ SideInv'
  BY <1>3, <1>4, <1>5 DEF MarkerMeansWhole, SideInv, Cut, Whole
<1>7. QED
  BY <1>2, <1>6 DEF IInv

\* The other steps of the script change no file.
LEMMA ScriptStep == ASSUME IInv, skipBuild \/ noSideIndex \/ killBuild PROVE IInv'
<1> USE Files DEF skipBuild, noSideIndex, killBuild
<1>1. TypeOK'
  <2>1. disk' \in [File -> FileState] /\ memory' \in [File -> FileState]
    BY DEF IInv, TypeOK
  <2>2. marker' \in BOOLEAN /\ superseded' \in BOOLEAN /\ writing' \in BOOLEAN
    BY DEF IInv, TypeOK
  <2>3. builds' \in Build /\ enabled' \in [Build -> BOOLEAN]
    BY DEF IInv, TypeOK
  <2>4. pc' \in {"idle", "saving", "available", "loaded", "rewriting", "ready"}
    BY DEF IInv, TypeOK
  <2>5. at' \in 1 .. Len(SaveOrder) + 1 /\ damaged' \in SUBSET File
    <3>1. at \in 1 .. 10 /\ damaged' = damaged /\ damaged \in SUBSET File
      BY DEF IInv, TypeOK
    <3>2. at' \in 1 .. 10
      BY <3>1
    <3>3. QED
      BY <3>1, <3>2
  <2>6. QED
    BY <2>1, <2>2, <2>3, <2>4, <2>5 DEF TypeOK
<1>2. BuildsInv'
  BY DEF IInv, BuildsInv
<1>3. SaveInv' /\ CheckedInv'
  <2>1. CASE noSideIndex
    <3>1. at = 8
      BY <2>1, Positions
    <3>2. QED
      BY <2>1, <3>1 DEF IInv, SaveInv, CheckedInv, Written
  <2>2. CASE skipBuild \/ killBuild
    BY <2>2 DEF SaveInv, CheckedInv
  <2>3. QED
    BY <2>1, <2>2
<1>4. MarkerMeansWhole' /\ SideInv'
  BY DEF IInv, MarkerMeansWhole, SideInv, Marked
<1>5. LoadInv'
  BY DEF IInv, LoadInv, SaveInv, Marked, Loading
<1>6. QED
  BY <1>1, <1>2, <1>3, <1>4, <1>5 DEF IInv

-----------------------------------------------------------------------------
\* The steps of a search keep the invariant.

\* A step outside save leaves what is said of the files behind the marker, if
\* of meta it keeps the build.
LEMMA FilesStay ==
  ASSUME IInv, pc # "saving", pc' # "saving", disk' \in [File -> FileState],
         UNCHANGED <<marker, superseded, builds, enabled, damaged>>,
         \A f \in File : f # "meta" => disk'[f] = disk[f],
         Marked /\ "meta" \notin damaged => disk'["meta"].build = builds
  PROVE  MarkerMeansWhole' /\ SideInv' /\ SaveInv' /\ CheckedInv'
<1> USE Files
<1>1. MarkerMeansWhole'
  BY DEF IInv, MarkerMeansWhole, Marked, Whole, Cut, Nothing
<1>2. SideInv'
  BY DEF IInv, SideInv, Marked, Whole
<1>3. SaveInv' /\ CheckedInv'
  BY DEF SaveInv, CheckedInv
<1>4. QED
  BY <1>1, <1>2, <1>3

\* Loading keeps the invariant: what was read is what the files were.
LEMMA LoadStep == ASSUME IInv, load PROVE IInv'
<1> USE Files DEF load
<1>1. PICK found \in GroupBitmaps :
        memory' = [disk EXCEPT !["group_attr"] = found, !["rabitq_side"] = Nothing]
  OBVIOUS
<1>2. found \in {Nothing, disk["group_attr"], disk["tables"]}
  BY DEF GroupBitmaps
<1>3. disk \in [File -> FileState] /\ found \in FileState
  BY <1>2, NothingIsAFile DEF IInv, TypeOK
<1>4. /\ memory' \in [File -> FileState]
      /\ memory'["group_attr"] = found /\ memory'["rabitq_side"] = Nothing
      /\ \A f \in File \ {"group_attr", "rabitq_side"} : memory'[f] = disk[f]
  BY <1>1, <1>3, NothingIsAFile
<1>5. TypeOK'
  <2>1. marker' \in BOOLEAN /\ superseded' \in BOOLEAN /\ writing' \in BOOLEAN
    BY DEF IInv, TypeOK
  <2>2. builds' \in Build /\ enabled' \in [Build -> BOOLEAN]
    BY DEF IInv, TypeOK
  <2>3. pc' \in {"idle", "saving", "available", "loaded", "rewriting", "ready"}
    OBVIOUS
  <2>4. at' \in 1 .. Len(SaveOrder) + 1 /\ damaged' \in SUBSET File
    BY DEF IInv, TypeOK
  <2>5. QED
    BY <1>3, <1>4, <2>1, <2>2, <2>3, <2>4 DEF TypeOK
<1>6. BuildsInv'
  <2>1. builds \in Nat /\ Nothing.build = 0
    BY MaxBuildsAssumption DEF IInv, TypeOK, Build, Nothing
  <2>2. \A f \in File : memory'[f].build <= builds
    BY <1>2, <1>4, <2>1 DEF IInv, BuildsInv
  <2>3. QED
    BY <2>2 DEF IInv, BuildsInv
<1>7. MarkerMeansWhole' /\ SideInv' /\ SaveInv' /\ CheckedInv'
  BY <1>3, FilesStay DEF IInv, MarkerMeansWhole
<1>8. ASSUME Marked, "group_attr" \notin damaged PROVE found = Whole(builds)
  <2>1. disk["vector_attr_graph"].build = builds /\ Exists("vector_attr_graph")
    BY <1>8 DEF IInv, MarkerMeansWhole, Exists, Whole, Cut
  <2>2. CASE disk["group_attr"] = Whole(builds)
    BY <2>1, <2>2 DEF GroupBitmaps, Exists, Whole
  <2>3. CASE builds = 0 /\ disk["group_attr"] = Nothing
    <3>1. found = disk["tables"]
      BY <2>1, <2>3 DEF GroupBitmaps, Exists, Nothing
    <3>2. damaged = {}
      BY <2>3 DEF IInv, BuildsInv
    <3>3. QED
      BY <1>8, <2>3, <3>1, <3>2 DEF IInv, MarkerMeansWhole
  <2>4. QED
    BY <1>8, <2>2, <2>3 DEF IInv, MarkerMeansWhole
<1>9. LoadInv'
  <2> SUFFICES ASSUME Marked PROVE LoadInv'
    BY DEF LoadInv, Marked
  <2>1. \A f \in Data \ damaged : memory'[f] = Whole(builds)
    BY <1>4, <1>8 DEF IInv, MarkerMeansWhole
  <2>2. "meta" \notin damaged => memory'["meta"].build = builds
    BY <1>4 DEF IInv, MarkerMeansWhole
  <2>3. QED
    BY <1>4, <2>1, <2>2 DEF LoadInv
<1>10. QED
  BY <1>5, <1>6, <1>7, <1>9 DEF IInv

\* A meta that is cut while it is rewritten keeps its build.
LEMMA RewriteMetaStep == ASSUME IInv, rewriteMeta PROVE IInv'
<1> USE Files DEF rewriteMeta
<1>1. PICK meta \in Cut(memory["meta"].build) \cup {memory["meta"]} :
        disk' = [disk EXCEPT !["meta"] = meta]
  OBVIOUS
<1>2. disk \in [File -> FileState] /\ memory \in [File -> FileState]
  BY DEF IInv, TypeOK
<1>3. meta \in FileState /\ meta.build = memory["meta"].build
  BY <1>2 DEF Cut, FileState
<1>4. /\ disk' \in [File -> FileState]
      /\ disk'["meta"].build = memory["meta"].build
      /\ \A f \in File : f # "meta" => disk'[f] = disk[f]
  BY <1>1, <1>2, <1>3
<1>5. TypeOK'
  BY <1>4 DEF IInv, TypeOK
<1>6. BuildsInv'
  BY <1>4 DEF IInv, BuildsInv
<1>7. MarkerMeansWhole' /\ SideInv' /\ SaveInv' /\ CheckedInv'
  BY <1>4, FilesStay DEF IInv, LoadInv, Loading
<1>8. LoadInv'
  BY DEF IInv, LoadInv, Loading, Marked
<1>9. QED
  BY <1>5, <1>6, <1>7, <1>8 DEF IInv

\* The side index is taken only if the marked build has written one.
LEMMA FinishLoadStep == ASSUME IInv, finishLoad PROVE IInv'
<1> USE Files DEF finishLoad
<1>1. disk \in [File -> FileState] /\ memory \in [File -> FileState]
  BY DEF IInv, TypeOK
<1>2. /\ disk' \in [File -> FileState]
      /\ disk'["meta"] \in {disk["meta"], memory["meta"]}
      /\ \A f \in File : f # "meta" => disk'[f] = disk[f]
  BY <1>1
<1>3. PICK flag \in RabitqFlag(memory["meta"]) :
        memory' = IF flag /\ disk["rabitq_side"].state = "whole"
                  THEN [memory EXCEPT !["rabitq_side"] = disk["rabitq_side"]]
                  ELSE memory
  OBVIOUS
<1>4. /\ memory' \in [File -> FileState]
      /\ memory'["rabitq_side"] \in {memory["rabitq_side"], disk["rabitq_side"]}
      /\ \A f \in File : f # "rabitq_side" => memory'[f] = memory[f]
  BY <1>1, <1>3
<1>5. TypeOK'
  BY <1>2, <1>4 DEF IInv, TypeOK
<1>6. BuildsInv'
  BY <1>2, <1>4 DEF IInv, BuildsInv
<1>7. MarkerMeansWhole' /\ SideInv' /\ SaveInv' /\ CheckedInv'
  BY <1>2, FilesStay DEF IInv, LoadInv, Loading, MarkerMeansWhole
<1>8. ASSUME Marked, {"rabitq_side", "meta"} \cap damaged = {}
      PROVE  memory'["rabitq_side"] \in {Nothing, Whole(builds)}
  <2>1. memory["meta"].build = builds /\ memory["rabitq_side"] \in {Nothing, Whole(builds)}
    BY <1>8 DEF IInv, LoadInv, Loading
  <2>2. CASE flag
    <3>1. enabled[builds]
      BY <2>1, <2>2 DEF RabitqFlag
    <3>2. disk["rabitq_side"] = Whole(builds)
      BY <1>8, <3>1 DEF IInv, SideInv
    <3>3. QED
      BY <1>4, <2>1, <3>2
  <2>3. CASE ~flag
    BY <1>3, <2>1, <2>3
  <2>4. QED
    BY <2>2, <2>3
<1>9. LoadInv'
  BY <1>4, <1>8 DEF IInv, LoadInv, Loading, Marked
<1>10. QED
  BY <1>5, <1>6, <1>7, <1>9 DEF IInv

\* A search that fails or ends leaves the files alone.
LEMMA SearchEndStep == ASSUME IInv, failLoad \/ endSearch PROVE IInv'
<1> USE Files DEF failLoad, endSearch
<1>1. TypeOK'
  <2>1. disk' \in [File -> FileState] /\ memory' \in [File -> FileState]
    BY NothingIsAFile DEF IInv, TypeOK
  <2>2. marker' \in BOOLEAN /\ superseded' \in BOOLEAN /\ writing' \in BOOLEAN
    BY DEF IInv, TypeOK
  <2>3. builds' \in Build /\ enabled' \in [Build -> BOOLEAN]
    BY DEF IInv, TypeOK
  <2>4. pc' \in {"idle", "saving", "available", "loaded", "rewriting", "ready"}
    OBVIOUS
  <2>5. at' \in 1 .. Len(SaveOrder) + 1 /\ damaged' \in SUBSET File
    BY DEF IInv, TypeOK
  <2>6. QED
    BY <2>1, <2>2, <2>3, <2>4, <2>5 DEF TypeOK
<1>2. BuildsInv'
  <2>1. builds \in Nat
    BY MaxBuildsAssumption DEF IInv, TypeOK, Build
  <2>2. QED
    BY <2>1 DEF IInv, BuildsInv, Nothing
<1>3. MarkerMeansWhole' /\ SideInv' /\ SaveInv' /\ CheckedInv'
  BY FilesStay DEF IInv, TypeOK, MarkerMeansWhole
<1>4. LoadInv'
  BY DEF LoadInv, Loading
<1>5. QED
  BY <1>1, <1>2, <1>3, <1>4 DEF IInv

-----------------------------------------------------------------------------

\* Every step keeps the invariant.
LEMMA NextIInv == IInv /\ [Next]_vars => IInv'
<1> SUFFICES ASSUME IInv, [Next]_vars PROVE IInv'
  OBVIOUS
<1>1. CASE UNCHANGED vars
  <2> USE <1>1 DEF vars, IInv
  <2>1. TypeOK'
    BY DEF TypeOK
  <2>2. BuildsInv' /\ SaveInv' /\ CheckedInv'
    BY DEF BuildsInv, SaveInv, CheckedInv, Written
  <2>3. MarkerMeansWhole' /\ SideInv' /\ LoadInv'
    BY DEF MarkerMeansWhole, SideInv, LoadInv, Marked, Loading
  <2>4. QED
    BY <2>1, <2>2, <2>3
<1>2. CASE Next
  BY <1>2, OpenFileStep, FailOpenStep, CloseFileStep, ShortFileStep, StartBuildStep, MarkBuiltStep,
     ScriptStep, LoadStep, RewriteMetaStep, FinishLoadStep, SearchEndStep DEF Next
<1>3. QED
  BY <1>1, <1>2

(***************************************************************************)
(* The types and all that is said above hold in every reachable state of   *)
(* save, load and the build script.                                        *)
(***************************************************************************)
THEOREM Invariance == Spec => []IInv
BY InitIInv, NextIInv, PTL DEF Spec

(***************************************************************************)
(* As long as no later build was started, the marker .ung_built stands for *)
(* the files of the build that set it, each complete unless its own write  *)
(* failed unnoticed, wherever builds and searches were killed before.      *)
(***************************************************************************)
THEOREM MarkerIsTrue == Spec => []MarkerMeansWhole
<1>1. IInv => MarkerMeansWhole
  BY DEF IInv
<1>2. QED
  BY Invariance, <1>1, PTL

(***************************************************************************)
(* load gives a search on such an index files of one build only, with the  *)
(* group bitmaps it has read or made; a write error that went unnoticed    *)
(* harms no file but the one it hit.                                       *)
(***************************************************************************)
THEOREM LoadsOneBuild == Spec => []LoadedOneBuild
<1>1. IInv => LoadedOneBuild
  BY DEF IInv, LoadInv, Loading, LoadedOneBuild
<1>2. QED
  BY Invariance, <1>1, PTL

(***************************************************************************)
(* The quantized codes in use are those of the vectors loaded, unless the  *)
(* build failed to write its side index or meta and went on.               *)
(***************************************************************************)
THEOREM SideIndexMatches == Spec => []RabitqOfThisBuild
<1>1. IInv => RabitqOfThisBuild
  BY DEF IInv, LoadInv, Loading, RabitqOfThisBuild
<1>2. QED
  BY Invariance, <1>1, PTL
=============================================================================
