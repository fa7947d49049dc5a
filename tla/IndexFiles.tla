------------------------------ MODULE IndexFiles ------------------------------
(***************************************************************************)
(* The files of one united index (directory index_files): the build script *)
(* (build_hybrid.sh) that makes them once and marks them as built,         *)
(* UniNavGraph::save, which writes them one after the other in place, and  *)
(* UniNavGraph::load, which reads them and writes meta back.  One process  *)
(* works on the directory at a time, and any process may be killed between *)
(* two steps.  Any file may fail to open or come out short; save tests     *)
(* hardly any of its writes and goes on.  A file is known by the build     *)
(* that wrote it and by how far the writing got; "tables" stands for the   *)
(* group tables and graphs, and "bitmaps" for the two *_rb.bin, which the  *)
(* same writers write and the same readers read in a row.                  *)
(***************************************************************************)
EXTENDS Naturals, Sequences, FiniteSets

CONSTANTS MaxBuilds,     \* bound: runs of build_UNG_index on the directory
          MaxErrors,     \* bound: files damaged when a write error may follow
          StartLegacy    \* may the directory hold an index of an older build?

ASSUME MaxBuildsAssumption == MaxBuilds \in Nat
ASSUME MaxErrorsAssumption == MaxErrors \in Nat
ASSUME StartLegacyAssumption == StartLegacy \in SUBSET BOOLEAN

VARIABLES disk,         \* the files
          marker,       \* .ung_built exists
          builds,       \* number of runs of the builder so far; names the last
          enabled,      \* per build: was its RabitQ side index built?
          pc,           \* what the one process is doing
          at,           \* save: position in SaveOrder
          writing,      \* save: the file at that position is open
          memory,       \* what a search has loaded
          superseded,   \* history: a build was started under an older marker
          damaged       \* history: files the last build failed to write, unnoticed

vars == <<disk, marker, builds, enabled, pc, at, writing, memory, superseded, damaged>>

(* Meta is written first and again last, with the RabitQ flag known. *)
SaveOrder == <<"meta", "vecs", "labels", "tables", "vector_attr_graph", "bitmaps",
               "group_attr", "rabitq_side", "meta">>

File  == {SaveOrder[k] : k \in DOMAIN SaveOrder}
Data  == File \ {"meta", "rabitq_side"}
Build == 0 .. MaxBuilds                      \* 0 is the build of an older index

(* "part" is a nonempty prefix; of meta, one that holds num_points and     *)
(* num_groups: a shorter one is as good as "empty".                        *)
FileState == [build: Build, state: {"absent", "empty", "part", "whole"}]

Nothing   == [build |-> 0, state |-> "absent"]
Whole(b)  == [build |-> b, state |-> "whole"]
Cut(b)    == {[build |-> b, state |-> s] : s \in {"empty", "part"}}

Exists(f)   == disk[f].state # "absent"
NonEmpty(f) == disk[f].state \in {"part", "whole"}

(* An older index has everything but the group bitmaps, and its marker. *)
legacyFiles == [f \in File |->
                  CASE f = "group_attr"  -> Nothing
                    [] f = "rabitq_side" -> IF enabled[0] THEN Whole(0) ELSE Nothing
                    [] OTHER             -> Whole(0)]

Init == /\ enabled \in [Build -> BOOLEAN] /\ \A b \in Build \ {0} : ~enabled[b]
        /\ marker \in StartLegacy
        /\ ~marker => ~enabled[0]
        /\ disk = IF marker THEN legacyFiles ELSE [f \in File |-> Nothing]
        /\ builds = 0 /\ pc = "idle" /\ at = 1 /\ writing = FALSE
        /\ memory = [f \in File |-> Nothing] /\ superseded = FALSE /\ damaged = {}

-----------------------------------------------------------------------------
(* The build script and save. *)

IndexFound == marker /\ Exists("meta") /\ NonEmpty("group_attr")

(* build_ung finds the index: the script ends with [SUCCESS]. *)
skipBuild == /\ pc = "idle" /\ IndexFound
             /\ pc' = "available"
             /\ UNCHANGED <<disk, marker, builds, enabled, at, writing, memory, superseded, damaged>>

(* build_UNG_index builds in memory, with or without a side index (its     *)
(* failure is not the build's), and comes to save.                         *)
startBuild == /\ pc = "idle" /\ ~IndexFound /\ builds < MaxBuilds
              /\ builds' = builds + 1
              /\ \E e \in BOOLEAN : enabled' = [enabled EXCEPT ![builds'] = e]
              /\ pc' = "saving" /\ at' = 1 /\ writing' = FALSE
              /\ superseded' = marker /\ damaged' = {}
              /\ UNCHANGED <<disk, marker, memory>>

(* The file that save comes to; without a side index none is written. *)
Due(f) == /\ pc = "saving" /\ at \in DOMAIN SaveOrder /\ SaveOrder[at] = f
          /\ f = "rabitq_side" => enabled[builds]

openFile(f) == /\ Due(f) /\ ~writing
               /\ \E part \in Cut(builds) : disk' = [disk EXCEPT ![f] = part]
               /\ writing' = TRUE
               /\ UNCHANGED <<marker, builds, enabled, pc, at, memory, superseded, damaged>>

closeFile(f) == /\ Due(f) /\ writing
                /\ disk' = [disk EXCEPT ![f] = Whole(builds)]
                /\ writing' = FALSE /\ at' = at + 1
                /\ damaged' = damaged \ {f}
                /\ UNCHANGED <<marker, builds, enabled, pc, memory, superseded>>

(* Of all the files, save throws if the attribute graph does not open, and *)
(* if the group bitmaps are not there in their full size after the write.  *)
OpenChecked == {"vector_attr_graph"}
SizeChecked == {"group_attr"}

(* Save goes on without noticing that the files fs were not written. *)
goOnWithout(fs) == /\ Cardinality(damaged) < MaxErrors
                   /\ damaged' = damaged \cup fs
                   /\ pc' = pc

throwFromSave == pc' = "idle" /\ UNCHANGED <<at, damaged>>

(* A file does not open: the one of an earlier build stays, which may have *)
(* the expected size.  Without vecs.bin, labels.txt is not tried.          *)
failOpen(f) == /\ Due(f) /\ ~writing
               /\ \/ f \in OpenChecked \cup SizeChecked /\ throwFromSave
                  \/ f \in SizeChecked /\ NonEmpty(f) /\ goOnWithout({f}) /\ at' = at + 1
                  \/ f = "vecs" /\ goOnWithout({"vecs", "labels"}) /\ at' = at + 2
                  \/ /\ f \notin OpenChecked \cup SizeChecked \cup {"vecs"}
                     /\ goOnWithout({f}) /\ at' = at + 1
               /\ UNCHANGED <<disk, marker, builds, enabled, writing, memory, superseded>>

(* Mutant of shortFile: save does not check the size of the group bitmaps. *)
shortFileIgnored(f) == /\ Due(f) /\ writing
                       /\ goOnWithout({f}) /\ at' = at + 1
                       /\ writing' = FALSE
                       /\ UNCHANGED <<disk, marker, builds, enabled, memory, superseded>>

(* A file comes out short. *)
shortFile(f) == /\ Due(f) /\ writing
                /\ \/ f \in SizeChecked /\ throwFromSave
                   \/ f \notin SizeChecked /\ goOnWithout({f}) /\ at' = at + 1
                /\ writing' = FALSE
                /\ UNCHANGED <<disk, marker, builds, enabled, memory, superseded>>

(* No side index was built: none is written, and none is deleted. *)
noSideIndex == /\ pc = "saving" /\ ~writing /\ at \in DOMAIN SaveOrder
               /\ SaveOrder[at] = "rabitq_side" /\ ~enabled[builds]
               /\ at' = at + 1
               /\ UNCHANGED <<disk, marker, builds, enabled, pc, writing, memory, superseded, damaged>>

(* Save is done; the script looks for two of the files and marks the build. *)
markBuilt == /\ pc = "saving" /\ at > Len(SaveOrder)
             /\ Exists("meta") /\ NonEmpty("group_attr")
             /\ marker' = TRUE /\ superseded' = FALSE
             /\ pc' = "available"
             /\ UNCHANGED <<disk, builds, enabled, at, writing, memory, damaged>>

killBuild == /\ pc = "saving"
             /\ pc' = "idle" /\ writing' = FALSE
             /\ UNCHANGED <<disk, marker, builds, enabled, at, memory, superseded, damaged>>

-----------------------------------------------------------------------------
(* Load. *)

(* Without num_points, vectors, or with a damaged attribute graph it throws. *)
MustFail == \/ disk["meta"].state \in {"absent", "empty"}
            \/ disk["vecs"].state = "absent"
            \/ disk["vector_attr_graph"].state \in {"empty", "part"}

(* Files that are cut or of another build than meta are read all the same: *)
(* sizes come out wrong or uninitialized, and load may fail for it.        *)
MayFail == \E f \in Data : /\ disk[f] # Whole(disk["meta"].build)
                           /\ f \in {"vector_attr_graph", "group_attr"} => Exists(f)

(* Mutant of GroupBitmaps: the file is taken as it is found. *)
GroupBitmapsAsFound == IF ~Exists("vector_attr_graph") THEN {Nothing} ELSE {disk["group_attr"]}

(* The group bitmaps load ends with.  Only their number is compared, with  *)
(* the attributes of the attribute graph: a cut file, or one of another    *)
(* build, is taken or not.  If not they are made from the tables.          *)
GroupBitmaps ==
  IF ~Exists("vector_attr_graph") THEN {Nothing}
  ELSE IF ~Exists("group_attr") THEN {disk["tables"]}
  ELSE IF disk["group_attr"] = Whole(disk["vector_attr_graph"].build) THEN {disk["group_attr"]}
  ELSE {disk["group_attr"], disk["tables"]}

load == /\ pc \in {"idle", "available"} /\ ~MustFail
        /\ \E found \in GroupBitmaps :
             memory' = [disk EXCEPT !["group_attr"] = found, !["rabitq_side"] = Nothing]
        /\ pc' = "loaded"
        /\ UNCHANGED <<disk, marker, builds, enabled, at, writing, superseded, damaged>>

failLoad == /\ pc \in {"idle", "available"} /\ (MustFail \/ MayFail)
            /\ pc' = "idle"
            /\ UNCHANGED <<disk, marker, builds, enabled, at, writing, memory, superseded, damaged>>

(* Load adds the FAVOR figures to the keys it has read and writes them all, *)
(* unless meta does not open.                                               *)
rewriteMeta == /\ pc = "loaded"
               /\ \E meta \in Cut(memory["meta"].build) \cup {memory["meta"]} :
                    disk' = [disk EXCEPT !["meta"] = meta]
               /\ pc' = "rewriting"
               /\ UNCHANGED <<marker, builds, enabled, at, writing, memory, superseded, damaged>>

(* Mutant of RabitqFlag: the side index is tried whatever meta says. *)
RabitqFlagIgnored(meta) == {TRUE}

(* What rabitq_enabled in meta says; the key may be cut off. *)
RabitqFlag(meta) == IF meta.state = "whole" THEN {enabled[meta.build]}
                    ELSE {FALSE, enabled[meta.build]}

(* The side index is used if the meta it read says so and its file is      *)
(* whole; whether meta was written in full is not looked at.               *)
finishLoad == /\ pc = "rewriting"
              /\ disk' \in {disk, [disk EXCEPT !["meta"] = memory["meta"]]}
              /\ \E flag \in RabitqFlag(memory["meta"]) :
                   memory' = IF flag /\ disk["rabitq_side"].state = "whole"
                             THEN [memory EXCEPT !["rabitq_side"] = disk["rabitq_side"]]
                             ELSE memory
              /\ pc' = "ready"
              /\ UNCHANGED <<marker, builds, enabled, at, writing, superseded, damaged>>

(* The search ends, or is killed anywhere in load. *)
endSearch == /\ pc \in {"loaded", "rewriting", "ready"}
             /\ pc' = "idle" /\ memory' = [f \in File |-> Nothing]
             /\ UNCHANGED <<disk, marker, builds, enabled, at, writing, superseded, damaged>>

-----------------------------------------------------------------------------
Next == \/ skipBuild \/ startBuild \/ noSideIndex \/ markBuilt \/ killBuild
        \/ \E f \in File : openFile(f) \/ failOpen(f) \/ closeFile(f) \/ shortFile(f)
        \/ load \/ failLoad \/ rewriteMeta \/ finishLoad \/ endSearch

Spec == Init /\ [][Next]_vars

-----------------------------------------------------------------------------
TypeOK == /\ disk \in [File -> FileState] /\ memory \in [File -> FileState]
          /\ marker \in BOOLEAN /\ superseded \in BOOLEAN /\ writing \in BOOLEAN
          /\ builds \in Build /\ enabled \in [Build -> BOOLEAN]
          /\ pc \in {"idle", "saving", "available", "loaded", "rewriting", "ready"}
          /\ at \in 1 .. Len(SaveOrder) + 1
          /\ damaged \in SUBSET File

(* The marker belongs to the last build that was started. *)
Marked == marker /\ ~superseded

(* Behind the marker stand files of one build, all complete but for those  *)
(* hit by a write error nobody noticed, whatever was killed before; only   *)
(* meta may be cut (by a later load), only the side index and, in an older *)
(* index, the group bitmaps may be missing.  The attribute graph is always *)
(* of that build, and group bitmaps of that build are never cut.           *)
MarkerMeansWhole ==
  Marked => /\ \A f \in Data \ damaged :
                 \/ disk[f] = Whole(builds)
                 \/ f = "group_attr" /\ builds = 0 /\ disk[f] = Nothing
            /\ "meta" \notin damaged => disk["meta"].build = builds
            /\ disk["vector_attr_graph"] \in {Whole(builds)} \cup Cut(builds)
            /\ disk["group_attr"] \notin Cut(builds)

(* A search on a marked index works with files of one build, each read in  *)
(* full, and with group bitmaps of that build, read or made; a write error *)
(* nobody noticed harms no file but the one it hit.                        *)
LoadedOneBuild ==
  pc = "ready" /\ Marked => \A f \in Data \ damaged : memory[f] = Whole(builds)

(* The quantized codes a search on a marked index uses are those of the    *)
(* vectors it loaded: a side index left by an earlier build, whose vectors *)
(* are numbered otherwise, is never used, unless the build failed to write *)
(* its own (or meta) and went on.                                          *)
RabitqOfThisBuild ==
  /\ pc = "ready" /\ Marked /\ memory["rabitq_side"] # Nothing
  /\ {"rabitq_side", "meta"} \cap damaged = {}
  => memory["rabitq_side"] = Whole(builds)

(* "[SUCCESS] Required indexes are available": a search started now does   *)
(* not fail for what it finds in the directory (build_hybrid.sh).          *)
SuccessMeansLoadable == pc = "available" => ~MustFail

=============================================================================
