-------------------------- MODULE RagPipeline_proofs --------------------------
(***************************************************************************)
(* Proofs about RagPipeline, for any files, chunkers, parsers and answers  *)
(* of the model, and any number of calls and closes: the two resources,    *)
(* the control of an ingest, validation, the parser chain, the sections    *)
(* and the duplicates of the curated blocks, the vectors, and that every   *)
(* step of an ingest brings it closer to its end.                          *)
(***************************************************************************)
EXTENDS RagPipeline, FiniteSetTheorems, SequenceTheorems, TLAPS

----------------------------------------------------------------------------
(* Resources *)

\* What a resource is at all times: the cached instance is the last one loaded,
\* every other one has been finalised, and the cached one has not.
Sound(r) ==
    /\ r \in [current : Nat, loads : Nat, finalised : SUBSET (Nat \ {0})]
    /\ r.current \in {0, r.loads}
    /\ r.finalised = 1..r.loads \ {r.current}

Resources == Sound(parser) /\ Sound(generator)

\* Loading hands out the cached instance or a new one (ManagedResource.get).
LEMMA LoadSound == ASSUME NEW r, Sound(r) PROVE Sound(Load(r)) /\ NothingLeaks(r)
<1>1. /\ r.current \in Nat /\ r.loads \in Nat
      /\ r.current \in {0, r.loads} /\ r.finalised = 1..r.loads \ {r.current}
      /\ r \in [current : Nat, loads : Nat, finalised : SUBSET (Nat \ {0})]
  BY DEF Sound
<1>2. NothingLeaks(r)
  BY <1>1 DEF NothingLeaks
<1>3. CASE IsLoaded(r)
  BY <1>2, <1>3 DEF Load
<1>4. CASE ~IsLoaded(r)
  <2>1. r.current = 0 /\ r.finalised = 1..r.loads
    BY <1>1, <1>4 DEF IsLoaded
  <2>2. Load(r) = [current |-> r.loads + 1, loads |-> r.loads + 1, finalised |-> r.finalised]
    BY <1>1, <1>4 DEF Load
  <2>3. 1..(r.loads + 1) \ {r.loads + 1} = 1..r.loads
    BY <1>1
  <2> QED
    BY <1>1, <1>2, <2>1, <2>2, <2>3 DEF Sound
<1> QED
  BY <1>3, <1>4

\* Closing finalises the cached instance or leaves it cached (close).
LEMMA CloseSound == ASSUME NEW r, Sound(r), NEW raises \in BOOLEAN PROVE Sound(Close(r, raises))
<1>1. /\ r.current \in Nat /\ r.loads \in Nat
      /\ r.current \in {0, r.loads} /\ r.finalised = 1..r.loads \ {r.current}
      /\ r \in [current : Nat, loads : Nat, finalised : SUBSET (Nat \ {0})]
  BY DEF Sound
<1>2. CASE ~IsLoaded(r) \/ raises
  BY <1>2 DEF Close
<1>3. CASE IsLoaded(r) /\ ~raises
  <2>1. r.current = r.loads /\ r.loads # 0
    BY <1>1, <1>3 DEF IsLoaded
  <2>2. Close(r, raises) = [current |-> 0, loads |-> r.loads,
                            finalised |-> r.finalised \cup {r.current}]
    BY <1>1, <1>3 DEF Close
  <2>3. r.finalised \cup {r.current} = 1..r.loads \ {0}
    BY <1>1, <2>1
  <2> QED
    BY <1>1, <2>1, <2>2, <2>3 DEF Sound
<1> QED
  BY <1>2, <1>3

\* A stage leaves a resource alone or loads it.
LEMMA StageLoads ==
    ASSUME Stage
    PROVE  parser' \in {parser, Load(parser)} /\ generator' \in {generator, Load(generator)}
BY DEF Stage, ValidateFiles, TakeParser, Parse, NormalizeBlocks, DeduplicateBlocks, Chunk, Collect,
       PrepareEmbeddings, TakeGenerator, LookupCache, EmbedBatch, Attach, DropDuplicates,
       IndexChunks, Audit, resources

\* The other thread closes them one after the other.
LEMMA CloserCloses ==
    ASSUME CloseParser \/ CloseGenerator
    PROVE  \E raises \in BOOLEAN :
                /\ parser' \in {parser, Close(parser, raises)}
                /\ generator' \in {generator, Close(generator, raises)}
BY DEF CloseParser, CloseGenerator

\* Every step keeps the resources as they should be.
LEMMA ResourcesStep ==
    ASSUME Resources, [Next]_vars
    PROVE  Resources'
<1>1. CASE UNCHANGED resources
  BY <1>1 DEF Resources, resources
<1>2. CASE Stage
  BY <1>2, StageLoads, LoadSound DEF Resources
<1>3. CASE CloseParser \/ CloseGenerator
  BY <1>3, CloserCloses, CloseSound DEF Resources
<1> QED
  BY <1>1, <1>2, <1>3 DEF Next, IngestAgain, LeaveIt, StartClose, LoseFile, vars, resources

\* Nothing is loaded at the start.
LEMMA ResourcesInit == Init => Resources
<1>1. Sound(Unloaded)
  <2>1. Unloaded.current = 0 /\ Unloaded.loads = 0 /\ Unloaded.finalised = {}
    BY DEF Unloaded
  <2>2. Unloaded \in [current : Nat, loads : Nat, finalised : SUBSET (Nat \ {0})]
    BY DEF Unloaded
  <2>3. 1..0 = {}
    OBVIOUS
  <2> QED
    BY <2>1, <2>2, <2>3 DEF Sound
<1> QED
  BY <1>1 DEF Init, Resources

\* The resources (ManagedResource.get, close; RAGPipeline.close): whatever loads
\* and closes interleave and whatever a finaliser raises, an instance that was
\* loaded and not finalised is the one the next close finalises.
THEOREM ResourcesCorrect == Spec => []OneLiveResource
<1>1. Resources /\ [Next]_vars => Resources'
  BY ResourcesStep
<1>2. Resources => OneLiveResource
  BY LoadSound DEF Resources, OneLiveResource
<1> QED
  BY ResourcesInit, <1>1, <1>2, PTL DEF Spec

----------------------------------------------------------------------------
(* Lists that are picked from a list *)

FilterTurn(T, kept, x) == IF x \in T THEN Append(kept, x) ELSE kept

Filtering == INSTANCE SequenceFolds WITH Op <- FilterTurn

\* r is what s has of T, in its order: at has the places.
Picked(r, s, T, at) ==
    /\ at \in [1..Len(r) -> DOMAIN s]
    /\ \A l, m \in 1..Len(r) : l < m => at[l] < at[m]
    /\ \A m \in 1..Len(r) : r[m] = s[at[m]] /\ r[m] \in T
    /\ \A i \in DOMAIN s : s[i] \in T => \E m \in 1..Len(r) : at[m] = i

\* What a list comprehension returns.
LEMMA AmongPicks ==
    \A T, S : \A s \in Seq(S) :
        /\ Among(s, T) \in Seq(S)
        /\ ToSet(Among(s, T)) = ToSet(s) \cap T
        /\ \E at : Picked(Among(s, T), s, T, at)
<1> SUFFICES ASSUME NEW T, NEW S, NEW s \in Seq(S)
             PROVE  /\ Among(s, T) \in Seq(S)
                    /\ ToSet(Among(s, T)) = ToSet(s) \cap T
                    /\ \E at : Picked(Among(s, T), s, T, at)
  OBVIOUS
<1>1. Filtering!Filters(T, S, T)
  BY DEF Filtering!Filters, FilterTurn
<1>2. Among(s, T) = Filtering!Folded(T, <<>>, s)
  BY DEF Among, FilterTurn, Filtering!Folded, FoldLeft, MapThenFoldSet, Max,
         Filtering!FoldLeft, Filtering!MapThenFoldSet, Filtering!Max
<1>3. Among(s, T) \in Seq(S) /\ ToSet(Among(s, T)) = ToSet(s) \cap T
  BY <1>1, <1>2, Filtering!FoldFilters DEF ToSet, Filtering!ToSet
<1>4. PICK r \in Seq(S) : r = Among(s, T)
  BY <1>3
<1>5. PICK at : Filtering!Places(at, r, s, Len(s), T)
  BY <1>1, <1>2, <1>4, Filtering!FoldPlaces
<1>6. PICK n \in Nat : n = Len(s) /\ DOMAIN s = 1..n
  OBVIOUS
<1>7. Picked(r, s, T, at)
  BY <1>5, <1>6 DEF Filtering!Places, Picked
<1> QED BY <1>3, <1>4, <1>7

\* Places that rise are different places.
LEMMA RisingIsInjective ==
    ASSUME NEW n \in Nat, NEW at, \A m \in 1..n : at[m] \in Int,
           \A l, m \in 1..n : l < m => at[l] < at[m]
    PROVE  \A l, m \in 1..n : at[l] = at[m] => l = m
<1> SUFFICES ASSUME NEW l \in 1..n, NEW m \in 1..n, at[l] = at[m], l # m PROVE FALSE
  OBVIOUS
<1>1. l < m \/ m < l
  OBVIOUS
<1> QED BY <1>1

----------------------------------------------------------------------------
(* Validation of files *)

\* The files of a batch: one per path, whatever has disappeared.
FilesInv ==
    /\ files \in Seq(ToSet(files))
    /\ \A f \in ToSet(files) : IsFile(f)
    /\ \A f, g \in ToSet(files) : f.path = g.path => f = g

Paths == {f.path : f \in ToSet(files)}

Codes == {"file_empty", "file_too_large", "unsupported_extension", "extension_media_mismatch",
          "corrupt_file", "encrypted_pdf", "file_too_many_pages", "duplicate_file_in_batch",
          "antivirus_infected"}

\* An issue is listed or not.
LEMMA IssueIsList ==
    \A code \in Codes : \A holds : (IF holds THEN <<code>> ELSE <<>>) \in Seq(Codes)
<1> SUFFICES ASSUME NEW code \in Codes, NEW holds
             PROVE  (IF holds THEN <<code>> ELSE <<>>) \in Seq(Codes)
  OBVIOUS
<1>1. <<code>> \in Seq(Codes) /\ <<>> \in Seq(Codes)
  OBVIOUS
<1>2. CASE holds
  BY <1>1, <1>2
<1>3. CASE ~holds
  BY <1>1, <1>3
<1> QED BY <1>2, <1>3

\* The issue of a duplicate is among the issues of a duplicate.
LEMMA DuplicateIsIssue ==
    ASSUME NEW f
    PROVE  /\ \A d : Issues(f, d) \in Seq(Codes)
           /\ "duplicate_file_in_batch" \in ToSet(Issues(f, TRUE))
<1> DEFINE issue(code, holds) == IF holds THEN <<code>> ELSE <<>>
           before == issue("file_empty", f.size < MinSize)
                \o issue("file_too_large", f.size > MaxSize)
                \o issue("unsupported_extension", f.ext \notin DOMAIN Allowed)
                \o issue("extension_media_mismatch", f.ext \in DOMAIN Allowed /\ ~Matches(f))
                \o issue("corrupt_file", IsCorrupted(f))
                \o issue("encrypted_pdf", IsEncryptedPdf(f))
                \o issue("file_too_many_pages", Sniff(f) = "pdf" /\ f.pages > MaxPages)
           last == issue("antivirus_infected", IsBlockedByScan(f))
<1>1. \A d : Issues(f, d) = (before \o issue("duplicate_file_in_batch", d)) \o last
  BY DEF Issues
<1>2. \A code \in Codes : \A holds : issue(code, holds) \in Seq(Codes)
  BY IssueIsList
<1>3. issue("duplicate_file_in_batch", TRUE) = <<"duplicate_file_in_batch">>
  OBVIOUS
<1> HIDE DEF issue
<1>4. "duplicate_file_in_batch" \in Codes
  BY DEF Codes
<1>5. last \in Seq(Codes)
  <2>1. "antivirus_infected" \in Codes
    BY DEF Codes
  <2> QED BY <1>2, <2>1
<1>6. before \in Seq(Codes)
  <2>1. \A a, b \in Seq(Codes) : a \o b \in Seq(Codes)
    OBVIOUS
  <2>2. /\ "file_empty" \in Codes /\ "file_too_large" \in Codes
        /\ "unsupported_extension" \in Codes /\ "extension_media_mismatch" \in Codes
        /\ "corrupt_file" \in Codes /\ "encrypted_pdf" \in Codes
        /\ "file_too_many_pages" \in Codes
    BY DEF Codes
  <2> QED BY <1>2, <2>1, <2>2
<1> HIDE DEF before, last
<1>7. \A d : Issues(f, d) \in Seq(Codes)
  <2> SUFFICES ASSUME NEW d PROVE Issues(f, d) \in Seq(Codes)
    OBVIOUS
  <2>1. issue("duplicate_file_in_batch", d) \in Seq(Codes)
    BY <1>2, <1>4
  <2>2. before \o issue("duplicate_file_in_batch", d) \in Seq(Codes)
    BY <1>6, <2>1
  <2>3. \A a, b \in Seq(Codes) : a \o b \in Seq(Codes)
    OBVIOUS
  <2>4. (before \o issue("duplicate_file_in_batch", d)) \o last \in Seq(Codes)
    BY <1>5, <2>2, <2>3
  <2> QED BY <1>1, <2>4
<1>8. PICK n \in Nat : n = Len(before)
  BY <1>6
<1>9. LET s == (before \o <<"duplicate_file_in_batch">>) \o last
      IN s[n + 1] = "duplicate_file_in_batch" /\ n + 1 \in DOMAIN s
  BY <1>4, <1>5, <1>6, <1>8
<1>10. Issues(f, TRUE) = (before \o <<"duplicate_file_in_batch">>) \o last
  BY <1>1, <1>3
<1>11. "duplicate_file_in_batch" \in ToSet(Issues(f, TRUE))
  BY <1>9, <1>10 DEF ToSet
<1> QED BY <1>7, <1>11

\* A file passes in a batch when it passes alone and repeats none before it.
LEMMA ValidInBatch ==
    ASSUME NEW f, NEW d \in BOOLEAN
    PROVE  /\ ValidationResult(f, d).valid <=> ValidateOne(f).valid /\ ~d
           /\ ValidationResult(f, d).path = f.path
<1>0. ValidationResult(f, d).path = f.path
  BY DEF ValidationResult
<1>1. CASE d
  <2>1. PICK s \in Seq(Codes) : s = Issues(f, TRUE) /\ "duplicate_file_in_batch" \in ToSet(s)
    BY DuplicateIsIssue
  <2>2. Blocking(s) = Among(s, {i \in ToSet(s) : i # "extension_media_mismatch"})
    BY DEF Blocking, Those
  <2>3. "duplicate_file_in_batch" \in ToSet(Blocking(s))
    <3> DEFINE others == {i \in ToSet(s) : i # "extension_media_mismatch"}
    <3>1. "duplicate_file_in_batch" \in others
      BY <2>1
    <3> HIDE DEF others
    <3>2. ToSet(Among(s, others)) = ToSet(s) \cap others
      BY AmongPicks
    <3> QED BY <2>1, <2>2, <3>1, <3>2 DEF others
  <2>7. Blocking(s) # <<>>
    BY <2>3 DEF ToSet
  <2> QED BY <1>0, <1>1, <2>1, <2>7 DEF ValidationResult
<1>2. CASE ~d
  <2>1. d = FALSE
    BY <1>2
  <2> QED BY <2>1, <1>0 DEF ValidateOne, ValidationResult
<1> QED BY <1>0, <1>1, <1>2

\* paths are the paths of the files at the places at, no two of which have the
\* same bytes.
Accepted(paths, batch, at) ==
    /\ paths \in Seq({f.path : f \in ToSet(batch)})
    /\ at \in [DOMAIN paths -> DOMAIN batch]
    /\ \A m \in DOMAIN paths : paths[m] = batch[at[m]].path
    /\ \A l, m \in DOMAIN paths : batch[at[l]].hash = batch[at[m]].hash => l = m

\* What validate_many accepts.
LEMMA AcceptedPaths ==
    ASSUME NEW batch, batch \in Seq(ToSet(batch))
    PROVE  \E at : Accepted(ValidPaths(batch), batch, at)
<1>1. PICK n \in Nat : n = Len(batch) /\ DOMAIN batch = 1..n
  OBVIOUS
<1> DEFINE results == ValidateMany(batch)
           valid == {r \in ToSet(results) : r.valid}
           accepted == Among(results, valid)
<1>2. results = [i \in 1..n |-> ValidationResult(batch[i], SeenBefore(batch, i))]
  BY <1>1 DEF ValidateMany
<1>3. results \in Seq(ToSet(results)) /\ DOMAIN results = 1..n
  <2>1. results \in [1..n -> ToSet(results)]
    BY <1>2 DEF ToSet
  <2> QED BY <2>1
<1>4. \A i \in 1..n : results[i].path = batch[i].path
                      /\ (results[i].valid <=> ValidateOne(batch[i]).valid /\ ~SeenBefore(batch, i))
  <2>1. \A i \in 1..n : SeenBefore(batch, i) \in BOOLEAN
    BY DEF SeenBefore
  <2>2. \A i \in 1..n : results[i] = ValidationResult(batch[i], SeenBefore(batch, i))
    BY <1>2
  <2> QED BY <2>1, <2>2, ValidInBatch
<1> HIDE DEF results
<1>5. accepted \in Seq(ToSet(results)) /\ \E at : Picked(accepted, results, valid, at)
  BY <1>3, AmongPicks
<1>6. ValidPaths(batch) = [i \in DOMAIN accepted |-> accepted[i].path]
  BY DEF results, ValidPaths, Those
<1> HIDE DEF accepted
<1>7. PICK at : Picked(accepted, results, valid, at)
  BY <1>5
<1>8. PICK k \in Nat : k = Len(accepted) /\ DOMAIN accepted = 1..k
  BY <1>5
<1>9. /\ at \in [1..k -> 1..n]
      /\ \A l, m \in 1..k : l < m => at[l] < at[m]
      /\ \A m \in 1..k : accepted[m] = results[at[m]] /\ results[at[m]].valid
  BY <1>3, <1>7, <1>8 DEF Picked
<1>10. \A m \in 1..k : at[m] \in 1..n /\ ValidPaths(batch)[m] = batch[at[m]].path
                       /\ ~SeenBefore(batch, at[m])
  BY <1>4, <1>6, <1>8, <1>9
<1>11. DOMAIN ValidPaths(batch) = 1..k
  BY <1>6, <1>8
<1>12. \A m \in 1..k : ValidPaths(batch)[m] \in {f.path : f \in ToSet(batch)}
  BY <1>1, <1>10 DEF ToSet
<1>13. ValidPaths(batch) \in Seq({f.path : f \in ToSet(batch)})
  <2>1. ValidPaths(batch) \in [1..k -> {f.path : f \in ToSet(batch)}]
    BY <1>6, <1>8, <1>11, <1>12
  <2> QED BY <2>1
<1>14. ASSUME NEW l \in 1..k, NEW m \in 1..k, l < m
       PROVE  batch[at[l]].hash # batch[at[m]].hash
  <2>1. at[l] \in 1..n /\ at[m] \in 1..n /\ at[l] < at[m]
    BY <1>9, <1>14
  <2>2. at[l] \in 1..(at[m] - 1)
    BY <2>1
  <2> QED BY <1>10, <2>2 DEF SeenBefore
<1>15. \A l, m \in 1..k : batch[at[l]].hash = batch[at[m]].hash => l = m
  BY <1>14
<1>16. Accepted(ValidPaths(batch), batch, at)
  BY <1>1, <1>9, <1>10, <1>11, <1>13, <1>15 DEF Accepted
<1> QED BY <1>16


----------------------------------------------------------------------------
(* Control *)

\* The stages that have a file at hand.
AtFile == {"take_parser", "parse", "normalize", "deduplicate", "chunk", "collect"}

Counters ==
    /\ chunker \in Chunkers
    /\ calls \in 1..MaxCalls
    /\ closing \in {"", "parser", "generator"}
    /\ closes \in 0..MaxCloses

Handles ==
    /\ using \in [parser : Nat, generator : Nat]
    /\ using.parser <= parser.loads /\ using.generator <= generator.loads

\* What is kept at which stage.
Kept ==
    /\ pc \in Stages
    /\ attempt \in 1..MaxRetries
    /\ todo \in Seq(Paths)
    /\ pc \in AtFile => todo # <<>>
    /\ pc \notin AtFile => todo = <<>> /\ blocks = <<>>
    /\ pc # "collect" => made = <<>>
    /\ pc # "embed" => vectors = <<>>

Control == Resources /\ FilesInv /\ Counters /\ Handles /\ Kept

\* The bounds among the constants.
LEMMA BoundsAreNumbers ==
    /\ MaxCalls \in Nat \ {0} /\ MaxCloses \in Nat
    /\ MaxRetries \in Nat \ {0} /\ BatchSize \in Nat \ {0}
BY PipelineAssumption, EmbeddingAssumption

\* What the model gives the invariants to start with.
LEMMA ControlInit == Init => Control
<1> SUFFICES ASSUME Init PROVE Control
  OBVIOUS
<1>1. Resources
  BY ResourcesInit
<1>2. FilesInv
  BY PipelineAssumption DEF Init, FilesInv
<1>3. Counters
  <2>1. chunker \in Chunkers
    BY DEF Init
  <2>2. 1 \in 1..MaxCalls /\ 0 \in 0..MaxCloses
    BY BoundsAreNumbers
  <2>3. calls = 1 /\ closes = 0
    BY DEF Init
  <2>4. closing \in {"", "parser", "generator"}
    BY DEF Init
  <2> QED BY <2>1, <2>2, <2>3, <2>4 DEF Counters
<1>4. Handles
  <2>1. Unloaded.loads = 0
    BY DEF Unloaded
  <2>2. parser.loads = 0 /\ generator.loads = 0 /\ using = [parser |-> 0, generator |-> 0]
    BY <2>1 DEF Init
  <2> QED BY <2>2 DEF Handles
<1>5. Kept
  <2>1. <<>> \in Seq(Paths) /\ 1 \in 1..MaxRetries
    BY BoundsAreNumbers
  <2> QED BY <2>1 DEF Init, Kept, AtFile, Stages, Ended
<1> QED BY <1>1, <1>2, <1>3, <1>4, <1>5 DEF Control

\* The batch stays what it is; only what is on the disk changes.
LEMMA FilesStep ==
    ASSUME FilesInv, [Next]_vars
    PROVE  FilesInv' /\ Paths' = Paths
<1>1. CASE LoseFile
  <2>1. PICK f \in ToSet(files) :
            files' = [i \in DOMAIN files |->
                        IF files[i].path = f.path THEN [files[i] EXCEPT !.found = FALSE]
                        ELSE files[i]]
    BY <1>1 DEF LoseFile
  <2>2. PICK n \in Nat : n = Len(files) /\ DOMAIN files = 1..n
    BY DEF FilesInv
  <2> DEFINE Lost(g) == IF g.path = f.path THEN [g EXCEPT !.found = FALSE] ELSE g
  <2>3. DOMAIN files' = 1..n /\ \A i \in 1..n : files'[i] = Lost(files[i])
    BY <2>1, <2>2
  <2>4. \A g \in ToSet(files) : /\ Lost(g).path = g.path
                                /\ IsFile(Lost(g))
    <3> SUFFICES ASSUME NEW g \in ToSet(files)
                 PROVE  /\ Lost(g).path = g.path
                        /\ IsFile(Lost(g))
      OBVIOUS
    <3>1. IsFile(g) /\ DOMAIN g = FileFields
      BY DEF FilesInv, IsFile
    <3>2. {"path", "stem", "found", "legal", "pages", "items"} \subseteq FileFields
      BY DEF FileFields
    <3>3. CASE g.path = f.path
      <4>1. Lost(g) = [g EXCEPT !.found = FALSE]
        BY <3>3
      <4>2. /\ DOMAIN Lost(g) = FileFields /\ Lost(g).path = g.path /\ Lost(g).stem = g.stem
            /\ Lost(g).legal = g.legal /\ Lost(g).pages = g.pages /\ Lost(g).items = g.items
            /\ Lost(g).found = FALSE
        BY <3>1, <3>2, <4>1
      <4> HIDE DEF Lost
      <4> QED BY <3>1, <4>2, Zenon DEF IsFile
    <3>4. CASE g.path # f.path
      BY <3>1, <3>4
    <3> QED BY <3>3, <3>4
  <2> HIDE DEF Lost
  <2>5. ToSet(files)' = {Lost(g) : g \in ToSet(files)}
    BY <2>2, <2>3 DEF ToSet
  <2>6. files' \in Seq(ToSet(files)')
    <3>1. files' \in [1..n -> ToSet(files)']
      BY <2>1, <2>2, <2>3 DEF ToSet
    <3> QED BY <3>1
  <2>7. \A h \in ToSet(files)' : \E g \in ToSet(files) : h = Lost(g) /\ h.path = g.path
    BY <2>4, <2>5
  <2>8. \A h \in ToSet(files)' : IsFile(h)
    BY <2>4, <2>7
  <2>9. \A h, k \in ToSet(files)' : h.path = k.path => h = k
    BY <2>7 DEF FilesInv
  <2>10. Paths' = Paths
    BY <2>4, <2>5, <2>7 DEF Paths
  <2> QED BY <2>6, <2>8, <2>9, <2>10 DEF FilesInv
<1>2. CASE UNCHANGED files
  BY <1>2 DEF FilesInv, Paths
<1> QED
  BY <1>1, <1>2 DEF Next, Stage, IngestAgain, LeaveIt, StartClose, CloseParser, CloseGenerator, vars

\* Calls and closes are counted up to their bounds.
LEMMA CountersStep ==
    ASSUME Counters, [Next]_vars
    PROVE  Counters'
<1>0. MaxCalls \in Nat /\ MaxCloses \in Nat
  BY BoundsAreNumbers
<1>a. calls \in 1..MaxCalls
  BY DEF Counters
<1>b. closes \in 0..MaxCloses
  BY DEF Counters
<1>1. CASE IngestAgain
  <2>1. calls < MaxCalls /\ calls' = calls + 1 /\ UNCHANGED <<chunker, closing, closes>>
    BY <1>1 DEF IngestAgain, closer
  <2>2. calls' \in 1..MaxCalls
    BY <1>0, <1>a, <2>1
  <2> QED BY <2>1, <2>2 DEF Counters
<1>2. CASE StartClose
  <2>1. /\ closes < MaxCloses /\ closes' = closes + 1 /\ closing' = "parser"
        /\ UNCHANGED <<chunker, calls>>
    BY <1>2 DEF StartClose
  <2>2. closes' \in 0..MaxCloses
    BY <1>0, <1>b, <2>1
  <2> QED BY <2>1, <2>2 DEF Counters
<1>3. CASE CloseParser
  BY <1>3 DEF Counters, CloseParser
<1>4. CASE CloseGenerator
  BY <1>4 DEF Counters, CloseGenerator
<1>5. CASE UNCHANGED <<chunker, calls, closing, closes>>
  BY <1>5 DEF Counters
<1> QED
  BY <1>1, <1>2, <1>3, <1>4, <1>5 DEF Next, Stage, LeaveIt, LoseFile, vars, closer

\* A resource has been loaded as often as before, or more often.
Grown(r, s) == r.loads \in Nat /\ s.loads \in Nat /\ r.loads <= s.loads

\* A resource that is loaded or closed never forgets how often it was loaded.
LEMMA LoadsGrow ==
    \A r : Sound(r) =>
        /\ Grown(r, r) /\ Grown(r, Load(r))
        /\ \A raises \in BOOLEAN : Grown(r, Close(r, raises))
        /\ Load(r).current \in Nat /\ Load(r).current <= Load(r).loads
<1> SUFFICES ASSUME NEW r, Sound(r)
             PROVE  /\ Grown(r, r) /\ Grown(r, Load(r))
                    /\ \A raises \in BOOLEAN : Grown(r, Close(r, raises))
                    /\ Load(r).current \in Nat /\ Load(r).current <= Load(r).loads
  OBVIOUS
<1>1. /\ r.current \in Nat /\ r.loads \in Nat /\ r.current \in {0, r.loads}
      /\ r \in [current : Nat, loads : Nat, finalised : SUBSET (Nat \ {0})]
  BY DEF Sound
<1>2. CASE IsLoaded(r)
  BY <1>1, <1>2 DEF Load, Close, Grown
<1>3. CASE ~IsLoaded(r)
  BY <1>1, <1>3 DEF Load, Close, Grown
<1> QED BY <1>2, <1>3

\* A handle in use is one that was loaded.
LEMMA HandlesStep ==
    ASSUME Resources, Handles, [Next]_vars
    PROVE  Handles'
<1>0. using = [parser |-> using.parser, generator |-> using.generator]
      /\ using.parser \in Nat /\ using.generator \in Nat
  BY DEF Handles
<1>1. Grown(parser, parser') /\ Grown(generator, generator')
  <2>1. Sound(parser) /\ Sound(generator)
    BY DEF Resources
  <2>2. CASE Stage
    BY <2>1, <2>2, StageLoads, LoadsGrow
  <2>3. CASE CloseParser \/ CloseGenerator
    BY <2>1, <2>3, CloserCloses, LoadsGrow
  <2>4. CASE UNCHANGED <<parser, generator>>
    BY <2>1, <2>4, LoadsGrow
  <2> QED
    BY <2>2, <2>3, <2>4 DEF Next, IngestAgain, LeaveIt, StartClose, LoseFile, vars, resources
<1>2. CASE TakeParser
  <2>1. CASE Raise
    BY <1>1, <2>1 DEF Raise, Handles, Grown
  <2>2. CASE ~Raise
    <3>1. parser' = Load(parser) /\ using' = [using EXCEPT !.parser = parser'.current]
      BY <1>2, <2>2 DEF TakeParser
    <3>2. parser'.current \in Nat /\ parser'.current <= parser'.loads
      BY <3>1, LoadsGrow DEF Resources
    <3> QED BY <1>1, <3>1, <3>2 DEF Handles, Grown
  <2> QED BY <2>1, <2>2
<1>3. CASE TakeGenerator
  <2>1. CASE Raise
    BY <1>1, <2>1 DEF Raise, Handles, Grown
  <2>2. CASE ~Raise
    <3>1. generator' = Load(generator)
          /\ using' = [using EXCEPT !.generator = generator'.current]
      BY <1>3, <2>2 DEF TakeGenerator
    <3>2. generator'.current \in Nat /\ generator'.current <= generator'.loads
      BY <3>1, LoadsGrow DEF Resources
    <3> QED BY <1>1, <3>1, <3>2 DEF Handles, Grown
  <2> QED BY <2>1, <2>2
<1>4. CASE using' \in {using, [parser |-> 0, generator |-> 0],
                       [using EXCEPT !.parser = 0], [using EXCEPT !.generator = 0]}
  BY <1>1, <1>4 DEF Handles, Grown
<1>5. ASSUME Stage, ~TakeParser, ~TakeGenerator
      PROVE  using' \in {using, [parser |-> 0, generator |-> 0],
                         [using EXCEPT !.parser = 0], [using EXCEPT !.generator = 0]}
  BY <1>5 DEF Stage, ValidateFiles, Parse, NormalizeBlocks, DeduplicateBlocks, Chunk, Collect,
       PrepareEmbeddings, LookupCache, EmbedBatch, Attach, DropDuplicates, IndexChunks, Audit,
       Raise, resources
<1> QED
  BY <1>2, <1>3, <1>4, <1>5 DEF Next, IngestAgain, LeaveIt, StartClose, CloseParser,
     CloseGenerator, LoseFile, vars, resources

\* Every stage leaves behind what the next one has to find.
LEMMA StageKeeps ==
    ASSUME FilesInv, Kept, Stage
    PROVE  Kept'
<1> USE BoundsAreNumbers DEF Stages, Ended, AtFile, document, embedding
<1>0. Paths' = Paths /\ attempt \in Nat /\ MaxRetries \in Nat /\ MaxRetries # 0
  BY DEF Stage, Paths, Kept
<1>1. CASE Raise
  BY <1>0, <1>1 DEF Raise, Kept
<1>2. ASSUME ValidateFiles, ~Raise PROVE Kept'
  <2>1. ValidPaths(files) \in Seq(Paths)
    BY AcceptedPaths DEF FilesInv, Accepted, Paths
  <2> QED BY <1>0, <1>2, <2>1 DEF Kept, ValidateFiles
<1>3. ASSUME TakeParser, ~Raise PROVE Kept'
  BY <1>0, <1>3 DEF Kept, TakeParser
<1>4. ASSUME Parse, ~Raise PROVE Kept'
  <2>1. pc = "parse" /\ pc' = "normalize" /\ UNCHANGED <<todo, made, vectors, attempt>>
    BY <1>4 DEF Parse
  <2> QED BY <1>0, <2>1 DEF Kept
<1>5. CASE NormalizeBlocks
  BY <1>0, <1>5 DEF Kept, NormalizeBlocks
<1>6. CASE DeduplicateBlocks
  BY <1>0, <1>6 DEF Kept, DeduplicateBlocks
<1>7. CASE Chunk
  BY <1>0, <1>7 DEF Kept, Chunk
<1>8. CASE Collect
  <2>1. Tail(todo) \in Seq(Paths)
    BY <1>8 DEF Kept, Collect
  <2> QED BY <1>0, <1>8, <2>1 DEF Kept, Collect
<1>9. ASSUME PrepareEmbeddings, ~Raise PROVE Kept'
  BY <1>0, <1>9 DEF Kept, PrepareEmbeddings
<1>10. ASSUME TakeGenerator, ~Raise PROVE Kept'
  BY <1>0, <1>10 DEF Kept, TakeGenerator
<1>11. CASE LookupCache
  BY <1>0, <1>11 DEF Kept, LookupCache
<1>12. ASSUME EmbedBatch, ~Raise PROVE Kept'
  <2>1. /\ pc = "embed" /\ pc' = pc /\ UNCHANGED document
        /\ attempt' = 1 \/ (attempt < MaxRetries /\ attempt' = attempt + 1)
    BY <1>12 DEF EmbedBatch, HasAttemptsLeft
  <2> QED BY <1>0, <2>1 DEF Kept
<1>13. CASE Attach
  BY <1>0, <1>13 DEF Kept, Attach
<1>14. CASE DropDuplicates
  BY <1>0, <1>14 DEF Kept, DropDuplicates
<1>15. ASSUME IndexChunks, ~Raise PROVE Kept'
  BY <1>0, <1>15 DEF Kept, IndexChunks
<1>16. CASE Audit
  BY <1>0, <1>16 DEF Kept, Audit
<1> QED
  BY <1>1, <1>2, <1>3, <1>4, <1>5, <1>6, <1>7, <1>8, <1>9, <1>10, <1>11, <1>12, <1>13, <1>14,
     <1>15, <1>16 DEF Stage

\* So do the other steps.
LEMMA KeptStep ==
    ASSUME FilesInv, Kept, [Next]_vars
    PROVE  Kept'
<1>1. CASE Stage
  BY <1>1, StageKeeps
<1>2. Paths' = Paths
  BY FilesStep
<1>3. CASE UNCHANGED <<pc, document, vectors, attempt>>
  BY <1>2, <1>3 DEF Kept, document
<1>4. CASE IngestAgain
  BY <1>2, <1>4 DEF Kept, IngestAgain, document, embedding, Stages, Ended, AtFile
<1> QED
  BY <1>1, <1>3, <1>4 DEF Next, LeaveIt, StartClose, CloseParser, CloseGenerator, LoseFile, vars,
     embedding

\* The control of the pipeline is inductive.
LEMMA ControlInvariant == Spec => []Control
<1>1. Control /\ [Next]_vars => Control'
  BY ResourcesStep, FilesStep, CountersStep, HandlesStep, KeptStep DEF Control
<1> QED BY ControlInit, <1>1, PTL DEF Spec

\* Typing (RAGPipeline.ingest): whatever is parsed, whatever the model answers
\* and whatever is closed or lost meanwhile, no attempt exceeds max_retries, a
\* handle in use was handed out by its resource, and a call that has ended
\* leaves no file, block or vector for the next one.
THEOREM PipelineTypes == Spec => []TypeOK
<1>1. Control => TypeOK
  <2> SUFFICES ASSUME Control PROVE TypeOK
    OBVIOUS
  <2>1. \A r : Sound(r) => ResourceOK(r)
    BY DEF Sound, ResourceOK
  <2>2. ResourceOK(parser) /\ ResourceOK(generator)
    BY <2>1 DEF Control, Resources
  <2>3. using.parser \in 0..parser.loads /\ using.generator \in 0..generator.loads
    BY <2>2 DEF Control, Handles, ResourceOK
  <2>4. ToSet(todo) \subseteq {f.path : f \in ToSet(files)}
    BY DEF Control, Kept, Paths, ToSet
  <2>5. pc \in {"validate"} \cup Ended =>
            todo = <<>> /\ blocks = <<>> /\ made = <<>> /\ vectors = <<>>
    BY DEF Control, Kept, Ended, AtFile
  <2> QED BY <2>2, <2>3, <2>4, <2>5 DEF Control, Counters, Kept, TypeOK
<1> QED BY <1>1, ControlInvariant, PTL

----------------------------------------------------------------------------
(* Accepted files *)

FileOf(batch, path) == CHOOSE f \in ToSet(batch) : f.path = path

\* A path leads to its file.
LEMMA PathNamesFile ==
    ASSUME NEW batch, \A f, g \in ToSet(batch) : f.path = g.path => f = g, NEW f \in ToSet(batch)
    PROVE  FileOf(batch, f.path) = f
<1>1. \E g \in ToSet(batch) : g.path = f.path
  OBVIOUS
<1> QED BY <1>1 DEF FileOf

\* What becomes of a file that is lost.
Gone(f) == [f EXCEPT !.found = FALSE]

\* A file that is lost is still the file it was.
LEMMA FilesStay ==
    ASSUME FilesInv, [Next]_vars
    PROVE  \A path \in Paths :
                /\ FileOf(files, path) \in ToSet(files)
                /\ FileOf(files', path) \in {FileOf(files, path), Gone(FileOf(files, path))}
<1>0. \A path \in Paths : FileOf(files, path) \in ToSet(files)
  BY PathNamesFile DEF FilesInv, Paths
<1>1. CASE UNCHANGED files
  BY <1>0, <1>1
<1>2. CASE LoseFile
  <2>1. PICK f \in ToSet(files) :
            files' = [i \in DOMAIN files |->
                        IF files[i].path = f.path THEN [files[i] EXCEPT !.found = FALSE]
                        ELSE files[i]]
    BY <1>2 DEF LoseFile
  <2>2. PICK n \in Nat : n = Len(files) /\ DOMAIN files = 1..n
    BY DEF FilesInv
  <2> SUFFICES ASSUME NEW g \in ToSet(files)
               PROVE  FileOf(files', g.path) \in {FileOf(files, g.path), Gone(FileOf(files, g.path))}
    BY <1>0 DEF Paths
  <2>3. PICK i \in 1..n : g = files[i]
    BY <2>2 DEF ToSet
  <2>4. DOMAIN files' = 1..n /\ files'[i] \in ToSet(files')
    BY <2>1, <2>2 DEF ToSet
  <2>5. files'[i].path = g.path /\ files'[i] \in {g, Gone(g)}
    <3>1. DOMAIN g = FileFields
      BY DEF FilesInv, IsFile
    <3>2. "path" \in FileFields
      BY DEF FileFields
    <3>3. files'[i] = IF g.path = f.path THEN [g EXCEPT !.found = FALSE] ELSE g
      BY <2>1, <2>2, <2>3
    <3> QED BY <3>1, <3>2, <3>3 DEF Gone
  <2>6. FileOf(files, g.path) = g
    BY PathNamesFile DEF FilesInv
  <2>7. FileOf(files', g.path) = files'[i]
    <3>1. \A a, b \in ToSet(files') : a.path = b.path => a = b
      BY FilesStep DEF FilesInv
    <3> QED BY <2>4, <2>5, <3>1, PathNamesFile
  <2> QED BY <2>5, <2>6, <2>7
<1> QED
  BY <1>1, <1>2 DEF Next, Stage, IngestAgain, LeaveIt, StartClose, CloseParser, CloseGenerator, vars

\* Its bytes are the same.
LEMMA HashesStay ==
    ASSUME FilesInv, [Next]_vars
    PROVE  \A path \in Paths : FileOf(files', path).hash = FileOf(files, path).hash
<1>1. \A f : DOMAIN f = FileFields => Gone(f).hash = f.hash
  BY DEF Gone, FileFields
<1>2. \A f \in ToSet(files) : DOMAIN f = FileFields
  BY DEF FilesInv, IsFile
<1> QED BY <1>1, <1>2, FilesStay

\* No two of the files that are still to be parsed have the same bytes.
Distinguished(batch, paths) ==
    \A i, j \in DOMAIN paths :
        FileOf(batch, paths[i]).hash = FileOf(batch, paths[j]).hash => i = j

DistinctTodo == Distinguished(files, todo)

\* Validation makes it so, and no step undoes it.
LEMMA DistinctStep ==
    ASSUME FilesInv, Kept, DistinctTodo, [Next]_vars
    PROVE  DistinctTodo'
<1>1. CASE UNCHANGED todo
  <2>1. \A i \in DOMAIN todo : todo[i] \in Paths
    BY DEF Kept
  <2>2. \A i \in DOMAIN todo : FileOf(files', todo[i]).hash = FileOf(files, todo[i]).hash
    BY <2>1, HashesStay
  <2> QED BY <1>1, <2>2 DEF DistinctTodo, Distinguished
<1>2. CASE todo' = <<>>
  <2>1. DOMAIN todo' = {}
    BY <1>2
  <2> QED BY <2>1 DEF DistinctTodo, Distinguished
<1>3. CASE ValidateFiles /\ todo' = ValidPaths(files) /\ files' = files
  <2>1. PICK at : Accepted(ValidPaths(files), files, at)
    BY AcceptedPaths DEF FilesInv
  <2>2. ASSUME NEW i \in DOMAIN ValidPaths(files)
        PROVE  FileOf(files, ValidPaths(files)[i]) = files[at[i]]
    <3>1. at[i] \in DOMAIN files /\ ValidPaths(files)[i] = files[at[i]].path
      BY <2>1, <2>2 DEF Accepted
    <3>2. files[at[i]] \in ToSet(files)
      BY <3>1 DEF ToSet
    <3> QED BY <3>1, <3>2, PathNamesFile DEF FilesInv
  <2>3. Distinguished(files, ValidPaths(files))
    BY <2>1, <2>2 DEF Distinguished, Accepted
  <2> QED BY <1>3, <2>3 DEF DistinctTodo
<1>4. CASE Collect /\ files' = files
  <2>1. todo' = Tail(todo) /\ todo # <<>>
    BY <1>4 DEF Collect, Kept, AtFile
  <2>2. PICK n \in Nat : n = Len(todo) /\ n # 0 /\ DOMAIN todo = 1..n
    BY <2>1 DEF Kept
  <2>3. DOMAIN todo' = 1..(n - 1) /\ \A i \in 1..(n - 1) : todo'[i] = todo[i + 1] /\ i + 1 \in 1..n
    BY <2>1, <2>2 DEF Kept
  <2>4. ASSUME NEW i \in 1..(n - 1), NEW j \in 1..(n - 1),
               FileOf(files, todo'[i]).hash = FileOf(files, todo'[j]).hash
        PROVE  i + 1 = j + 1
    <3>1. /\ todo'[i] = todo[i + 1] /\ i + 1 \in DOMAIN todo
          /\ todo'[j] = todo[j + 1] /\ j + 1 \in DOMAIN todo
      BY <2>2, <2>3
    <3> QED BY <2>4, <3>1 DEF DistinctTodo, Distinguished
  <2>5. \A i, j \in 1..(n - 1) : i + 1 = j + 1 => i = j
    OBVIOUS
  <2> QED BY <1>4, <2>3, <2>4, <2>5 DEF DistinctTodo, Distinguished
<1>5. ASSUME Stage, ~ValidateFiles, ~Collect PROVE todo' = todo \/ todo' = <<>>
  BY <1>5 DEF Stage, TakeParser, Parse, NormalizeBlocks, DeduplicateBlocks, Chunk,
       PrepareEmbeddings, TakeGenerator, LookupCache, EmbedBatch, Attach, DropDuplicates,
       IndexChunks, Audit, Raise, document
<1>6. ASSUME ValidateFiles PROVE todo' = ValidPaths(files) \/ todo' = <<>>
  BY <1>6 DEF ValidateFiles, Raise
<1> QED
  BY <1>1, <1>2, <1>3, <1>4, <1>5, <1>6 DEF Next, Stage, IngestAgain, LeaveIt, StartClose,
     CloseParser, CloseGenerator, LoseFile, vars, document

----------------------------------------------------------------------------
(* Directories *)

\* With k of the places in 1..n in rising order, the first m of them are as many.
LEMMA PlacesCounted ==
    ASSUME NEW n \in Nat, NEW k \in Nat, NEW at \in [1..k -> 1..n],
           \A l, m \in 1..k : l < m => at[l] < at[m], NEW m \in 1..k
    PROVE  Cardinality({j \in 1..at[m] : \E l \in 1..k : at[l] = j}) = m
<1> DEFINE first == {j \in 1..at[m] : \E l \in 1..k : at[l] = j}
           place == [l \in 1..m |-> at[l]]
<1>1. \A l \in 1..k : at[l] \in 1..n /\ at[l] \in Int
  OBVIOUS
<1>2. \A l, q \in 1..k : at[l] = at[q] => l = q
  BY <1>1, RisingIsInjective
<1>3. \A l \in 1..k : at[l] <= at[m] <=> l <= m
  <2> SUFFICES ASSUME NEW l \in 1..k PROVE at[l] <= at[m] <=> l <= m
    OBVIOUS
  <2>1. l < m \/ l = m \/ m < l
    OBVIOUS
  <2>2. at[l] \in Int /\ at[m] \in Int
    BY <1>1
  <2> QED BY <2>1, <2>2
<1>4. place \in [1..m -> first]
  <2> SUFFICES ASSUME NEW l \in 1..m PROVE at[l] \in first
    OBVIOUS
  <2>1. l \in 1..k /\ l <= m
    OBVIOUS
  <2>2. at[l] \in 1..at[m]
    BY <1>1, <1>3, <2>1
  <2> QED BY <2>1, <2>2
<1>5. \A l, q \in 1..m : place[l] = place[q] => l = q
  BY <1>2
<1>6. \A j \in first : \E l \in 1..m : place[l] = j
  <2> SUFFICES ASSUME NEW j \in first PROVE \E l \in 1..m : place[l] = j
    OBVIOUS
  <2>1. PICK l \in 1..k : at[l] = j
    OBVIOUS
  <2>2. at[l] <= at[m]
    BY <1>1, <2>1
  <2>3. l \in 1..m
    BY <1>3, <2>2
  <2> QED BY <2>1, <2>3
<1>7. ExistsBijection(1..m, first)
  <2> HIDE DEF place, first
  <2>1. place \in Bijection(1..m, first)
    BY <1>4, <1>5, <1>6 DEF Bijection, Injection, Surjection, IsInjective
  <2> QED BY <2>1 DEF ExistsBijection
<1>8. IsFiniteSet(1..m) /\ Cardinality(1..m) = m
  <2>1. 1 \in Int /\ m \in Int /\ 1 <= m
    OBVIOUS
  <2>2. IsFiniteSet(1..m) /\ Cardinality(1..m) = m - 1 + 1
    BY ONLY <2>1, FS_Interval
  <2> QED BY <2>2
<1> HIDE DEF first
<1>9. Cardinality(first) = m
  BY <1>7, <1>8, FS_Bijection
<1> QED BY <1>9 DEF first

\* load_candidates answers for every entry of a directory what the entries that
\* resolve decide among themselves.
LEMMA CandidatesAnswered ==
    ASSUME NEW batch, batch \in Seq(ToSet(batch)), NEW i \in DOMAIN batch
    PROVE  LET loaded == LoadCandidates(batch)
               Resolves(j) == ResolveError(batch[j]) = ""
           IN /\ loaded[i].path = batch[i].path
              /\ loaded[i].ready <=>
                   /\ Resolves(i) /\ ValidateOne(batch[i]).valid
                   /\ \A j \in 1..(i - 1) : Resolves(j) => batch[j].hash # batch[i].hash
<1>1. PICK n \in Nat : n = Len(batch) /\ DOMAIN batch = 1..n
  OBVIOUS
<1> DEFINE resolves(j) == ResolveError(batch[j]) = ""
           resolving == {f \in ToSet(batch) : ResolveError(f) = ""}
           resolved == Among(batch, resolving)
           results == ValidateMany(resolved)
           position == Cardinality({j \in 1..i : resolves(j)})
<1>2. LoadCandidates(batch)[i] = IF resolves(i) THEN Loaded(batch[i], results[position])
                                 ELSE FailedEntry(batch[i])
  BY DEF LoadCandidates, Those
<1>3. LoadCandidates(batch)[i].path = batch[i].path
  <2>1. \A r : Loaded(batch[i], r).path = batch[i].path
    BY DEF Loaded
  <2>2. FailedEntry(batch[i]).path = batch[i].path
    BY DEF FailedEntry
  <2> QED BY <1>2, <2>1, <2>2
<1>4. CASE ~resolves(i)
  <2>1. FailedEntry(batch[i]).ready = FALSE
    BY DEF FailedEntry
  <2>2. LoadCandidates(batch)[i] = FailedEntry(batch[i])
    BY <1>2, <1>4
  <2>3. ~LoadCandidates(batch)[i].ready
    BY <2>1, <2>2
  <2> QED BY <1>3, <1>4, <2>3
<1>5. CASE resolves(i)
  <2>2. resolved \in Seq(ToSet(batch)) /\ \E at : Picked(resolved, batch, resolving, at)
    BY AmongPicks
  <2> HIDE DEF resolved
  <2>3. PICK at : Picked(resolved, batch, resolving, at)
    BY <2>2
  <2>0. resolved \in Seq(ToSet(batch))
    BY <2>2
  <2>4. PICK k \in Nat : k = Len(resolved) /\ DOMAIN resolved = 1..k
    BY <2>0
  <2>5. /\ at \in [1..k -> 1..n]
        /\ \A l, m \in 1..k : l < m => at[l] < at[m]
        /\ \A m \in 1..k : resolved[m] = batch[at[m]] /\ resolves(at[m])
        /\ \A j \in 1..n : resolves(j) => \E m \in 1..k : at[m] = j
    BY <1>1, <2>3, <2>4 DEF Picked, ToSet
  <2> HIDE DEF resolves
  <2>6. PICK m \in 1..k : at[m] = i
    BY <1>1, <1>5, <2>5
  <2>7. position = m
    <3>1. i \in 1..n
      BY <1>1
    <3>2. ASSUME NEW j \in 1..i PROVE resolves(j) <=> \E l \in 1..k : at[l] = j
      <4>1. j \in 1..n
        BY <3>1
      <4> QED BY <2>5, <4>1
    <3>3. {j \in 1..i : resolves(j)} = {j \in 1..at[m] : \E l \in 1..k : at[l] = j}
      BY <2>6, <3>2
    <3>4. Cardinality({j \in 1..at[m] : \E l \in 1..k : at[l] = j}) = m
      <4>1. /\ n \in Nat /\ k \in Nat /\ at \in [1..k -> 1..n] /\ m \in 1..k
            /\ \A l, q \in 1..k : l < q => at[l] < at[q]
        BY <1>1, <2>5
      <4> QED BY ONLY <4>1, PlacesCounted
    <3> QED BY <3>3, <3>4
  <2> HIDE DEF position
  <2>8. results[m] = ValidationResult(batch[i], SeenBefore(resolved, m))
    BY <2>4, <2>5, <2>6 DEF ValidateMany
  <2>9. SeenBefore(resolved, m) \in BOOLEAN
    BY DEF SeenBefore
  <2>10. LoadCandidates(batch)[i].ready <=> ValidateOne(batch[i]).valid /\ ~SeenBefore(resolved, m)
    <3>1. LoadCandidates(batch)[i] = Loaded(batch[i], ValidationResult(batch[i], SeenBefore(resolved, m)))
      BY <1>2, <1>5, <2>7, <2>8
    <3>2. \A r : Loaded(batch[i], r).ready = r.valid
      BY DEF Loaded
    <3> QED BY <2>9, <3>1, <3>2, ValidInBatch
  <2>11. ASSUME NEW l \in 1..(m - 1), resolved[l].hash = resolved[m].hash
         PROVE  \E j \in 1..(i - 1) : resolves(j) /\ batch[j].hash = batch[i].hash
    <3>1. l \in 1..k /\ l < m
      OBVIOUS
    <3>2. at[l] \in 1..n /\ at[l] < i
      BY <2>5, <2>6, <3>1
    <3>3. at[l] \in 1..(i - 1)
      BY <1>1, <3>2
    <3> QED BY <2>5, <2>6, <2>11, <3>1, <3>3
  <2>12. ASSUME NEW j \in 1..(i - 1), resolves(j), batch[j].hash = batch[i].hash
         PROVE  SeenBefore(resolved, m)
    <3>1. i \in 1..n /\ j \in 1..n /\ j < i
      BY <1>1
    <3>2. PICK l \in 1..k : at[l] = j
      BY <2>5, <2>12, <3>1
    <3>3. l < m
      <4>1. m < l => i < j
        BY <2>5, <2>6, <3>2
      <4>2. m = l => i = j
        BY <2>6, <3>2
      <4> QED BY <3>1, <4>1, <4>2
    <3>4. l \in 1..(m - 1)
      BY <3>3
    <3> QED BY <2>5, <2>6, <2>12, <3>2, <3>4 DEF SeenBefore
  <2>13. SeenBefore(resolved, m) <=>
            \E j \in 1..(i - 1) : resolves(j) /\ batch[j].hash = batch[i].hash
    BY <2>11, <2>12 DEF SeenBefore
  <2> QED BY <1>3, <1>5, <2>10, <2>13 DEF resolves
<1> QED BY <1>4, <1>5

\* Validation (FileValidationService.validate_many, FileLoadService): of all the
\* files that are still to be parsed no two have the same bytes, even when some
\* of them disappear; and loading a directory accepts an entry if and only if it
\* resolves, is valid by itself, and no entry before it that resolves has its
\* bytes, wherever the entries stand that do not.
THEOREM AcceptedDistinct == Spec => []AcceptedFilesDistinct
<1>1. Init => DistinctTodo
  <2> SUFFICES ASSUME Init PROVE DistinctTodo
    OBVIOUS
  <2>0. todo = <<>>
    BY DEF Init
  <2>1. DOMAIN todo = {}
    BY <2>0
  <2> QED BY <2>1 DEF DistinctTodo, Distinguished
<1>2. Control /\ DistinctTodo /\ [Next]_vars => DistinctTodo'
  BY DistinctStep DEF Control
<1>3. Control /\ DistinctTodo => AcceptedFilesDistinct
  <2> SUFFICES ASSUME Control, DistinctTodo PROVE AcceptedFilesDistinct
    OBVIOUS
  <2>1. files \in Seq(ToSet(files))
    BY DEF Control, FilesInv
  <2> QED BY <2>1, CandidatesAnswered
         DEF DistinctTodo, Distinguished, FileOf, FileAt, AcceptedFilesDistinct
<1> QED BY <1>1, <1>2, <1>3, ControlInvariant, PTL DEF Spec

----------------------------------------------------------------------------
(* Texts and blocks *)

\* The words of a document, the names and numbers the parsers give and the
\* types of blocks.  They are strings all, but the provers know of no literal
\* that it is one, and nothing of ToString.
Token ==
    STRING \cup {ToString(n) : n \in Int}
        \cup {"object", "section", "page", "1", "bytes", "html", "element", "ocr", "list", "item"}
        \cup {"paragraph", "heading", "table", "list_item", "caption", "table_caption",
              "image_caption", "code_block", "divider", "clause", "untitled"}

Text == Seq(Token)

BlockId == [doc : Token, page : Int, order : Int, text : Text]

Block == [id : BlockId, doc : Token, legal : BOOLEAN, type : Token, text : Text, level : Int,
          section : Text, page : Int, order : Int, ocr : BOOLEAN, conf : Int, parse : Int,
          fallback : BOOLEAN, parents : Seq(Text), index : Int]

\* The blocks of a file.
Own(f) == {b \in Block : b.doc = f.stem}

\* A block of typed fields.
LEMMA BlockOfFields ==
    ASSUME NEW id \in BlockId, NEW doc \in Token, NEW legal \in BOOLEAN, NEW type \in Token,
           NEW text \in Text, NEW level \in Int, NEW section \in Text, NEW page \in Int,
           NEW order \in Int, NEW ocr \in BOOLEAN, NEW conf \in Int, NEW parse \in Int,
           NEW fallback \in BOOLEAN, NEW parents \in Seq(Text), NEW index \in Int
    PROVE  [id |-> id, doc |-> doc, legal |-> legal, type |-> type, text |-> text,
            level |-> level, section |-> section, page |-> page, order |-> order,
            ocr |-> ocr, conf |-> conf, parse |-> parse, fallback |-> fallback,
            parents |-> parents, index |-> index] \in Block
BY DEF Block

\* The fields of a block, as far as they are read.
LEMMA FieldsOfBlock ==
    \A b \in Block : /\ b.text \in Text /\ b.section \in Text /\ b.level \in Int
                     /\ b.parents \in Seq(Text) /\ b.page \in Int
BY DEF Block

\* A field of a block may be rewritten, and the block stays with its file.
LEMMA BlockRewritten ==
    \A b \in Block :
        /\ \A x \in Text : [b EXCEPT !.text = x] \in {c \in Block : c.doc = b.doc}
        /\ \A x \in Text : [b EXCEPT !.section = x] \in {c \in Block : c.doc = b.doc}
        /\ \A x \in Token : [b EXCEPT !.type = x] \in {c \in Block : c.doc = b.doc}
        /\ \A x \in Int : [b EXCEPT !.level = x] \in {c \in Block : c.doc = b.doc}
        /\ \A x \in Int : [b EXCEPT !.conf = x] \in {c \in Block : c.doc = b.doc}
        /\ \A x \in Int : [b EXCEPT !.parse = x] \in {c \in Block : c.doc = b.doc}
        /\ \A x \in Int : [b EXCEPT !.index = x] \in {c \in Block : c.doc = b.doc}
        /\ \A x \in BOOLEAN : [b EXCEPT !.ocr = x] \in {c \in Block : c.doc = b.doc}
        /\ \A x \in BOOLEAN : [b EXCEPT !.fallback = x] \in {c \in Block : c.doc = b.doc}
        /\ \A x \in Seq(Text) : [b EXCEPT !.parents = x] \in {c \in Block : c.doc = b.doc}
<1> TAKE b \in Block
<1>1. \A x \in Text : [b EXCEPT !.text = x] \in {c \in Block : c.doc = b.doc}
  BY DEF Block
<1>2. \A x \in Text : [b EXCEPT !.section = x] \in {c \in Block : c.doc = b.doc}
  BY DEF Block
<1>3. \A x \in Token : [b EXCEPT !.type = x] \in {c \in Block : c.doc = b.doc}
  BY DEF Block
<1>4. \A x \in Int : [b EXCEPT !.level = x] \in {c \in Block : c.doc = b.doc}
  BY DEF Block
<1>5. \A x \in Int : [b EXCEPT !.conf = x] \in {c \in Block : c.doc = b.doc}
  BY DEF Block
<1>6. \A x \in Int : [b EXCEPT !.parse = x] \in {c \in Block : c.doc = b.doc}
  BY DEF Block
<1>7. \A x \in Int : [b EXCEPT !.index = x] \in {c \in Block : c.doc = b.doc}
  BY DEF Block
<1>8. \A x \in BOOLEAN : [b EXCEPT !.ocr = x] \in {c \in Block : c.doc = b.doc}
  BY DEF Block
<1>9. \A x \in BOOLEAN : [b EXCEPT !.fallback = x] \in {c \in Block : c.doc = b.doc}
  BY DEF Block
<1>10. \A x \in Seq(Text) : [b EXCEPT !.parents = x] \in {c \in Block : c.doc = b.doc}
  BY DEF Block
<1> QED BY <1>1, <1>2, <1>3, <1>4, <1>5, <1>6, <1>7, <1>8, <1>9, <1>10

\* What the parsers rewrite of a block they built.
LEMMA OwnRewritten ==
    \A f : \A b \in Own(f) :
        /\ \A x \in Token : [b EXCEPT !.type = x] \in Own(f)
        /\ \A x \in Int : [b EXCEPT !.level = x] \in Own(f)
        /\ \A x \in Int : [b EXCEPT !.conf = x] \in Own(f)
        /\ \A x \in Int : [b EXCEPT !.parse = x] \in Own(f)
        /\ \A x \in BOOLEAN : [b EXCEPT !.ocr = x] \in Own(f)
        /\ \A x \in BOOLEAN : [b EXCEPT !.fallback = x] \in Own(f)
BY BlockRewritten DEF Own

\* The block a parser builds.
LEMMA BlockBuilt ==
    ASSUME NEW f, IsFile(f), NEW page \in Int, NEW section \in Text, NEW text \in Text,
           NEW order \in Int
    PROVE  BuildBlock(f, page, section, text, order) \in Own(f)
<1>1. [doc |-> f.stem, page |-> page, order |-> order, text |-> text] \in BlockId
  <2>1. f.stem \in Token
    BY DEF Token, IsFile
  <2> QED BY <2>1 DEF BlockId
<1>2. None \in Int /\ <<>> \in Seq(Text) /\ FALSE \in BOOLEAN /\ "paragraph" \in Token
  BY DEF None, Token
<1>3. f.stem \in STRING /\ f.legal \in BOOLEAN
  BY Zenon DEF IsFile
<1>4. f.stem \in Token
  BY <1>3 DEF Token
<1>5. BuildBlock(f, page, section, text, order) \in Block
  BY <1>1, <1>2, <1>3, <1>4, BlockOfFields, ZenonT(40) DEF BuildBlock
<1> QED BY <1>5 DEF BuildBlock, Own

----------------------------------------------------------------------------
(* Parsers *)

\* What a function on the first n numbers is, n being negative or not.
LEMMA FunctionIsSeq ==
    \A S : \A n \in Int : \A g \in [1..n -> S] : g \in Seq(S)
<1> SUFFICES ASSUME NEW S, NEW n \in Int, NEW g \in [1..n -> S] PROVE g \in Seq(S)
  OBVIOUS
<1>1. CASE n \in Nat
  BY <1>1
<1>2. CASE n \notin Nat
  <2>1. 1..n = 1..0
    BY <1>2
  <2>2. g \in [1..0 -> S] /\ 0 \in Nat
    BY <2>1
  <2> QED BY <2>2
<1> QED BY <1>1, <1>2

\* A list is a function on the first numbers.
LEMMA SeqIsFunction ==
    \A S : \A s \in Seq(S) : Len(s) \in Nat /\ DOMAIN s = 1..Len(s) /\ \A i \in 1..Len(s) : s[i] \in S
OBVIOUS

\* g is a function from the first n numbers to S.
Listing(g, n, S) == DOMAIN g = 1..n /\ g = [i \in 1..n |-> g[i]] /\ \A i \in 1..n : g[i] \in S

\* And a function on the first numbers is a list.
LEMMA ListingIsSeq ==
    \A g, S : \A n \in Nat : Listing(g, n, S) => g \in Seq(S) /\ Len(g) = n
<1> SUFFICES ASSUME NEW S, NEW n \in Nat, NEW g, Listing(g, n, S)
             PROVE  g \in Seq(S) /\ Len(g) = n
  OBVIOUS
<1>1. g \in [1..n -> S]
  BY DEF Listing
<1> QED BY <1>1

\* Building a list place by place.
LEMMA MappedIsSeq ==
    ASSUME NEW R, NEW S, NEW s \in Seq(R), NEW g, DOMAIN g = DOMAIN s,
           g = [i \in DOMAIN s |-> g[i]], \A i \in DOMAIN s : s[i] \in R => g[i] \in S
    PROVE  g \in Seq(S) /\ Len(g) = Len(s)
<1>1. PICK n \in Nat : n = Len(s) /\ DOMAIN s = 1..n /\ \A i \in 1..n : s[i] \in R
  OBVIOUS
<1>2. g \in [1..n -> S]
  BY <1>1
<1> QED BY <1>1, <1>2

\* The words of an item are a text.
LEMMA ItemTexts ==
    /\ Seq(STRING) \subseteq Text
    /\ \A item \in DocumentItem :
        /\ item.text \in Text /\ item.label \in STRING /\ item.level \in Int
        /\ item.page \in Int /\ item.ocr \in BOOLEAN /\ item.conf \in Int
<1>1. Seq(STRING) \subseteq Text
  BY DEF Text, Token
<1>2. \A item \in DocumentItem :
        /\ item.text \in Seq(STRING) /\ item.label \in STRING /\ item.level \in Int
        /\ item.page \in Int /\ item.ocr \in BOOLEAN /\ item.conf \in Int
  BY DEF DocumentItem
<1> QED BY <1>1, <1>2

\* Picking items leaves items.
LEMMA ItemsPicked ==
    ASSUME NEW items \in Seq(DocumentItem)
    PROVE  /\ Visible(items) \in Seq(DocumentItem)
           /\ \A n : OnPage(items, n) \in Seq(DocumentItem)
<1>1. Visible(items) \in Seq(DocumentItem)
  BY AmongPicks DEF Visible, Those
<1> QED BY <1>1, AmongPicks DEF OnPage, Those

\* The texts of items make a text.
LEMMA ItemsRead == ASSUME NEW items \in Seq(DocumentItem) PROVE TextOf(items) \in Text
<1> DEFINE texts == [i \in DOMAIN items |-> items[i].text]
<1>1. texts \in Seq(Text)
  <2>1. \A i \in DOMAIN items : items[i] \in DocumentItem => texts[i] \in Text
    BY ItemTexts
  <2> HIDE DEF texts
  <2>2. DOMAIN texts = DOMAIN items /\ texts = [i \in DOMAIN items |-> texts[i]]
    BY DEF texts
  <2> QED BY <2>1, <2>2, MappedIsSeq
<1>2. FlattenSeq(texts) \in Seq(Token)
  BY <1>1, Filtering!FlattenIsSeq DEF Text, FlattenSeq, Filtering!FlattenSeq
<1> QED BY <1>2 DEF TextOf, Text

\* A name with a number is a text.
LEMMA NumberedText ==
    ASSUME NEW name \in Text, NEW n \in Int PROVE Numbered(name, n) \in Text
<1>1. ToString(n) \in Token
  BY DEF Token
<1> QED BY <1>1 DEF Numbered, Text

\* Names of one word and of two.
LEMMA NamesAreTexts ==
    /\ \A x \in Token : <<x>> \in Text
    /\ \A x, y \in Token : <<x, y>> \in Text
BY DEF Text

\* Words the parsers and normalizers write are tokens.
LEMMA WordsAreTokens ==
    /\ STRING \subseteq Token
    /\ {"object", "section", "page", "1", "bytes", "html", "element", "ocr", "list", "item",
        "paragraph", "heading", "table", "list_item", "caption", "table_caption",
        "image_caption", "code_block", "divider", "clause", "untitled"} \subseteq Token
BY DEF Token

\* Docling: one block for every item that can be seen (Structured).
LEMMA StructuredBlocks == ASSUME NEW f, IsFile(f) PROVE Structured(f) \in Seq(Own(f))
<1> DEFINE items == Visible(f.items)
           blocksOf == [i \in DOMAIN items |-> StructuredBlock(f, items[i], i)]
<1>1. items \in Seq(DocumentItem)
  BY ItemsPicked DEF IsFile
<1>2. PICK n \in Nat : n = Len(items) /\ DOMAIN items = 1..n
  BY <1>1
<1>3. ASSUME NEW item \in DocumentItem, NEW i \in 1..n
      PROVE  StructuredBlock(f, item, i) \in Own(f)
  <2>0. item.label \in Token
    BY ItemTexts, WordsAreTokens
  <2>1. TypeOfLabel(item) \in Token
    <3>1. {"heading", "paragraph", "table_caption", "image_caption", "caption"} \subseteq Token
      BY WordsAreTokens
    <3> QED BY <2>0, <3>1 DEF TypeOfLabel
  <2>2. SectionOfLabel(item) \in Text
    <3>1. "list" \in Token /\ "item" \in Token
      BY WordsAreTokens
    <3>2. <<"list", "item">> \in Text /\ <<item.label>> \in Text
      BY <2>0, <3>1, NamesAreTexts
    <3> QED BY <3>2, ItemTexts DEF SectionOfLabel
  <2>3. PICK b \in Own(f) : b = BuildBlock(f, item.page, SectionOfLabel(item), item.text, i)
    BY <2>2, ItemTexts, BlockBuilt
  <2>4. StructuredBlock(f, item, i) =
            [[[[[b EXCEPT !.type = TypeOfLabel(item)] EXCEPT !.level = item.level]
               EXCEPT !.ocr = item.ocr] EXCEPT !.conf = item.conf] EXCEPT !.parse = item.conf]
    BY <2>3 DEF StructuredBlock
  <2>5. PICK c \in Own(f) : c = [[b EXCEPT !.type = TypeOfLabel(item)] EXCEPT !.level = item.level]
    BY <2>1, ItemTexts, OwnRewritten
  <2>6. PICK d \in Own(f) : d = [[c EXCEPT !.ocr = item.ocr] EXCEPT !.conf = item.conf]
    BY ItemTexts, OwnRewritten
  <2>7. [d EXCEPT !.parse = item.conf] \in Own(f)
    BY ItemTexts, OwnRewritten
  <2> QED BY <2>4, <2>5, <2>6, <2>7
<1>4. blocksOf \in Seq(Own(f))
  <2>1. \A i \in 1..n : items[i] \in DocumentItem
    BY <1>1, <1>2
  <2>2. blocksOf \in [1..n -> Own(f)]
    BY <1>2, <1>3, <2>1
  <2> QED BY <2>2
<1>5. Structured(f) = <<>> \/ Structured(f) = blocksOf
  BY DEF Structured
<1>6. <<>> \in Seq(Own(f))
  OBVIOUS
<1> HIDE DEF blocksOf
<1> QED BY <1>4, <1>5, <1>6

CutTurn(p, parts, item) ==
    IF parts = <<>> \/ item.label = "heading" THEN Append(parts, item.text)
    ELSE [parts EXCEPT ![Len(parts)] = @ \o item.text]

Cutting == INSTANCE SequenceFolds WITH Op <- CutTurn

\* Docling without structure: one block for every section (MarkdownSections).
LEMMA MarkdownBlocks == ASSUME NEW f, IsFile(f) PROVE MarkdownSections(f) \in Seq(Own(f))
<1> DEFINE items == Visible(f.items)
           cut == Cutting!Folded(0, <<>>, items)
           texts == IF items = <<>> THEN <<<<"object">>>> ELSE cut
<1>1. items \in Seq(DocumentItem)
  BY ItemsPicked DEF IsFile
<1>2. Cutting!Closed(Seq(Text), 0, DocumentItem)
  <2> SUFFICES ASSUME NEW parts \in Seq(Text), NEW item \in DocumentItem
               PROVE  CutTurn(0, parts, item) \in Seq(Text)
    BY DEF Cutting!Closed
  <2>1. Append(parts, item.text) \in Seq(Text)
    BY ItemTexts
  <2>2. CASE parts # <<>>
    <3>1. PICK n \in Nat : n = Len(parts) /\ n # 0 /\ DOMAIN parts = 1..n
      BY <2>2
    <3>2. parts[n] \o item.text \in Text
      BY <3>1, ItemTexts DEF Text
    <3>3. [parts EXCEPT ![n] = parts[n] \o item.text] \in Seq(Text)
      BY <3>1, <3>2
    <3> QED BY <2>1, <2>2, <3>1, <3>3 DEF CutTurn
  <2> QED BY <2>1, <2>2 DEF CutTurn
<1>3. cut \in Seq(Text)
  <2>1. <<>> \in Seq(Text)
    OBVIOUS
  <2> QED BY <1>1, <1>2, <2>1, Cutting!FoldClosed
<1>4. texts \in Seq(Text)
  <2>1. "object" \in Token
    BY WordsAreTokens
  <2>2. <<"object">> \in Text
    BY <2>1, NamesAreTexts
  <2>3. <<<<"object">>>> \in Seq(Text)
    BY <2>2
  <2> QED BY <1>3, <2>3
<1>5. MarkdownSections(f) =
        [i \in DOMAIN texts |->
            [BuildBlock(f, i, Numbered(<<"section">>, i), texts[i], 1) EXCEPT
                !.type = "section", !.level = 2]]
  BY DEF MarkdownSections, CutTurn, Cutting!Folded, FoldLeft, MapThenFoldSet, Max,
         Cutting!FoldLeft, Cutting!MapThenFoldSet, Cutting!Max
<1> HIDE DEF texts
<1>6. PICK n \in Nat : n = Len(texts) /\ DOMAIN texts = 1..n /\ \A i \in 1..n : texts[i] \in Text
  BY <1>4
<1>7. ASSUME NEW i \in 1..n
      PROVE  [BuildBlock(f, i, Numbered(<<"section">>, i), texts[i], 1) EXCEPT
                !.type = "section", !.level = 2] \in Own(f)
  <2>0. "section" \in Token /\ 2 \in Int
    BY WordsAreTokens
  <2>1. Numbered(<<"section">>, i) \in Text
    BY <2>0, NamesAreTexts, NumberedText
  <2>2. PICK b \in Own(f) : b = BuildBlock(f, i, Numbered(<<"section">>, i), texts[i], 1)
    BY <1>6, <2>1, BlockBuilt
  <2>3. PICK c \in Own(f) : c = [b EXCEPT !.type = "section"]
    BY <2>0, OwnRewritten
  <2>5. [c EXCEPT !.level = 2] \in Own(f)
    BY <2>0, OwnRewritten
  <2>4. [b EXCEPT !.type = "section", !.level = 2] =
            [[b EXCEPT !.type = "section"] EXCEPT !.level = 2]
    OBVIOUS
  <2> QED BY <2>2, <2>3, <2>4, <2>5
<1>8. MarkdownSections(f) \in [1..n -> Own(f)]
  BY <1>5, <1>6, <1>7
<1> QED BY <1>8

\* PyMuPDF: one block for every page with text.
LEMMA PageBlocks == ASSUME NEW f, IsFile(f) PROVE PdfPages(f) \in Seq(Own(f))
<1> DEFINE numbers == [n \in 1..f.pages |-> n]
           pages == Among(numbers, {n \in ToSet(numbers) : f.layer /\ OnPage(f.items, n) # <<>>})
<1>1. numbers \in Seq(Int)
  <2>1. f.pages \in Int
    BY DEF IsFile
  <2>2. numbers \in [1..f.pages -> Int]
    OBVIOUS
  <2> HIDE DEF numbers
  <2> QED BY <2>1, <2>2, FunctionIsSeq
<1>2. pages \in Seq(Int)
  BY <1>1, AmongPicks
<1>3. PdfPages(f) = [i \in DOMAIN pages |->
            BuildBlock(f, pages[i], Numbered(<<"page">>, pages[i]),
                       TextOf(OnPage(f.items, pages[i])), 1)]
  BY DEF PdfPages, Those
<1> HIDE DEF pages
<1>4. PICK n \in Nat : n = Len(pages) /\ DOMAIN pages = 1..n /\ \A i \in 1..n : pages[i] \in Int
  BY <1>2
<1>5. ASSUME NEW k \in Int
      PROVE  BuildBlock(f, k, Numbered(<<"page">>, k), TextOf(OnPage(f.items, k)), 1) \in Own(f)
  <2>1. Numbered(<<"page">>, k) \in Text
    <3>1. "page" \in Token
      BY WordsAreTokens
    <3> QED BY <3>1, NamesAreTexts, NumberedText
  <2>2. TextOf(OnPage(f.items, k)) \in Text
    BY ItemsPicked, ItemsRead DEF IsFile
  <2> QED BY <2>1, <2>2, BlockBuilt
<1>6. PdfPages(f) \in [1..n -> Own(f)]
  BY <1>3, <1>4, <1>5
<1> QED BY <1>6

\* The text of a file as one block.
LEMMA SoleBlock ==
    ASSUME NEW f, IsFile(f), NEW section \in Text, NEW text \in Text
    PROVE  <<BuildBlock(f, 1, section, text, 1)>> \in Seq(Own(f))
<1>1. 1 \in Int
  OBVIOUS
<1>2. BuildBlock(f, 1, section, text, 1) \in Own(f)
  BY <1>1, BlockBuilt
<1> QED BY <1>2

\* A parser returns its blocks or raises.
LEMMA ResultsOfBlocks ==
    ASSUME NEW f
    PROVE  /\ \A s \in Seq(Own(f)) : Blocks(s).blocks \in Seq(Own(f))
           /\ \A s \in Seq(Own(f)) : \A message : OrRaise(s, message).blocks \in Seq(Own(f))
           /\ \A type, message : Raises(type, message).blocks \in Seq(Own(f))
BY DEF Blocks, OrRaise, Raises

\* PyMuPDF on any file.
LEMMA PymupdfBlocks == ASSUME NEW f, IsFile(f) PROVE PymupdfParse(f).blocks \in Seq(Own(f))
<1>1. PdfPages(f) \in Seq(Own(f))
  BY PageBlocks
<1>2. TextOf(f.items) \in Text
  BY ItemsRead DEF IsFile
<1>3. RecoveredText(f) \in Seq(Own(f))
  <2>1. <<"bytes">> \in Text
    <3>1. "bytes" \in Token
      BY WordsAreTokens
    <3> QED BY <3>1, NamesAreTexts
  <2>2. <<"page", "1">> \in Text
    <3>1. "page" \in Token /\ "1" \in Token
      BY WordsAreTokens
    <3> QED BY <3>1, NamesAreTexts
  <2>3. \A text \in Text : <<BuildBlock(f, 1, <<"page", "1">>, text, 1)>> \in Seq(Own(f))
    BY <2>2, SoleBlock
  <2> QED BY <1>2, <2>1, <2>3 DEF RecoveredText
<1> DEFINE web == <<BuildBlock(f, 1, <<"html">>, TextOf(f.items), 1)>>
<1>4. web \in Seq(Own(f))
  <2>1. <<"html">> \in Text
    <3>1. "html" \in Token
      BY WordsAreTokens
    <3> QED BY <3>1, NamesAreTexts
  <2> QED BY <1>2, <2>1, SoleBlock
<1>5. <<>> \in Seq(Own(f))
  OBVIOUS
<1>6. PymupdfParse(f) =
        IF f.ext \in {"html", "htm"}
        THEN OrRaise(IF TextOf(f.items) = <<>> THEN <<>> ELSE web, "empty html")
        ELSE IF f.content = "pdf" /\ f.pages = None THEN Raises("FileDataError", "cannot open")
        ELSE OrRaise(IF f.content = "pdf" THEN PdfPages(f) ELSE RecoveredText(f),
                     "no extractable text")
  BY DEF PymupdfParse
<1> HIDE DEF web
<1>7. /\ (IF TextOf(f.items) = <<>> THEN <<>> ELSE web) \in Seq(Own(f))
      /\ (IF f.content = "pdf" THEN PdfPages(f) ELSE RecoveredText(f)) \in Seq(Own(f))
  BY <1>1, <1>3, <1>4, <1>5
<1> QED BY <1>6, <1>7, ResultsOfBlocks

\* Unstructured: one block for every item with text.
LEMMA UnstructuredBlocks == ASSUME NEW f, IsFile(f) PROVE UnstructuredParse(f).blocks \in Seq(Own(f))
<1> DEFINE built == [i \in DOMAIN f.items |->
            IF f.items[i].text = <<>> THEN <<>>
            ELSE <<BuildBlock(f, 1, Numbered(<<"element">>, i), f.items[i].text, i)>>]
<1>1. PICK n \in Nat : n = Len(f.items) /\ DOMAIN f.items = 1..n
                       /\ \A i \in 1..n : f.items[i] \in DocumentItem
  BY DEF IsFile
<1>2. ASSUME NEW i \in 1..n PROVE built[i] \in Seq(Own(f))
  <2>1. Numbered(<<"element">>, i) \in Text
    <3>1. "element" \in Token
      BY WordsAreTokens
    <3> QED BY <3>1, NamesAreTexts, NumberedText
  <2>2. BuildBlock(f, 1, Numbered(<<"element">>, i), f.items[i].text, i) \in Own(f)
    BY <1>1, <2>1, ItemTexts, BlockBuilt
  <2> QED BY <1>1, <2>2
<1>3. UnstructuredParse(f) = OrRaise(FlattenSeq(built), "no blocks")
  BY DEF UnstructuredParse
<1>4. DOMAIN built = 1..n /\ built = [i \in 1..n |-> built[i]]
  BY <1>1
<1> HIDE DEF built
<1>5. built \in Seq(Seq(Own(f)))
  <2>1. built \in [1..n -> Seq(Own(f))]
    BY <1>2, <1>4
  <2> QED BY <2>1
<1>6. FlattenSeq(built) \in Seq(Own(f))
  BY <1>5, Filtering!FlattenIsSeq DEF FlattenSeq, Filtering!FlattenSeq
<1> QED BY <1>3, <1>6, ResultsOfBlocks

\* OCR: one block for every line that could be read.
LEMMA OcrBlocks == ASSUME NEW f, IsFile(f) PROVE OcrParse(f).blocks \in Seq(Own(f))
<1>1. ASSUME NEW k \in Int PROVE OcrBlocksOfPage(f, k) \in Seq(Own(f))
  <2> DEFINE lines == OcrLines(f, k)
  <2>1. lines \in Seq(DocumentItem)
    <3>1. OnPage(f.items, k) \in Seq(DocumentItem)
      BY ItemsPicked DEF IsFile
    <3> QED BY <3>1, AmongPicks DEF OcrLines, Those
  <2>2. PICK n \in Nat : n = Len(lines) /\ DOMAIN lines = 1..n
                         /\ \A i \in 1..n : lines[i] \in DocumentItem
    BY <2>1
  <2>3. OcrBlocksOfPage(f, k) =
            [i \in DOMAIN lines |->
                [BuildBlock(f, k, Numbered(<<"ocr", "page">>, k), lines[i].text, i) EXCEPT
                    !.ocr = TRUE, !.conf = lines[i].conf, !.parse = lines[i].conf]]
    BY DEF OcrBlocksOfPage
  <2> HIDE DEF lines
  <2>4. ASSUME NEW i \in 1..n
        PROVE  [BuildBlock(f, k, Numbered(<<"ocr", "page">>, k), lines[i].text, i) EXCEPT
                    !.ocr = TRUE, !.conf = lines[i].conf, !.parse = lines[i].conf] \in Own(f)
    <3>1. Numbered(<<"ocr", "page">>, k) \in Text
      <4>1. "ocr" \in Token /\ "page" \in Token
        BY WordsAreTokens
      <4> QED BY <4>1, NamesAreTexts, NumberedText
    <3>2. PICK b \in Own(f) :
                b = BuildBlock(f, k, Numbered(<<"ocr", "page">>, k), lines[i].text, i)
      BY <2>2, <3>1, ItemTexts, BlockBuilt
    <3>3. lines[i].conf \in Int
      BY <2>2, ItemTexts
    <3>4. PICK c \in Own(f) : c = [[b EXCEPT !.ocr = TRUE] EXCEPT !.conf = lines[i].conf]
      BY <3>3, OwnRewritten
    <3>5. [c EXCEPT !.parse = lines[i].conf] \in Own(f)
      BY <3>3, OwnRewritten
    <3>6. [b EXCEPT !.ocr = TRUE, !.conf = lines[i].conf, !.parse = lines[i].conf] =
            [[[b EXCEPT !.ocr = TRUE] EXCEPT !.conf = lines[i].conf] EXCEPT !.parse = lines[i].conf]
      OBVIOUS
    <3> QED BY <3>2, <3>4, <3>5, <3>6
  <2>5. OcrBlocksOfPage(f, k) \in [1..n -> Own(f)]
    BY <2>2, <2>3, <2>4
  <2> QED BY <2>5
<1> DEFINE count == IF f.ext = "pdf" THEN f.pages ELSE 1
           pages == [n \in 1..count |-> OcrBlocksOfPage(f, n)]
<1>2. count \in Int
  BY DEF IsFile
<1>3. OcrParse(f) = IF f.ext \notin Image \cup {"pdf"} \/ <<>> \in ToSet(pages)
                    THEN Raises("RuntimeError", "no usable text")
                    ELSE OrRaise(FlattenSeq(pages), "no usable text")
  BY DEF OcrParse
<1>4. pages \in Seq(Seq(Own(f)))
  <2> HIDE DEF count
  <2>1. pages \in [1..count -> Seq(Own(f))]
    BY <1>1, <1>2
  <2> HIDE DEF pages
  <2> QED BY <1>2, <2>1, FunctionIsSeq
<1> HIDE DEF pages
<1>5. FlattenSeq(pages) \in Seq(Own(f))
  BY <1>4, Filtering!FlattenIsSeq DEF FlattenSeq, Filtering!FlattenSeq
<1> QED BY <1>3, <1>5, ResultsOfBlocks

\* Every parser of a route returns blocks, if it returns anything.
LEMMA ParsersReturnBlocks ==
    ASSUME NEW f, IsFile(f),
           NEW name \in {"docling", "pymupdf", "unstructured", "ocr_only", "manual_recovery"}
    PROVE  ParserResult(name, f).blocks \in Seq(Own(f))
<1>1. DoclingParse(f).blocks \in Seq(Own(f))
  BY StructuredBlocks, MarkdownBlocks, ResultsOfBlocks DEF DoclingParse
<1> QED BY <1>1, PymupdfBlocks, UnstructuredBlocks, OcrBlocks, ResultsOfBlocks DEF ParserResult


----------------------------------------------------------------------------
(* The chain of parsers *)

ParserNames == {"docling", "pymupdf", "unstructured", "ocr_only", "manual_recovery"}

\* What a parser may have raised: an exception that is classified by its message
\* alone, or a timeout.
IsError(e) ==
    \/ e = <<>>
    \/ e = <<"TimeoutError", "timed out">>
    \/ \E type \in {"RuntimeError", "FileDataError"} : \E message : e = <<type, message>>

\* The parsers raise nothing else.
LEMMA ParsersRaise ==
    \A f : \A name \in ParserNames : IsError(ParserResult(name, f).error)
<1>1. /\ \A s : IsError(Blocks(s).error)
      /\ \A s, message : IsError(OrRaise(s, message).error)
      /\ \A message : IsError(Raises("RuntimeError", message).error)
      /\ \A message : IsError(Raises("FileDataError", message).error)
  BY DEF IsError, Blocks, OrRaise, Raises
<1>2. \A f : IsError(DoclingParse(f).error) /\ IsError(UnstructuredParse(f).error)
  BY <1>1 DEF DoclingParse, UnstructuredParse
<1>3. \A f : IsError(PymupdfParse(f).error) /\ IsError(OcrParse(f).error)
  BY <1>1 DEF PymupdfParse, OcrParse
<1> QED BY <1>1, <1>2, <1>3 DEF ParserResult, ParserNames

\* The route of a file is a list of parsers.
LEMMA RouteIsList == \A f : Select(f).order \in Seq(ParserNames)
<1>1. /\ <<"manual_recovery">> \in Seq(ParserNames)
      /\ <<"pymupdf", "unstructured">> \in Seq(ParserNames)
      /\ <<"ocr_only", "docling", "pymupdf", "unstructured">> \in Seq(ParserNames)
      /\ <<"docling", "ocr_only", "pymupdf", "unstructured">> \in Seq(ParserNames)
      /\ <<"docling", "pymupdf", "unstructured", "ocr_only">> \in Seq(ParserNames)
  BY DEF ParserNames
<1> QED BY <1>1 DEF Select, OcrFirst, Selection

\* Blocks that are named clauses stay blocks of the file.
LEMMA ClausesAreOwn ==
    ASSUME NEW f, NEW parsed \in Seq(Own(f))
    PROVE  [i \in DOMAIN parsed |-> [parsed[i] EXCEPT !.type = "clause"]] \in Seq(Own(f))
<1>1. "clause" \in Token
  BY DEF Token
<1>2. PICK n \in Nat : n = Len(parsed) /\ DOMAIN parsed = 1..n /\ \A i \in 1..n : parsed[i] \in Own(f)
  BY SeqIsFunction
<1>3. \A i \in 1..n : [parsed[i] EXCEPT !.type = "clause"] \in Own(f)
  BY <1>1, <1>2, OwnRewritten
<1>4. [i \in DOMAIN parsed |-> [parsed[i] EXCEPT !.type = "clause"]] \in [1..n -> Own(f)]
  BY <1>2, <1>3
<1> QED BY <1>2, <1>4, FunctionIsSeq

\* Whatever parsers are broken, they return blocks of the file or an error.
LEMMA ResultsAreBlocks ==
    ASSUME NEW f, IsFile(f), NEW broken, NEW quirk, NEW p \in ToSet(Select(f).order)
    PROVE  /\ Results(f, broken, quirk)[p].blocks \in Seq(Own(f))
           /\ IsError(Results(f, broken, quirk)[p].error)
<1>1. p \in ParserNames
  BY RouteIsList DEF ToSet
<1>2. ParserResult(p, f).blocks \in Seq(Own(f)) /\ IsError(ParserResult(p, f).error)
  BY <1>1, ParsersReturnBlocks, ParsersRaise DEF ParserNames
<1>3. <<>> \in Seq(Own(f))
  OBVIOUS
<1>4. /\ Raises("TimeoutError", "timed out").blocks \in Seq(Own(f))
      /\ IsError(Raises("TimeoutError", "timed out").error)
  <2>1. /\ Raises("TimeoutError", "timed out").blocks = <<>>
        /\ Raises("TimeoutError", "timed out").error = <<"TimeoutError", "timed out">>
    BY DEF Raises
  <2> QED BY <1>3, <2>1 DEF IsError
<1>5. \A message : /\ Raises("RuntimeError", message).blocks \in Seq(Own(f))
                   /\ IsError(Raises("RuntimeError", message).error)
  <2>1. \A message : /\ Raises("RuntimeError", message).blocks = <<>>
                     /\ Raises("RuntimeError", message).error = <<"RuntimeError", message>>
    BY DEF Raises
  <2> QED BY <1>3, <2>1 DEF IsError
<1>6. Blocks(<<>>).blocks \in Seq(Own(f)) /\ IsError(Blocks(<<>>).error)
  BY DEF Blocks, IsError
<1> DEFINE parsed == ParserResult(p, f).blocks
           named == [blocks |-> [i \in DOMAIN parsed |-> [parsed[i] EXCEPT !.type = "clause"]],
                     error  |-> ParserResult(p, f).error]
<1>7. Results(f, broken, quirk)[p] \in
        {ParserResult(p, f), named, Raises("TimeoutError", "timed out"), Blocks(<<>>)}
        \cup {Raises("RuntimeError", "not installed"), Raises("RuntimeError", "failed")}
  BY DEF Results
<1>8. named.blocks \in Seq(Own(f)) /\ IsError(named.error)
  BY <1>2, ClausesAreOwn
<1> HIDE DEF named
<1> QED BY <1>2, <1>4, <1>5, <1>6, <1>7, <1>8

\* The least of the places a search may stop at.
LEMMA FirstPlace ==
    ASSUME NEW n \in Nat, NEW I, I \subseteq 1..n, I # {}
    PROVE  Min(I) \in I /\ \A i \in I : Min(I) <= i
<1>1. I \in SUBSET Nat
  OBVIOUS
<1> QED BY <1>1, Filtering!MinOf DEF Min, Filtering!Min

\* Where the chain stops.
LEMMA FirstUsableIs ==
    ASSUME NEW S, NEW order \in Seq(S), NEW result
    PROVE  LET w == FirstUsable(order, result) IN
           \/ w = 0 /\ \A i \in 1..Len(order) : result[order[i]].blocks = <<>>
           \/ /\ w \in 1..Len(order) /\ result[order[w]].blocks # <<>>
              /\ \A i \in 1..(w - 1) : result[order[i]].blocks = <<>>
<1> DEFINE I == {i \in 1..Len(order) : result[order[i]].blocks # <<>>}
<1>1. FirstUsable(order, result) = IF I # {} THEN Min(I) ELSE 0
  BY DEF FirstUsable, SelectInSeq
<1>2. PICK n \in Nat : n = Len(order)
  OBVIOUS
<1>3. I \subseteq 1..n
  BY <1>2
<1>4. CASE I = {}
  BY <1>1, <1>4
<1>5. CASE I # {}
  <2>1. PICK w \in I : w = Min(I) /\ \A i \in I : w <= i
    BY <1>2, <1>3, <1>5, FirstPlace
  <2>2. FirstUsable(order, result) = w
    BY <1>1, <1>5, <2>1
  <2>3. w \in 1..n /\ result[order[w]].blocks # <<>>
    BY <1>2
  <2>4. \A i \in 1..(w - 1) : i \in 1..n /\ i \notin I
    BY <2>1, <2>3
  <2> QED BY <1>2, <2>2, <2>3, <2>4
<1> QED BY <1>4, <1>5

\* What FirstUsableParser says of a file, its report and its blocks.
Reported(f, rep, parsed) ==
    LET attempts == rep.attempts
        n == Len(attempts)
    IN /\ [i \in 1..n |-> attempts[i].parser] = SubSeq(Select(f).order, 1, n)
       /\ \A i \in 1..n : attempts[i].ok <=> i = n
       /\ rep.used = attempts[n].parser
       /\ rep.ocr # "" <=> rep.used = "ocr_only"
       /\ \A b \in ToSet(parsed) :
            b.fallback = (n > 1) /\ b.doc = f.stem /\ b.parse = Head(parsed).parse
       /\ n > 1 /\ attempts[1].reason \notin {"primary_timeout", "primary_empty_output"}
            => FallbackReason(attempts) = attempts[1].reason

\* The score is a number, whatever it is computed of.
LEMMA ConfidenceIsNumber ==
    \A selection, attempts, parsed : Confidence(selection, attempts, parsed) \in Int
<1> TAKE selection, attempts, parsed
<1>1. \A x \in Int : Bound(x) \in Int
  BY DEF Bound
<1> DEFINE a == IF ~selection.ocr THEN 40 ELSE 0
           t == IF \E b \in ToSet(parsed) : b.type = "table" THEN 20 ELSE 0
           l == IF \E b \in ToSet(parsed) : b.level # None THEN 20 ELSE 0
           o == IF selection.ocr THEN 30 ELSE 0
           u == IF UsedFallback(selection, attempts) THEN 20 ELSE 0
<1>2. a \in Int /\ t \in Int /\ l \in Int /\ o \in Int /\ u \in Int
  OBVIOUS
<1>3. Confidence(selection, attempts, parsed) = Bound(30 + a + t + l - o - u)
  BY DEF Confidence
<1> HIDE DEF a, t, l, o, u
<1>4. 30 + a + t + l - o - u \in Int
  BY <1>2
<1> QED BY <1>1, <1>3, <1>4

\* The annotator writes the score and the fallback on every block.
Annotated(parsed, score, back) ==
    [i \in DOMAIN parsed |-> [parsed[i] EXCEPT !.parse = score, !.fallback = back]]

\* The blocks stay those of the file.
LEMMA AnnotatedBlocks ==
    ASSUME NEW f, NEW parsed \in Seq(Own(f)), NEW score \in Int, NEW back \in BOOLEAN
    PROVE  /\ Annotated(parsed, score, back) \in Seq(Own(f))
           /\ Len(Annotated(parsed, score, back)) = Len(parsed)
           /\ \A b \in ToSet(Annotated(parsed, score, back)) :
                b.fallback = back /\ b.doc = f.stem /\ b.parse = score
<1> DEFINE out == Annotated(parsed, score, back)
<1>1. PICK n \in Nat : n = Len(parsed) /\ DOMAIN parsed = 1..n /\ \A i \in 1..n : parsed[i] \in Own(f)
  BY SeqIsFunction
<1>2. ASSUME NEW i \in 1..n
      PROVE  /\ out[i] \in Own(f)
             /\ out[i].fallback = back /\ out[i].doc = f.stem /\ out[i].parse = score
  <2>1. PICK b \in Own(f) : b = parsed[i]
    BY <1>1
  <2>2. out[i] = [[b EXCEPT !.parse = score] EXCEPT !.fallback = back]
    BY <1>1, <2>1 DEF Annotated
  <2>3. PICK c \in Own(f) : c = [b EXCEPT !.parse = score]
    BY OwnRewritten
  <2>4. [c EXCEPT !.fallback = back] \in Own(f)
    BY OwnRewritten
  <2>5. c.parse = score
    BY <2>3 DEF Own, Block
  <2>6. [c EXCEPT !.fallback = back].fallback = back /\ [c EXCEPT !.fallback = back].parse = score
    BY <2>5 DEF Own, Block
  <2>7. out[i] = [c EXCEPT !.fallback = back]
    BY <2>2, <2>3
  <2>8. out[i].doc = f.stem
    BY <2>4, <2>7 DEF Own
  <2> QED BY <2>4, <2>6, <2>7, <2>8
<1>3. DOMAIN out = 1..n /\ out = [i \in 1..n |-> out[i]]
  BY <1>1 DEF Annotated
<1> HIDE DEF out
<1>4. \A i \in 1..n : /\ out[i] \in Own(f)
                       /\ out[i].fallback = back /\ out[i].doc = f.stem /\ out[i].parse = score
  BY <1>2 DEF out
<1>5. out \in Seq(Own(f)) /\ Len(out) = n
  <2>1. Listing(out, n, Own(f))
    BY <1>3, <1>4 DEF Listing
  <2>2. n \in Nat
    BY <1>1
  <2> QED BY <2>1, <2>2, ListingIsSeq, Zenon
<1>6. \A b \in ToSet(out) : \E i \in 1..n : b = out[i]
  BY <1>3 DEF ToSet
<1>7. \A b \in ToSet(out) : b.fallback = back /\ b.doc = f.stem /\ b.parse = score
  BY <1>4, <1>6, Zenon
<1>8. Len(out) = Len(parsed)
  BY <1>1, <1>5
<1> QED BY <1>5, <1>7, <1>8, Zenon DEF out

\* The message of an error is classified as the error was, if it was no timeout
\* and no empty result.
ReasonOf(e) == IF e = <<>> THEN "primary_empty_output" ELSE Classify(e[1], e[2])

MessageOf(e) == IF e = <<>> THEN "returned nothing" ELSE e[2]

Agree(reason, message) ==
    reason \notin {"primary_timeout", "primary_empty_output"}
        => Classify("RuntimeError", message) = reason

\* So it is for every error a parser ends in.
LEMMA ClassifiedAgain == ASSUME NEW e, IsError(e) PROVE Agree(ReasonOf(e), MessageOf(e))
<1> USE DEF ReasonOf, MessageOf, Agree
<1>1. CASE e = <<>>
  BY <1>1 DEF Classify
<1>2. CASE e = <<"TimeoutError", "timed out">>
  <2>1. e # <<>> /\ e[1] = "TimeoutError" /\ e[2] = "timed out"
    BY <1>2
  <2> QED BY <2>1 DEF Classify
<1>3. ASSUME NEW type \in {"RuntimeError", "FileDataError"}, NEW m, e = <<type, m>>
      PROVE  Classify("RuntimeError", MessageOf(e)) = ReasonOf(e)
  <2>1. e # <<>> /\ e[1] = type /\ e[2] = m
    BY <1>3
  <2> QED BY <2>1 DEF Classify
<1> QED BY <1>1, <1>2, <1>3 DEF IsError

\* What an attempt tells of a parser that ended in error e.
FailedWith(a, e) ==
    /\ ~a.ok /\ IsError(e)
    /\ a.reason = ReasonOf(e) /\ a.error[2] = MessageOf(e)

\* Every attempt at a parser that was not usable tells that.
LEMMA AttemptFails ==
    \A p, step, res : res.blocks = <<>> /\ IsError(res.error) =>
        FailedWith(AttemptOf(p, step, res), res.error)
BY DEF AttemptOf, FailedWith, ReasonOf, MessageOf

\* The first of the failures, when the first attempt is one.
LEMMA FirstFailure ==
    ASSUME NEW n \in Nat, NEW attempts, DOMAIN attempts = 1..n, n # 0,
           attempts = [i \in 1..n |-> attempts[i]], ~attempts[1].ok
    PROVE  FallbackReason(attempts) = Classify("RuntimeError", attempts[1].error[2])
<1> DEFINE T == {a \in ToSet(attempts) : ~a.ok}
           failed == Among(attempts, T)
<1>1. attempts \in Seq(ToSet(attempts)) /\ Len(attempts) = n
  <2>1. Listing(attempts, n, ToSet(attempts))
    BY DEF Listing, ToSet
  <2> QED BY <2>1, ListingIsSeq, Zenon
<1>2. PICK at : Picked(failed, attempts, T, at)
  BY <1>1, AmongPicks
<1>3. failed \in Seq(ToSet(attempts))
  BY <1>1, AmongPicks
<1>4. attempts[1] \in T
  BY DEF ToSet
<1> HIDE DEF failed, T
<1>5. PICK k \in Nat : k = Len(failed) /\ DOMAIN failed = 1..k
  BY <1>3, SeqIsFunction, Zenon
<1>6. PICK m \in 1..k : at[m] = 1
  BY <1>2, <1>5, <1>4 DEF Picked
<1>7. m = 1
  <2>1. \A l \in 1..k : at[l] \in 1..n
    BY <1>2, <1>5 DEF Picked
  <2>2. \A l \in 1..k : l < m => at[l] < 1
    BY <1>2, <1>5, <1>6 DEF Picked
  <2> QED BY <1>5, <1>6, <2>1, <2>2
<1>8. failed[1] = attempts[1] /\ failed # <<>>
  <2>1. \A l \in 1..k : failed[l] = attempts[at[l]]
    BY <1>2, <1>5 DEF Picked
  <2>3. failed[1] = attempts[1]
    BY <1>6, <1>7, <2>1
  <2>2. 1 \in DOMAIN failed
    BY <1>5, <1>7
  <2> QED BY <2>2, <2>3
<1>9. FallbackReason(attempts) =
        IF failed = <<>> THEN "" ELSE Classify("RuntimeError", Head(failed).error[2])
  BY DEF FallbackReason, Those, failed, T
<1>10. Head(failed) = failed[1]
  BY <1>3, <1>8
<1> QED BY <1>8, <1>9, <1>10

\* What a chain that found a usable parser reports.
LEMMA ChainReports ==
    ASSUME NEW f, NEW result,
           \A p \in ToSet(Select(f).order) :
                result[p].blocks \in Seq(Own(f)) /\ IsError(result[p].error),
           ~ParseFile(f, result).manual
    PROVE  LET r == ParseFile(f, result) IN r.blocks \in Seq(Own(f)) /\ Reported(f, r, r.blocks)
<1> DEFINE order == Select(f).order
           w == FirstUsable(order, result)
           e == Execute(Select(f), result)
           r == ParseFile(f, result)
           attempts == [i \in 1..w |-> AttemptOf(order[i], i, result[order[i]])]
<1>1. order \in Seq(ParserNames)
  BY RouteIsList
<1>2. PICK n \in Nat : n = Len(order) /\ DOMAIN order = 1..n /\ \A i \in 1..n : order[i] \in ParserNames
  BY <1>1
<1>3. e.manual = (w = 0) /\ r.manual = e.manual
  BY DEF ParseFile, Annotate, Execute, Outcome
<1>4. w # 0
  BY <1>3
<1>5. /\ w \in 1..n /\ result[order[w]].blocks # <<>>
      /\ \A i \in 1..(w - 1) : result[order[i]].blocks = <<>>
  BY <1>1, <1>2, <1>4, FirstUsableIs
<1>6. \A i \in 1..n : order[i] \in ToSet(order)
  BY <1>2 DEF ToSet
<1> DEFINE score == Confidence(e.selection, e.attempts, e.blocks)
           used == order[w]
           raw == result[order[w]].blocks
<1>7. /\ e.attempts = attempts /\ e.blocks = raw /\ e.used = used
      /\ e.fallback = (IF w = 1 THEN "" ELSE used)
      /\ e.ocr = (IF used = "ocr_only" THEN used ELSE "")
  BY <1>4, SMTT(30) DEF Execute, Outcome
<1>8. /\ r.attempts = e.attempts /\ r.used = e.used /\ r.ocr = e.ocr
      /\ r.blocks = [i \in DOMAIN raw |->
                        [raw[i] EXCEPT !.parse = score, !.fallback = (e.fallback # "")]]
  BY <1>7 DEF ParseFile, Annotate, Execute, Outcome
<1>9. raw \in Seq(Own(f))
  BY <1>5, <1>6
<1>10. score \in Int
  BY ConfidenceIsNumber
<1>11. (e.fallback # "") <=> (w # 1)
  <2>1. used # ""
    BY <1>2, <1>5 DEF ParserNames
  <2> QED BY <1>7, <2>1
<1> DEFINE back == e.fallback # ""
<1>12. DOMAIN attempts = 1..w /\ attempts = [i \in 1..w |-> attempts[i]] /\ \A i \in 1..w :
            /\ attempts[i].parser = order[i]
            /\ attempts[i].ok <=> result[order[i]].blocks # <<>>
  BY DEF AttemptOf
<1>13. w > 1 => FailedWith(attempts[1], result[order[1]].error)
  <2> SUFFICES ASSUME w > 1 PROVE FailedWith(attempts[1], result[order[1]].error)
    OBVIOUS
  <2>1. 1 \in 1..w /\ 1 \in 1..n /\ 1 \in 1..(w - 1)
    BY <1>5
  <2>2. result[order[1]].blocks = <<>> /\ IsError(result[order[1]].error)
    BY <1>5, <1>6, <2>1
  <2>3. attempts[1] = AttemptOf(order[1], 1, result[order[1]])
    BY <2>1
  <2> HIDE DEF attempts, order, w
  <2> QED BY <2>2, <2>3, AttemptFails
<1> HIDE DEF order, w, e, r, attempts, score, used, raw, back
<1>14. attempts[w].parser = used
  BY <1>5, <1>12 DEF used
<1>15. /\ r.blocks \in Seq(Own(f)) /\ Len(r.blocks) = Len(raw)
       /\ \A b \in ToSet(r.blocks) : b.fallback = back /\ b.doc = f.stem /\ b.parse = score
  <2>1. r.blocks = Annotated(raw, score, back)
    BY <1>8, Zenon DEF back, Annotated
  <2>2. back \in BOOLEAN
    BY DEF back
  <2>3. /\ Annotated(raw, score, back) \in Seq(Own(f))
        /\ Len(Annotated(raw, score, back)) = Len(raw)
        /\ \A b \in ToSet(Annotated(raw, score, back)) :
                b.fallback = back /\ b.doc = f.stem /\ b.parse = score
    BY <1>9, <1>10, <2>2, AnnotatedBlocks
  <2> QED BY <2>1, <2>3
<1>16. raw # <<>> /\ \A b \in ToSet(r.blocks) : b.parse = Head(r.blocks).parse
  <2>1. raw # <<>>
    BY <1>5 DEF raw
  <2>2. Len(raw) # 0
    BY <1>9, <2>1
  <2>3. r.blocks # <<>> /\ Head(r.blocks) \in ToSet(r.blocks)
    BY <1>15, <2>2 DEF ToSet
  <2> QED BY <1>15, <2>1, <2>3
<1>17. w \in Nat /\ Len(attempts) = w
  BY <1>5, <1>12
<1>18. [i \in 1..w |-> attempts[i].parser] = SubSeq(order, 1, w)
  BY <1>1, <1>2, <1>5, <1>12
<1>19. \A i \in 1..w : attempts[i].ok <=> i = w
  BY <1>5, <1>12
<1>20. r.used = attempts[w].parser /\ (r.ocr # "" <=> r.used = "ocr_only")
  BY <1>7, <1>8, <1>14
<1>21. w > 1 /\ attempts[1].reason \notin {"primary_timeout", "primary_empty_output"}
            => FallbackReason(attempts) = attempts[1].reason
  <2>1. w > 1 => FallbackReason(attempts) = Classify("RuntimeError", attempts[1].error[2])
    <3>1. w > 1 => ~attempts[1].ok
      BY <1>13 DEF FailedWith
    <3> QED BY <1>4, <1>12, <1>17, <3>1, FirstFailure, Zenon
  <2>2. w > 1 => Agree(attempts[1].reason, attempts[1].error[2])
    BY <1>13, ClassifiedAgain DEF FailedWith
  <2> QED BY <2>1, <2>2 DEF Agree
<1>22. \A b \in ToSet(r.blocks) :
            b.fallback = (w > 1) /\ b.doc = f.stem /\ b.parse = Head(r.blocks).parse
  <2>1. back = (w > 1)
    <3>1. w > 1 <=> w # 1
      BY <1>2, <1>5
    <3>2. back \in BOOLEAN /\ (back <=> w # 1)
      BY <1>11 DEF back
    <3> QED BY <3>1, <3>2
  <2> QED BY <1>15, <1>16, <2>1
<1>23. r.attempts = attempts
  BY <1>7, <1>8
<1> QED
  BY <1>15, <1>17, <1>18, <1>19, <1>20, <1>21, <1>22, <1>23 DEF Reported, order, r

\* A file that is lost keeps its route.
LEMMA RouteStays ==
    ASSUME NEW f, IsFile(f)
    PROVE  Gone(f).stem = f.stem /\ Select(Gone(f)) = Select(f)
<1> DEFINE g == Gone(f)
<1>1. /\ g.stem = f.stem /\ g.ext = f.ext /\ g.content = f.content /\ g.magic = f.magic
      /\ g.locked = f.locked /\ g.pages = f.pages /\ g.chars = f.chars /\ g.images = f.images
  BY DEF IsFile, FileFields, Gone
<1> HIDE DEF g
<1>2. Sniff(g) = Sniff(f)
  BY <1>1 DEF Sniff, SignatureMedia
<1>3. DetectedType(g) = DetectedType(f) /\ IsEncryptedPdf(g) = IsEncryptedPdf(f)
  BY <1>1, <1>2 DEF DetectedType, IsEncryptedPdf
<1>4. IsScanned(g) = IsScanned(f) /\ IsImageHeavy(g) = IsImageHeavy(f)
  BY <1>1 DEF IsScanned, IsImageHeavy, HasPageStats
<1>5. Select(g) = Select(f)
  BY <1>3, <1>4 DEF Select
<1> QED BY <1>1, <1>5 DEF g

\* The file at hand.
Current == FileOf(files, Head(todo))

ReportInv == pc = "normalize" => /\ blocks \in Seq(Own(Current))
                                 /\ Reported(Current, report, blocks)

\* The parser chain leaves such a report.
LEMMA ParseReports ==
    ASSUME FilesInv, Kept, Parse, pc' = "normalize"
    PROVE  blocks' \in Seq(Own(Current)) /\ Reported(Current, report', blocks') /\ todo' = todo
<1>1. pc = "parse" /\ todo # <<>> /\ todo \in Seq(Paths)
  BY DEF Parse, Kept, AtFile
<1>2. Head(todo) \in Paths
  BY <1>1
<1>3. Current \in ToSet(files) /\ IsFile(Current)
  BY <1>2, PathNamesFile DEF FilesInv, Paths, Current
<1>4. FileAt(Head(todo)) = Current
  BY DEF FileAt, FileOf, Current
<1>5. PICK broken, quirk :
        LET result == ParseFile(Current, Results(Current, broken, quirk)) IN
        ~result.manual /\ report' = result /\ blocks' = result.blocks /\ todo' = todo
  BY <1>4 DEF Parse, Raise
<1>6. \A p \in ToSet(Select(Current).order) :
        /\ Results(Current, broken, quirk)[p].blocks \in Seq(Own(Current))
        /\ IsError(Results(Current, broken, quirk)[p].error)
  BY <1>3, ResultsAreBlocks
<1> QED BY <1>5, <1>6, ChainReports

\* A report stays true of a file that is lost after it was parsed.
LEMMA ReportStays ==
    ASSUME NEW f, IsFile(f), NEW rep, NEW parsed, parsed \in Seq(Own(f)), Reported(f, rep, parsed)
    PROVE  parsed \in Seq(Own(Gone(f))) /\ Reported(Gone(f), rep, parsed)
<1>1. Own(Gone(f)) = Own(f)
  BY RouteStays DEF Own
<1>2. Reported(Gone(f), rep, parsed) <=> Reported(f, rep, parsed)
  BY RouteStays DEF Reported
<1> QED BY <1>1, <1>2

\* Every step keeps it.
LEMMA ReportStep ==
    ASSUME FilesInv, Kept, ReportInv, [Next]_vars
    PROVE  ReportInv'
<1> SUFFICES ASSUME pc' = "normalize"
             PROVE  blocks' \in Seq(Own(Current')) /\ Reported(Current', report', blocks')
  BY DEF ReportInv
<1>1. CASE Parse /\ UNCHANGED files
  <2>1. /\ blocks' \in Seq(Own(Current)) /\ Reported(Current, report', blocks')
        /\ todo' = todo
    BY <1>1, ParseReports
  <2>2. Current' = Current
    BY <1>1, <2>1 DEF Current
  <2> QED BY <2>1, <2>2
<1>2. CASE UNCHANGED <<pc, document>>
  <2>1. pc = "normalize" /\ todo # <<>> /\ todo \in Seq(Paths)
    BY <1>2 DEF Kept, AtFile
  <2>2. Head(todo) \in Paths
    BY <2>1
  <2>3. Current \in ToSet(files) /\ Current' \in {Current, Gone(Current)}
    <3>1. FileOf(files', Head(todo)) = Current'
      BY <1>2 DEF Current, document
    <3> QED BY <2>2, <3>1, FilesStay DEF Current
  <2>4. IsFile(Current)
    BY <2>3 DEF FilesInv
  <2>5. blocks \in Seq(Own(Current)) /\ Reported(Current, report, blocks)
    BY <2>1 DEF ReportInv
  <2>6. blocks \in Seq(Own(Gone(Current))) /\ Reported(Gone(Current), report, blocks)
    BY <2>4, <2>5, ReportStays
  <2>7. blocks' = blocks /\ report' = report
    BY <1>2 DEF document
  <2> QED BY <2>3, <2>5, <2>6, <2>7
<1>3. ASSUME Stage PROVE Parse /\ UNCHANGED files
  BY <1>3 DEF Stage, ValidateFiles, TakeParser, NormalizeBlocks, DeduplicateBlocks, Chunk,
       Collect, PrepareEmbeddings, TakeGenerator, LookupCache, EmbedBatch, Attach, DropDuplicates,
       IndexChunks, Audit, Raise
<1> QED
  BY <1>1, <1>2, <1>3 DEF Next, IngestAgain, LeaveIt, StartClose, CloseParser, CloseGenerator,
     LoseFile, vars

\* It is an invariant.
LEMMA ReportInvariant == Spec => []ReportInv
<1>1. Init => ReportInv
  BY DEF Init, ReportInv
<1>2. Control /\ ReportInv /\ [Next]_vars => ReportInv'
  BY ReportStep DEF Control
<1> QED BY <1>1, <1>2, ControlInvariant, PTL DEF Spec

\* Parsing (ParserChainExecutor, ParserProvenanceAnnotator): whatever parsers
\* are missing, fail, time out or return nothing, and even when the file has
\* been lost since, the result is that of the first usable parser of the route,
\* every attempt before it failed, and the blocks carry the document, one
\* confidence and whether a fallback made them; the reason they carry is that
\* of the first failure, timeouts and empty results excepted.
THEOREM FirstUsableParserWins == Spec => []FirstUsableParser
<1>1. ReportInv => FirstUsableParser
  BY DEF ReportInv, FirstUsableParser, Reported, Current, FileAt, FileOf
<1> QED BY <1>1, ReportInvariant, PTL

----------------------------------------------------------------------------
(* Curation *)

\* The greatest of the places a search may stop at.
LEMMA LastPlace ==
    ASSUME NEW n \in Nat, NEW I, I \subseteq 1..n, I # {}
    PROVE  Max(I) \in I /\ \A i \in I : i <= Max(I)
<1> DEFINE J == {n - i : i \in I}
<1>1. J \in SUBSET Nat /\ J # {}
  <2>1. ASSUME NEW i \in I PROVE n - i \in Nat
    <3>1. i \in 1..n
      OBVIOUS
    <3> QED BY <3>1
  <2> QED BY <2>1
<1>2. PICK m \in J : \A j \in J : m <= j
  BY <1>1, Filtering!MinOf
<1>3. PICK k \in I : m = n - k
  BY <1>2
<1>4. \A i \in I : n - i \in J /\ i \in Int
  OBVIOUS
<1>5. \A i \in I : k >= i
  BY <1>2, <1>3, <1>4, SMTT(30)
<1>6. \E x \in I : \A y \in I : x >= y
  BY <1>5
<1>7. Max(I) \in I /\ \A y \in I : Max(I) >= y
  BY <1>6 DEF Max
<1>8. \A x, y \in I : x >= y <=> y <= x
  OBVIOUS
<1> QED BY <1>7, <1>8

Stack == Seq(Int \X Text)

\* The open sections are the first ones.
LEMMA OpenIsPrefix ==
    ASSUME NEW stack \in Stack, NEW level
    PROVE  OpenSections(stack, level) \in Stack
<1> DEFINE I == {i \in 1..Len(stack) : stack[i][1] < level}
           k == IF I # {} THEN Max(I) ELSE 0
<1>1. OpenSections(stack, level) = SubSeq(stack, 1, k)
  BY DEF OpenSections, SelectLastInSeq
<1>2. Len(stack) \in Nat /\ I \subseteq 1..Len(stack)
  BY DEF Stack
<1> HIDE DEF I
<1>3. k \in 0..Len(stack)
  <2>1. CASE I # {}
    <3>1. Max(I) \in I
      BY <1>2, <2>1, LastPlace
    <3>2. Max(I) \in 1..Len(stack)
      BY <1>2, <3>1
    <3>3. Max(I) \in 0..Len(stack)
      BY <1>2, <3>2
    <3> QED BY <2>1, <3>3
  <2>2. CASE I = {}
    <3>1. k = 0
      BY <2>2
    <3> QED BY <1>2, <3>1
  <2> QED BY <2>1, <2>2
<1> HIDE DEF k
<1> QED BY <1>1, <1>2, <1>3 DEF Stack

\* Their names are texts.
LEMMA NamesOfStack == ASSUME NEW stack \in Stack PROVE Names(stack) \in Seq(Text)
<1>1. Len(stack) \in Nat /\ DOMAIN stack = 1..Len(stack) /\ \A i \in 1..Len(stack) : stack[i] \in Int \X Text
  BY SeqIsFunction, Zenon DEF Stack
<1>2. \A x \in Int \X Text : x[2] \in Text
  OBVIOUS
<1>3. Listing(Names(stack), Len(stack), Text)
  BY <1>1, <1>2 DEF Names, Listing
<1> QED BY <1>1, <1>3, ListingIsSeq, Zenon

\* The words of the default section.
LEMMA DefaultIsText == DefaultSection \in Text
BY ThresholdsAssumption, ItemTexts

\* Cleaning.
LEMMA CleanedBlock == ASSUME NEW b \in Block PROVE CleanArtifacts(b) \in Block
<1> DEFINE text == Those(b.text, LAMBDA t : t \notin Artifacts /\ (t \in Banners => b.legal))
<1>1. text \in Text
  BY FieldsOfBlock, AmongPicks DEF Text, Those
<1>2. CleanArtifacts(b) = b \/ CleanArtifacts(b) = [b EXCEPT !.text = text]
  BY DEF CleanArtifacts
<1> HIDE DEF text
<1> QED BY <1>1, <1>2, BlockRewritten

\* Headings.
LEMMA TitledBlock == ASSUME NEW b \in Block PROVE NormalizeHeading(b) \in Block
<1>1. HeadingText(b) \in Text /\ Either(b.section, DefaultSection) \in Text
  BY FieldsOfBlock, DefaultIsText DEF HeadingText, Either
<1>2. "paragraph" \in Token /\ "heading" \in Token
  BY WordsAreTokens
<1> DEFINE level == IF b.level = None THEN 1 ELSE b.level
           section == Either(b.section, DefaultSection)
<1>3. level \in Int
  BY FieldsOfBlock
<1>4. \/ NormalizeHeading(b) = b
      \/ NormalizeHeading(b) =
            [[[b EXCEPT !.type = "paragraph"] EXCEPT !.text = HeadingText(b)] EXCEPT !.section = section]
      \/ NormalizeHeading(b) =
            [[[[b EXCEPT !.type = "heading"] EXCEPT !.text = HeadingText(b)]
                EXCEPT !.section = HeadingText(b)] EXCEPT !.level = level]
  <2>1. /\ [b EXCEPT !.type = "paragraph"].section = b.section
        /\ [[b EXCEPT !.type = "paragraph"] EXCEPT !.text = HeadingText(b)].section = b.section
    BY DEF Block
  <2>2. [[[b EXCEPT !.type = "heading"] EXCEPT !.text = HeadingText(b)]
            EXCEPT !.section = HeadingText(b)].level = b.level
    BY DEF Block
  <2> QED BY <2>1, <2>2 DEF NormalizeHeading
<1> HIDE DEF level, section
<1>5. PICK c \in Block : c = [[b EXCEPT !.type = "paragraph"] EXCEPT !.text = HeadingText(b)]
  BY <1>1, <1>2, BlockRewritten
<1>6. [c EXCEPT !.section = section] \in Block
  BY <1>1, BlockRewritten DEF section
<1>7. PICK d \in Block : d = [[b EXCEPT !.type = "heading"] EXCEPT !.text = HeadingText(b)]
  BY <1>1, <1>2, BlockRewritten
<1>8. PICK h \in Block : h = [d EXCEPT !.section = HeadingText(b)]
  BY <1>1, BlockRewritten
<1>9. [h EXCEPT !.level = level] \in Block
  BY <1>3, BlockRewritten
<1> QED BY <1>4, <1>5, <1>6, <1>7, <1>8, <1>9

\* The place of a block under the headings.
LEMMA PlacedBlock == ASSUME NEW stack \in Stack, NEW b \in Block PROVE PlaceInSection(stack, b) \in Block
<1>1. Names(OpenSections(stack, b.level)) \in Seq(Text) /\ Names(stack) \in Seq(Text)
  BY OpenIsPrefix, NamesOfStack
<1> DEFINE default == IF stack = <<>> THEN DefaultSection ELSE Last(stack)[2]
           section == Either(b.section, default)
<1>2. section \in Text
  <2>1. stack # <<>> => Last(stack)[2] \in Text
    BY DEF Stack, Last
  <2>2. default \in Text
    BY <2>1, DefaultIsText
  <2> HIDE DEF default
  <2> QED BY <2>2, FieldsOfBlock DEF Either
<1>3. \/ PlaceInSection(stack, b) = [b EXCEPT !.parents = Names(OpenSections(stack, b.level))]
      \/ PlaceInSection(stack, b) = [[b EXCEPT !.parents = Names(stack)] EXCEPT !.section = section]
  <2>1. [b EXCEPT !.parents = Names(stack)].section = b.section
    BY DEF Block
  <2> QED BY <2>1 DEF PlaceInSection
<1> HIDE DEF section
<1>4. PICK c \in Block : c = [b EXCEPT !.parents = Names(stack)]
  BY <1>1, BlockRewritten
<1>5. [c EXCEPT !.section = section] \in Block
  BY <1>2, BlockRewritten
<1> QED BY <1>1, <1>3, <1>4, <1>5, BlockRewritten

\* Code and tables.
LEMMA FormattedBlock ==
    ASSUME NEW b \in Block
    PROVE  /\ NormalizeCode(b) \in Block /\ NormalizeTable(b) \in Block
           /\ \A index \in Int : Enrich(b, index) \in Block
<1>1. NormalizeCode(b) \in Block
  BY WordsAreTokens, BlockRewritten DEF NormalizeCode
<1>2. NormalizeTable(b) \in Block
  <2> DEFINE text == <<Head(b.text), Divider>> \o Tail(b.text)
  <2>1. Divider \in Token
    BY WordsAreTokens DEF Divider
  <2>2. Len(b.text) > 1 => text \in Text
    <3>1. b.text \in Seq(Token)
      BY FieldsOfBlock DEF Text
    <3>2. ASSUME Len(b.text) > 1 PROVE text \in Text
      <4>1. b.text # <<>>
        BY <3>2
      <4>2. Head(b.text) \in Token /\ Tail(b.text) \in Seq(Token)
        BY <3>1, <4>1
      <4>3. <<Head(b.text), Divider>> \in Seq(Token)
        BY <2>1, <4>2
      <4> QED BY <4>2, <4>3 DEF Text
    <3> QED BY <3>2
  <2>3. \/ NormalizeTable(b) = b
        \/ Len(b.text) > 1 /\ NormalizeTable(b) = [b EXCEPT !.text = text]
    BY DEF NormalizeTable
  <2> HIDE DEF text
  <2> QED BY <2>2, <2>3, BlockRewritten
<1>3. \A index \in Int : Enrich(b, index) \in Block
  BY BlockRewritten DEF Enrich
<1> QED BY <1>1, <1>2, <1>3

\* One turn of the loop over the blocks of a document.
NormTurn(p, acc, raw) ==
    LET titled == NormalizeHeading(CleanArtifacts(raw))
        placed == NormalizeTable(NormalizeCode(PlaceInSection(acc.stack, titled)))
    IN [stack |-> StackAfter(acc.stack, titled),
        kept  |-> IF RejectedByOcr(placed) \/ RejectedAsText(placed)
                  THEN acc.kept
                  ELSE Append(acc.kept, Enrich(placed, Len(acc.kept)))]

Norming == INSTANCE SequenceFolds WITH Op <- NormTurn

\* The loop is a fold of it.
LEMMA NormalizeFolds ==
    \A parsed : Normalize(parsed) = Norming!Folded(0, [stack |-> <<>>, kept |-> <<>>], parsed).kept
BY DEF Normalize, NormTurn, Norming!Folded, FoldLeft, MapThenFoldSet, Max,
       Norming!FoldLeft, Norming!MapThenFoldSet, Norming!Max

\* What the loop has.
Normed == [stack : Stack, kept : Seq(Block)]

\* A turn on typed values.
LEMMA NormTurnTyped == \A acc \in Normed, raw \in Block : NormTurn(0, acc, raw) \in Normed
<1> SUFFICES ASSUME NEW acc \in Normed, NEW raw \in Block PROVE NormTurn(0, acc, raw) \in Normed
  OBVIOUS
<1>1. acc.stack \in Stack /\ acc.kept \in Seq(Block)
  BY DEF Normed
<1> DEFINE titled == NormalizeHeading(CleanArtifacts(raw))
           placed == NormalizeTable(NormalizeCode(PlaceInSection(acc.stack, titled)))
<1>2. titled \in Block
  BY CleanedBlock, TitledBlock
<1>3. placed \in Block
  BY <1>1, <1>2, PlacedBlock, FormattedBlock
<1>4. StackAfter(acc.stack, titled) \in Stack
  <2> HIDE DEF titled
  <2>1. <<titled.level, titled.section>> \in Int \X Text
    BY <1>2, FieldsOfBlock
  <2>2. OpenSections(acc.stack, titled.level) \in Seq(Int \X Text)
    BY <1>1, OpenIsPrefix DEF Stack
  <2>3. Append(OpenSections(acc.stack, titled.level), <<titled.level, titled.section>>) \in Seq(Int \X Text)
    BY <2>1, <2>2, AppendProperties
  <2> QED BY <1>1, <2>3 DEF StackAfter, Stack
<1>5. Append(acc.kept, Enrich(placed, Len(acc.kept))) \in Seq(Block)
  <2> HIDE DEF placed
  <2>1. Len(acc.kept) \in Int
    BY <1>1
  <2>2. Enrich(placed, Len(acc.kept)) \in Block
    BY <1>3, <2>1, FormattedBlock
  <2> QED BY <1>1, <2>2, AppendProperties
<1> HIDE DEF titled
<1> QED BY <1>1, <1>4, <1>5 DEF NormTurn, Normed, titled

\* Normalisation returns blocks.
LEMMA NormalizeTyped == \A parsed \in Seq(Block) : Normalize(parsed) \in Seq(Block)
<1> SUFFICES ASSUME NEW parsed \in Seq(Block) PROVE Normalize(parsed) \in Seq(Block)
  OBVIOUS
<1>1. [stack |-> <<>>, kept |-> <<>>] \in Normed
  BY DEF Normed, Stack
<1>2. Norming!Folded(0, [stack |-> <<>>, kept |-> <<>>], parsed) \in Normed
  BY <1>1, NormTurnTyped, Norming!FoldClosed DEF Norming!Closed
<1> QED BY <1>2, NormalizeFolds DEF Normed

----------------------------------------------------------------------------
(* Deduplication *)

\* Order of fractions.
LEMMA FractionsOrdered ==
    ASSUME NEW a \in Nat, NEW b \in Nat, NEW c \in Nat, NEW d \in Nat \ {0}, NEW e \in Nat, NEW f \in Nat,
           a * d <= c * b, c * f <= e * d
    PROVE  a * f <= e * b
<1>1. \A x, y, z \in Nat : x <= y => x * z <= y * z
  OBVIOUS
<1>2. \A x, y \in Nat : x > y => x * d > y * d
  OBVIOUS
<1>3. a * d \in Nat /\ c * b \in Nat /\ c * f \in Nat /\ e * d \in Nat /\ a * f \in Nat /\ e * b \in Nat
  OBVIOUS
<1>4. (a * d) * f <= (c * b) * f /\ (c * f) * b <= (e * d) * b
  BY <1>1, <1>3
<1>5. (a * d) * f = (a * f) * d /\ (c * b) * f = (c * f) * b /\ (e * d) * b = (e * b) * d
  OBVIOUS
<1>6. (a * f) * d <= (e * b) * d
  BY <1>3, <1>4, <1>5
<1> QED BY <1>2, <1>3, <1>6

\* Some fraction is the greatest.
LEMMA GreatestFraction ==
    ASSUME NEW n \in Nat, NEW part, NEW whole,
           \A i \in 1..n : part[i] \in Nat /\ whole[i] \in Nat \ {0}
    PROVE  \A I : I \subseteq 1..n /\ I # {} =>
                \E i \in I : \A j \in I : ~(part[j] * whole[i] > part[i] * whole[j])
<1> DEFINE Best(i, I) == \A j \in I : part[j] * whole[i] <= part[i] * whole[j]
           K == {k \in Nat : k <= n => \A I : I \subseteq 1..k /\ I # {} => \E i \in I : Best(i, I)}
<1>1. 0 \in K
  <2>1. 1..0 = {}
    OBVIOUS
  <2> QED BY <2>1
<1>2. ASSUME NEW k \in 1..n, k - 1 \in K PROVE k \in K
  <2> SUFFICES ASSUME NEW I, I \subseteq 1..k, I # {} PROVE \E i \in I : Best(i, I)
    OBVIOUS
  <2>1. I \ {k} \subseteq 1..(k - 1) /\ k - 1 \in Nat /\ k - 1 <= n /\ k \in Nat
    OBVIOUS
  <2>2. \A i \in 1..n : part[i] * whole[i] <= part[i] * whole[i]
    OBVIOUS
  <2>3. CASE I \ {k} = {}
    <3>1. I = {k}
      BY <2>3
    <3>2. part[k] * whole[k] <= part[k] * whole[k]
      BY <2>2
    <3> QED BY <3>1, <3>2
  <2>4. CASE I \ {k} # {}
    <3>1. PICK m \in I \ {k} : Best(m, I \ {k})
      BY <1>2, <2>1, <2>4
    <3>2. m \in 1..n /\ \A j \in I : j \in 1..n
      OBVIOUS
    <3>3. \A j \in I : j = k \/ j \in I \ {k}
      OBVIOUS
    <3>0. CASE k \notin I
      <4>1. I \ {k} = I
        BY <3>0
      <4> QED BY <3>1, <4>1
    <3>4. CASE part[k] * whole[m] <= part[m] * whole[k]
      <4>1. \A j \in I : part[j] * whole[m] <= part[m] * whole[j]
        BY <3>1, <3>3, <3>4
      <4> QED BY <4>1
    <3>5. CASE k \in I /\ ~(part[k] * whole[m] <= part[m] * whole[k])
      <4>1. k \in I
        BY <3>5
      <4>2. part[m] * whole[k] <= part[k] * whole[m]
        <5>1. part[m] * whole[k] \in Nat /\ part[k] * whole[m] \in Nat
          BY <3>2
        <5> QED BY <3>5, <5>1
      <4>3. ASSUME NEW j \in I PROVE part[j] * whole[k] <= part[k] * whole[j]
        <5>1. CASE j = k
          BY <2>2, <5>1
        <5>2. CASE j # k
          <6>1. part[j] * whole[m] <= part[m] * whole[j]
            BY <3>1, <5>2
          <6>2. /\ part[j] \in Nat /\ whole[j] \in Nat /\ part[m] \in Nat /\ whole[m] \in Nat \ {0}
                /\ part[k] \in Nat /\ whole[k] \in Nat
            BY <3>2
          <6> QED BY <4>2, <6>1, <6>2, FractionsOrdered
        <5> QED BY <5>1, <5>2
      <4> QED BY <4>1, <4>3
    <3> QED BY <3>0, <3>4, <3>5
  <2> QED BY <2>3, <2>4
<1>3. 0..n \subseteq K
  <2> HIDE DEF K
  <2> QED BY <1>1, <1>2, Filtering!UpTo
<1>4. \A I : I \subseteq 1..n /\ I # {} => \E i \in I : Best(i, I)
  <2>1. n \in K /\ n <= n
    BY <1>3
  <2> HIDE DEF Best
  <2> QED BY <2>1
<1> SUFFICES ASSUME NEW I, I \subseteq 1..n, I # {}
             PROVE  \E i \in I : \A j \in I : ~(part[j] * whole[i] > part[i] * whole[j])
  OBVIOUS
<1>5. PICK i \in I : Best(i, I)
  BY <1>4
<1>6. ASSUME NEW j \in I PROVE ~(part[j] * whole[i] > part[i] * whole[j])
  <2>1. part[j] * whole[i] \in Nat /\ part[i] * whole[j] \in Nat
    OBVIOUS
  <2> QED BY <1>5, <2>1
<1> QED BY <1>6

\* The members of a list are finitely many.
LEMMA ListIsFinite == \A S : \A s \in Seq(S) : IsFiniteSet(ToSet(s))
<1> SUFFICES ASSUME NEW S, NEW s \in Seq(S) PROVE IsFiniteSet(ToSet(s))
  OBVIOUS
<1>1. PICK n \in Nat : n = Len(s) /\ DOMAIN s = 1..n
  OBVIOUS
<1>2. IsFiniteSet(1..n)
  BY FS_Interval
<1>3. s \in Surjection(1..n, ToSet(s))
  BY <1>1 DEF ToSet, Surjection
<1> QED BY <1>2, <1>3, FS_Surjection

\* Similarity is a fraction.
LEMMA SimilarityIsFraction ==
    ASSUME NEW b, NEW c, b.text \in Text, c.text \in Text
    PROVE  Similarity(b, c)[1] \in Nat /\ Similarity(b, c)[2] \in Nat \ {0}
<1> DEFINE s == TokenSet(b.text)
           t == TokenSet(c.text)
<1>1. IsFiniteSet(s) /\ IsFiniteSet(t)
  BY ListIsFinite, FS_Subset DEF Text, TokenSet
<1> HIDE DEF s, t
<1>2. IsFiniteSet(s \cup t) /\ IsFiniteSet(s \cap t)
  BY <1>1, FS_Union, FS_Intersection
<1>3. Cardinality(s \cap t) \in Nat /\ Cardinality(s \cup t) \in Nat
  BY <1>2, FS_CardinalityType
<1>4. s \cup t # {} => Cardinality(s \cup t) # 0
  BY <1>2, FS_EmptySet
<1> QED BY <1>3, <1>4 DEF Similarity, s, t

\* A block that is not more alike than another is not alike where that is not.
LEMMA LessAlike ==
    ASSUME NEW b \in Block, NEW c \in Block, NEW d \in Block, NEW percent \in Nat,
           ~MoreAlike(b, d, c), ~Alike(b, c, percent)
    PROVE  ~Alike(b, d, percent)
<1> DEFINE p == Similarity(b, c)[1]
           q == Similarity(b, c)[2]
           r == Similarity(b, d)[1]
           s == Similarity(b, d)[2]
<1>1. p \in Nat /\ q \in Nat \ {0} /\ r \in Nat /\ s \in Nat \ {0}
  BY FieldsOfBlock, SimilarityIsFraction
<1>2. ~(r * q > p * s) /\ ~(p * 100 >= percent * q)
  BY DEF MoreAlike, Alike, AtLeast
<1>3. Alike(b, d, percent) <=> r * 100 >= percent * s
  BY DEF Alike, AtLeast
<1> HIDE DEF p, q, r, s
<1>4. /\ r * q \in Nat /\ p * s \in Nat /\ p * 100 \in Nat
      /\ percent * q \in Nat /\ r * 100 \in Nat /\ percent * s \in Nat
  BY <1>1
<1>5. r * q <= p * s
  BY <1>2, <1>4
<1>6. percent * s <= r * 100 => percent * q <= p * 100
  BY <1>1, <1>5, FractionsOrdered
<1> QED BY <1>2, <1>3, <1>4, <1>6

\* The block that is taken for the nearest is near, if any is, and none is
\* nearer.
LEMMA NearestIsNear ==
    ASSUME NEW b \in Block, NEW kept \in Seq(Block)
    PROVE  LET near == {i \in DOMAIN kept : Alike(b, kept[i], NearDuplicate)} IN
           IF near = {} THEN BestNearDuplicate(b, kept) = 0
           ELSE /\ BestNearDuplicate(b, kept) \in near /\ BestNearDuplicate(b, kept) # 0
                /\ \A j \in near : ~MoreAlike(b, kept[j], kept[BestNearDuplicate(b, kept)])
<1> DEFINE near == {i \in DOMAIN kept : Alike(b, kept[i], NearDuplicate)}
           best == {i \in near : \A j \in near : ~MoreAlike(b, kept[j], kept[i])}
           part == [i \in DOMAIN kept |-> Similarity(b, kept[i])[1]]
           whole == [i \in DOMAIN kept |-> Similarity(b, kept[i])[2]]
<1>1. PICK n \in Nat : n = Len(kept) /\ DOMAIN kept = 1..n /\ \A i \in 1..n : kept[i] \in Block
  BY SeqIsFunction
<1>2. \A i \in 1..n : part[i] \in Nat /\ whole[i] \in Nat \ {0}
  <2> SUFFICES ASSUME NEW i \in 1..n PROVE part[i] \in Nat /\ whole[i] \in Nat \ {0}
    OBVIOUS
  <2>1. b.text \in Text /\ kept[i].text \in Text
    BY <1>1, FieldsOfBlock
  <2> QED BY <1>1, <2>1, SimilarityIsFraction
<1>3. \A i, j \in 1..n : MoreAlike(b, kept[j], kept[i]) <=> part[j] * whole[i] > part[i] * whole[j]
  BY <1>1 DEF MoreAlike
<1>4. near \subseteq 1..n /\ near \subseteq Nat
  BY <1>1
<1>5. BestNearDuplicate(b, kept) = IF near = {} THEN 0 ELSE Min(best)
  BY DEF BestNearDuplicate
<1> HIDE DEF part, whole
<1>6. near # {} => \E i \in near : \A j \in near : ~(part[j] * whole[i] > part[i] * whole[j])
  <2> HIDE DEF near
  <2> QED BY <1>2, <1>4, GreatestFraction
<1>7. near # {} => best # {}
  BY <1>3, <1>4, <1>6
<1>8. best \subseteq near
  OBVIOUS
<1> HIDE DEF near, best
<1>9. near # {} => Min(best) \in best
  BY <1>4, <1>7, <1>8, Filtering!MinOf DEF Min, Filtering!Min
<1>10. near # {} => /\ Min(best) \in near /\ Min(best) # 0
                    /\ \A j \in near : ~MoreAlike(b, kept[j], kept[Min(best)])
  <2>1. 0 \notin 1..n
    OBVIOUS
  <2>2. 0 \notin near
    BY <1>4, <2>1
  <2>3. near # {} => \A j \in near : ~MoreAlike(b, kept[j], kept[Min(best)])
    BY <1>9 DEF best
  <2> QED BY <1>8, <1>9, <2>2, <2>3
<1> QED BY <1>5, <1>10 DEF near

\* What a decision may be.
Methods == {"kept", "exact_hash", "near_duplicate", "repeated_header_footer", "boilerplate"}
Decisions == [method : Methods, of : BlockId \cup {None}]

\* The threshold below which a legal block is kept is a number.
LEMMA LegalSensitiveIsNat == LegalSensitive \in Nat
<1>1. LegalSensitive \in 0..100
  BY ThresholdsAssumption
<1> QED BY <1>1

\* The cases of a decision.
LEMMA DecisionCases ==
    ASSUME NEW b \in Block, NEW recurring, NEW kept \in Seq(Block)
    PROVE  LET d == Decision(b, recurring, kept)
               Near(k) == Alike(b, k, NearDuplicate)
           IN
           /\ d \in Decisions
           /\ d.method = "kept" => \A k \in ToSet(kept) : Near(k) => BypassesAsLegal(b, k)
           /\ d.method \in {"exact_hash", "near_duplicate"} =>
                \E k \in ToSet(kept) : k.id = d.of /\ (k.text = b.text \/ Near(k))
           /\ d.method \notin {"kept", "exact_hash", "near_duplicate"} => Signature(b) \in recurring
<1> DEFINE d == Decision(b, recurring, kept)
           repeats == Signature(b) \in recurring
           exact == SelectInSeq(kept, LAMBDA k : Signature(k) = Signature(b))
           near == BestNearDuplicate(b, kept)
           Near(k) == Alike(b, k, NearDuplicate)
<1>1. PICK n \in Nat : n = Len(kept) /\ DOMAIN kept = 1..n /\ \A i \in 1..n : kept[i] \in Block
  BY SeqIsFunction
<1>2. exact # 0 => exact \in 1..n /\ kept[exact].text = b.text
  <2> DEFINE I == {i \in 1..n : kept[i].text = b.text}
  <2>1. exact = IF I # {} THEN Min(I) ELSE 0
    BY <1>1 DEF SelectInSeq, Signature
  <2>2. I # {} => Min(I) \in I
    <3>1. I \in SUBSET Nat
      OBVIOUS
    <3> HIDE DEF I
    <3> QED BY <3>1, Filtering!MinOf DEF Min, Filtering!Min
  <2> HIDE DEF exact
  <2> QED BY <2>1, <2>2
<1>3. /\ near # 0 => near \in 1..n /\ Near(kept[near])
      /\ near = 0 => \A k \in ToSet(kept) : ~Near(k)
      /\ near # 0 => \A k \in ToSet(kept) : Near(k) => ~MoreAlike(b, k, kept[near])
  <2> DEFINE all == {i \in DOMAIN kept : Alike(b, kept[i], NearDuplicate)}
  <2>1. IF all = {} THEN near = 0
        ELSE near \in all /\ near # 0 /\ \A j \in all : ~MoreAlike(b, kept[j], kept[near])
    BY NearestIsNear
  <2> HIDE DEF near
  <2>2. ASSUME near = 0, NEW k \in ToSet(kept) PROVE ~Near(k)
    BY <2>1, <2>2 DEF ToSet
  <2>3. ASSUME near # 0, NEW k \in ToSet(kept), Near(k) PROVE ~MoreAlike(b, k, kept[near])
    BY <2>1, <2>3 DEF ToSet
  <2> QED BY <1>1, <2>1, <2>2, <2>3
<1>4. \A i \in 1..n : kept[i] \in ToSet(kept) /\ kept[i].id \in BlockId
  BY <1>1 DEF ToSet, Block
<1>5. d = IF repeats /\ IsHeaderCandidate(b) THEN [method |-> "repeated_header_footer", of |-> None]
          ELSE IF repeats /\ IsBoilerplate(b) THEN [method |-> "boilerplate", of |-> None]
          ELSE IF exact # 0 THEN [method |-> "exact_hash", of |-> kept[exact].id]
          ELSE IF near # 0 /\ ~BypassesAsLegal(b, kept[near])
          THEN [method |-> "near_duplicate", of |-> kept[near].id]
          ELSE [method |-> "kept", of |-> None]
  BY DEF Decision, Drop
<1>6. ASSUME near # 0, BypassesAsLegal(b, kept[near]), NEW k \in ToSet(kept), Near(k)
      PROVE  BypassesAsLegal(b, k)
  <2>1. k \in Block /\ kept[near] \in Block
    BY <1>1, <1>3, <1>6 DEF ToSet
  <2>2. ~MoreAlike(b, k, kept[near]) /\ ~Alike(b, kept[near], LegalSensitive)
    BY <1>3, <1>6 DEF BypassesAsLegal
  <2>3. LegalSensitive \in Nat
    BY LegalSensitiveIsNat
  <2>4. ~Alike(b, k, LegalSensitive)
    BY <2>1, <2>2, <2>3, LessAlike
  <2> QED BY <1>6, <2>4 DEF BypassesAsLegal
<1> DEFINE bypasses == near # 0 /\ BypassesAsLegal(b, kept[near])
<1>12. near = 0 \/ bypasses => \A k \in ToSet(kept) : Near(k) => BypassesAsLegal(b, k)
  BY <1>3, <1>6
<1>13. near # 0 /\ ~BypassesAsLegal(b, kept[near]) <=> ~(near = 0 \/ bypasses)
  OBVIOUS
<1> HIDE DEF d, exact, near, Near, repeats, bypasses
<1>7. CASE d = [method |-> "repeated_header_footer", of |-> None] /\ repeats
  BY <1>7 DEF Decisions, Methods, repeats, d, Near
<1>8. CASE d = [method |-> "boilerplate", of |-> None] /\ repeats
  BY <1>8 DEF Decisions, Methods, repeats, d, Near
<1>9. CASE exact # 0 /\ d = [method |-> "exact_hash", of |-> kept[exact].id]
  <2>1. kept[exact] \in ToSet(kept) /\ kept[exact].id \in BlockId /\ kept[exact].text = b.text
    BY <1>2, <1>4, <1>9
  <2>2. d \in Decisions /\ d.method = "exact_hash" /\ d.of = kept[exact].id
    BY <1>9, <2>1 DEF Decisions, Methods
  <2> QED BY <2>1, <2>2 DEF d, Near
<1>10. CASE near # 0 /\ d = [method |-> "near_duplicate", of |-> kept[near].id]
  <2>1. kept[near] \in ToSet(kept) /\ kept[near].id \in BlockId /\ Near(kept[near])
    BY <1>3, <1>4, <1>10
  <2>2. d \in Decisions /\ d.method = "near_duplicate" /\ d.of = kept[near].id
    BY <1>10, <2>1 DEF Decisions, Methods
  <2> QED BY <2>1, <2>2 DEF d, Near
<1>11. CASE (near = 0 \/ bypasses) /\ d = [method |-> "kept", of |-> None]
  <2>1. d \in Decisions /\ d.method = "kept"
    BY <1>11 DEF Decisions, Methods
  <2>2. \A k \in ToSet(kept) : Near(k) => BypassesAsLegal(b, k)
    BY <1>11, <1>12
  <2> QED BY <2>1, <2>2 DEF d, Near
<1> QED BY <1>5, <1>7, <1>8, <1>9, <1>10, <1>11, <1>13

\* One turn of the loop over the normalised blocks.
DedupTurn(recurring, acc, b) ==
    LET d == Decision(b, recurring, acc.kept) IN
    [decisions |-> Append(acc.decisions, d),
     kept |-> IF d.method = "kept" THEN Append(acc.kept, b) ELSE acc.kept]

Deduping == INSTANCE SequenceFolds WITH Op <- DedupTurn

NothingYet == [decisions |-> <<>>, kept |-> <<>>]

\* The loop is a fold of it.
LEMMA DeduplicateFolds ==
    \A list : DeduplicateReport(list) = Deduping!Folded(RepeatedPatterns(list), NothingYet, list)
BY DEF DeduplicateReport, DedupTurn, NothingYet, Deduping!Folded, FoldLeft, MapThenFoldSet, Max,
       Deduping!FoldLeft, Deduping!MapThenFoldSet, Deduping!Max

\* The kept ones among the first n blocks of a list.
KeptOf(list, decisions, n) == {list[j] : j \in {k \in 1..n : decisions[k].method = "kept"}}

\* What the property says of the i-th block.
Justified(list, decisions, recurring, i) ==
    LET b == list[i]
        d == decisions[i]
        earlier == KeptOf(list, decisions, i - 1)
    IN /\ d.method = "kept" =>
            \A k \in earlier : Alike(b, k, NearDuplicate) => BypassesAsLegal(b, k)
       /\ d.method \in {"exact_hash", "near_duplicate"} =>
            \E k \in earlier : k.id = d.of /\ (k.text = b.text \/ Alike(b, k, NearDuplicate))
       /\ d.method \notin {"kept", "exact_hash", "near_duplicate"} => Signature(b) \in recurring

\* Each of the kept blocks is kept again after the ones before it.
KeptAgain(kept, recurring) ==
    \A m \in 1..Len(kept) : Decision(kept[m], recurring, SubSeq(kept, 1, m - 1)).method = "kept"

\* What the loop has after n turns.
Deduplicated(acc, list, recurring, n) ==
    /\ acc.decisions \in Seq(Decisions) /\ Len(acc.decisions) = n
    /\ acc.kept \in Seq(Block)
    /\ ToSet(acc.kept) = KeptOf(list, acc.decisions, n)
    /\ \A i \in 1..n : Justified(list, acc.decisions, recurring, i)
    /\ KeptAgain(acc.kept, recurring)

\* The decisions es go one block further than ds.
Decided(list, ds, es, n, d, recurring) ==
    /\ es \in Seq(Decisions) /\ Len(es) = n + 1 /\ es[n + 1] = d
    /\ \A k \in 0..n : KeptOf(list, es, k) = KeptOf(list, ds, k)
    /\ \A i \in 1..n : Justified(list, ds, recurring, i) => Justified(list, es, recurring, i)
    /\ KeptOf(list, es, n + 1) =
            KeptOf(list, ds, n) \cup (IF d.method = "kept" THEN {list[n + 1]} ELSE {})

\* One more decision leaves the others alone.
LEMMA DecisionAppended ==
    ASSUME NEW list, NEW ds \in Seq(Decisions), NEW n \in Nat, Len(ds) = n, NEW d \in Decisions,
           NEW recurring
    PROVE  Decided(list, ds, Append(ds, d), n, d, recurring)
<1>1. /\ Append(ds, d) \in Seq(Decisions) /\ Len(Append(ds, d)) = n + 1
      /\ Append(ds, d)[n + 1] = d /\ \A i \in 1..n : Append(ds, d)[i] = ds[i]
  BY AppendProperties
<1> DEFINE es == Append(ds, d)
<1> HIDE DEF es
<1>2. \A i \in 1..n : es[i] = ds[i]
  BY <1>1 DEF es
<1>3. ASSUME NEW k \in 0..n PROVE KeptOf(list, es, k) = KeptOf(list, ds, k)
  <2>1. \A j \in 1..k : j \in 1..n
    OBVIOUS
  <2>2. {j \in 1..k : es[j].method = "kept"} = {j \in 1..k : ds[j].method = "kept"}
    BY <1>2, <2>1
  <2> QED BY <2>2 DEF KeptOf
<1>4. ASSUME NEW i \in 1..n, Justified(list, ds, recurring, i) PROVE Justified(list, es, recurring, i)
  <2>1. i - 1 \in 0..n
    OBVIOUS
  <2>2. KeptOf(list, es, i - 1) = KeptOf(list, ds, i - 1) /\ es[i] = ds[i]
    BY <1>2, <1>3, <2>1
  <2> QED BY <1>4, <2>2 DEF Justified
<1>5. KeptOf(list, es, n + 1) = KeptOf(list, ds, n) \cup (IF d.method = "kept" THEN {list[n + 1]} ELSE {})
  <2>1. 1..(n + 1) = (1..n) \cup {n + 1}
    OBVIOUS
  <2>2. es[n + 1] = d
    BY <1>1 DEF es
  <2>3. {j \in 1..(n + 1) : es[j].method = "kept"} =
            {j \in 1..n : ds[j].method = "kept"} \cup (IF d.method = "kept" THEN {n + 1} ELSE {})
    BY <1>2, <2>1, <2>2
  <2> QED BY <2>3 DEF KeptOf
<1> QED BY <1>1, <1>3, <1>4, <1>5 DEF es, Decided

\* One more kept block leaves the ones before it alone.
LEMMA KeptAppended ==
    ASSUME NEW kept \in Seq(Block), NEW b \in Block, NEW recurring,
           KeptAgain(kept, recurring), Decision(b, recurring, kept).method = "kept"
    PROVE  KeptAgain(Append(kept, b), recurring)
<1>1. PICK n \in Nat : n = Len(kept) /\ DOMAIN kept = 1..n
  BY SeqIsFunction
<1>2. /\ Append(kept, b) \in Seq(Block) /\ Len(Append(kept, b)) = n + 1
      /\ Append(kept, b)[n + 1] = b /\ \A m \in 1..n : Append(kept, b)[m] = kept[m]
  BY <1>1, AppendProperties
<1>3. \A m \in 1..(n + 1) : SubSeq(Append(kept, b), 1, m - 1) = SubSeq(kept, 1, m - 1)
  <2> SUFFICES ASSUME NEW m \in 1..(n + 1)
               PROVE  SubSeq(Append(kept, b), 1, m - 1) = SubSeq(kept, 1, m - 1)
    OBVIOUS
  <2>1. \A i \in 1..(m - 1) : i \in 1..n
    OBVIOUS
  <2> QED BY <1>1, <1>2, <2>1
<1>4. SubSeq(kept, 1, (n + 1) - 1) = kept
  BY <1>1
<1> SUFFICES ASSUME NEW m \in 1..(n + 1)
             PROVE  Decision(Append(kept, b)[m], recurring, SubSeq(Append(kept, b), 1, m - 1)).method = "kept"
  BY <1>2 DEF KeptAgain
<1>5. CASE m \in 1..n
  BY <1>1, <1>2, <1>3, <1>5 DEF KeptAgain
<1>6. CASE m = n + 1
  <2>1. SubSeq(Append(kept, b), 1, m - 1) = kept
    BY <1>3, <1>4, <1>6
  <2>2. Append(kept, b)[m] = b
    BY <1>2, <1>6
  <2>3. Decision(b, recurring, kept).method = "kept"
    OBVIOUS
  <2> QED BY ONLY <2>1, <2>2, <2>3, Zenon
<1>7. m \in 1..n \/ m = n + 1
  OBVIOUS
<1> QED BY <1>5, <1>6, <1>7

\* A list grows by the element that is appended.
LEMMA ListGrows ==
    ASSUME NEW S, NEW list \in Seq(S), NEW x \in S
    PROVE  Append(list, x) \in Seq(S) /\ ToSet(Append(list, x)) = ToSet(list) \cup {x}
<1>1. PICK n \in Nat : n = Len(list) /\ DOMAIN list = 1..n
  BY SeqIsFunction
<1>2. /\ Append(list, x) \in Seq(S) /\ Len(Append(list, x)) = n + 1
      /\ Append(list, x)[n + 1] = x /\ \A i \in 1..n : Append(list, x)[i] = list[i]
  BY <1>1, AppendProperties
<1>3. DOMAIN Append(list, x) = 1..(n + 1)
  BY <1>2
<1>4. 1..(n + 1) = (1..n) \cup {n + 1}
  OBVIOUS
<1> DEFINE grown == Append(list, x)
<1> HIDE DEF grown
<1>5. {grown[i] : i \in 1..(n + 1)} = {grown[i] : i \in 1..n} \cup {grown[n + 1]}
  BY ONLY <1>4
<1>6. {grown[i] : i \in 1..n} = {list[i] : i \in 1..n}
  BY <1>2 DEF grown
<1> QED BY <1>1, <1>2, <1>3, <1>5, <1>6 DEF ToSet, grown

\* A turn of the loop.
LEMMA DedupTurnKeeps ==
    ASSUME NEW list \in Seq(Block), NEW recurring, NEW acc, NEW n \in Nat, n + 1 \in DOMAIN list,
           Deduplicated(acc, list, recurring, n)
    PROVE  Deduplicated(DedupTurn(recurring, acc, list[n + 1]), list, recurring, n + 1)
<1> DEFINE b == list[n + 1]
           d == Decision(b, recurring, acc.kept)
           next == DedupTurn(recurring, acc, b)
<1>1. b \in Block
  BY SeqIsFunction
<1>2. /\ acc.decisions \in Seq(Decisions) /\ Len(acc.decisions) = n /\ acc.kept \in Seq(Block)
      /\ ToSet(acc.kept) = KeptOf(list, acc.decisions, n)
      /\ \A i \in 1..n : Justified(list, acc.decisions, recurring, i)
      /\ KeptAgain(acc.kept, recurring)
  BY DEF Deduplicated
<1> HIDE DEF b
<1>3. /\ d \in Decisions
      /\ d.method = "kept" =>
            \A k \in ToSet(acc.kept) : Alike(b, k, NearDuplicate) => BypassesAsLegal(b, k)
      /\ d.method \in {"exact_hash", "near_duplicate"} =>
            \E k \in ToSet(acc.kept) :
                k.id = d.of /\ (k.text = b.text \/ Alike(b, k, NearDuplicate))
      /\ d.method \notin {"kept", "exact_hash", "near_duplicate"} => Signature(b) \in recurring
  BY <1>1, <1>2, DecisionCases
<1>4. /\ next.decisions = Append(acc.decisions, d)
      /\ next.kept = IF d.method = "kept" THEN Append(acc.kept, b) ELSE acc.kept
  BY DEF DedupTurn
<1>5. d.method = "kept" => KeptAgain(Append(acc.kept, b), recurring)
  BY <1>1, <1>2, KeptAppended
<1> HIDE DEF d, next
<1>6. /\ next.decisions \in Seq(Decisions) /\ Len(next.decisions) = n + 1
      /\ next.decisions[n + 1] = d
      /\ \A k \in 0..n : KeptOf(list, next.decisions, k) = KeptOf(list, acc.decisions, k)
      /\ \A i \in 1..n : Justified(list, next.decisions, recurring, i)
      /\ KeptOf(list, next.decisions, n + 1) =
            KeptOf(list, acc.decisions, n) \cup (IF d.method = "kept" THEN {b} ELSE {})
  <2>1. Decided(list, acc.decisions, Append(acc.decisions, d), n, d, recurring)
    BY <1>2, <1>3, DecisionAppended
  <2> QED BY <1>2, <1>4, <2>1 DEF Decided, b
<1>7. next.kept \in Seq(Block) /\ ToSet(next.kept) = KeptOf(list, next.decisions, n + 1)
  <2>1. CASE d.method = "kept"
    <3>1. /\ Append(acc.kept, b) \in Seq(Block)
          /\ ToSet(Append(acc.kept, b)) = ToSet(acc.kept) \cup {b}
      BY <1>1, <1>2, ListGrows
    <3> QED BY <1>2, <1>4, <1>6, <2>1, <3>1
  <2>2. CASE d.method # "kept"
    BY <1>2, <1>4, <1>6, <2>2
  <2> QED BY <2>1, <2>2
<1>8. KeptAgain(next.kept, recurring)
  BY <1>2, <1>4, <1>5
<1>9. Justified(list, next.decisions, recurring, n + 1)
  <2>1. KeptOf(list, next.decisions, (n + 1) - 1) = ToSet(acc.kept)
    BY <1>2, <1>6
  <2>2. list[n + 1] = b
    BY DEF b
  <2> QED BY <1>3, <1>6, <2>1, <2>2 DEF Justified
<1>10. \A i \in 1..(n + 1) : Justified(list, next.decisions, recurring, i)
  <2>1. \A i \in 1..(n + 1) : i \in 1..n \/ i = n + 1
    OBVIOUS
  <2> QED BY <1>6, <1>9, <2>1
<1>11. Deduplicated(next, list, recurring, n + 1)
  BY <1>6, <1>7, <1>8, <1>10 DEF Deduplicated
<1> QED BY <1>11 DEF next, b

\* The loop: what deduplication reports of each block.
LEMMA DeduplicateReports ==
    ASSUME NEW list \in Seq(Block)
    PROVE  Deduplicated(DeduplicateReport(list), list, RepeatedPatterns(list), Len(list))
<1> DEFINE recurring == RepeatedPatterns(list)
           n == Len(list)
           I == [k \in 0..n |-> {acc \in [decisions : Seq(Decisions), kept : Seq(Block)] :
                                    Deduplicated(acc, list, recurring, k)}]
<1>1. n \in Nat /\ DOMAIN list = 1..n
  BY SeqIsFunction
<1>2. \A acc \in [decisions : Seq(Decisions), kept : Seq(Block)] :
        acc.decisions \in Seq(Decisions) /\ acc.kept \in Seq(Block)
  OBVIOUS
<1> HIDE DEF n, recurring
<1>3. NothingYet \in I[0]
  <2>1. NothingYet \in [decisions : Seq(Decisions), kept : Seq(Block)]
    BY DEF NothingYet
  <2>2. NothingYet.decisions = <<>> /\ NothingYet.kept = <<>>
    BY DEF NothingYet
  <2>3. 1..0 = {} /\ Len(<<>>) = 0 /\ ToSet(<<>>) = {}
    BY DEF ToSet
  <2>4. Deduplicated(NothingYet, list, recurring, 0)
    BY <2>2, <2>3 DEF Deduplicated, KeptOf, KeptAgain
  <2> QED BY <1>1, <2>1, <2>4
<1>4. ASSUME NEW k \in 1..n, NEW acc \in I[k - 1] PROVE DedupTurn(recurring, acc, list[k]) \in I[k]
  <2>1. k - 1 \in Nat /\ (k - 1) + 1 = k /\ k - 1 \in 0..n /\ k \in 0..n
    BY <1>1
  <2>2. Deduplicated(acc, list, recurring, k - 1)
    BY <2>1
  <2> DEFINE next == DedupTurn(recurring, acc, list[k])
  <2>3. Deduplicated(next, list, recurring, k)
    BY <1>1, <2>1, <2>2, DedupTurnKeeps
  <2>4. next = [decisions |-> next.decisions, kept |-> next.kept]
    BY DEF DedupTurn
  <2> HIDE DEF next
  <2>5. next.decisions \in Seq(Decisions) /\ next.kept \in Seq(Block)
    BY <2>3 DEF Deduplicated
  <2>6. next \in [decisions : Seq(Decisions), kept : Seq(Block)]
    BY <2>4, <2>5
  <2>7. next \in I[k]
    BY <2>1, <2>3, <2>6
  <2> QED BY <2>7 DEF next
<1> HIDE DEF I
<1>5. Deduping!Inductive(I, recurring, NothingYet, list, n)
  BY <1>1, <1>3, <1>4 DEF Deduping!Inductive
<1>6. Deduping!Folded(recurring, NothingYet, list) \in I[n]
  BY <1>1, <1>5, Deduping!FoldInduction
<1>7. Deduplicated(Deduping!Folded(recurring, NothingYet, list), list, recurring, n)
  BY <1>1, <1>6 DEF I
<1> QED BY <1>7, DeduplicateFolds DEF recurring, n

\* The pages a text heads, in a list of blocks.
HeadedPages(list, s) ==
    {b.page : b \in {c \in {b \in ToSet(list) : IsHeaderCandidate(b)} : Signature(c) = s}}

\* They are finitely many, and no more in a list with fewer blocks.
LEMMA PagesCounted ==
    ASSUME NEW list \in Seq(Block), NEW s
    PROVE  /\ IsFiniteSet(HeadedPages(list, s))
           /\ \A less \in Seq(Block) : ToSet(less) \subseteq ToSet(list) =>
                HeadedPages(less, s) \subseteq HeadedPages(list, s)
<1> DEFINE heads == {c \in {b \in ToSet(list) : IsHeaderCandidate(b)} : Signature(c) = s}
<1>1. IsFiniteSet(heads)
  BY ListIsFinite, FS_Subset
<1> DEFINE page == [b \in heads |-> b.page]
<1>2. HeadedPages(list, s) = {b.page : b \in heads}
  BY DEF HeadedPages
<1>3. page \in Surjection(heads, HeadedPages(list, s))
  <2> HIDE DEF heads
  <2> QED BY <1>2 DEF Surjection
<1>4. IsFiniteSet(HeadedPages(list, s))
  BY <1>1, <1>3, FS_Surjection
<1>5. ASSUME NEW less \in Seq(Block), ToSet(less) \subseteq ToSet(list)
      PROVE  HeadedPages(less, s) \subseteq HeadedPages(list, s)
  BY <1>5 DEF HeadedPages
<1> QED BY <1>4, <1>5

\* What recurs among fewer blocks recurs.
LEMMA FewerRecur ==
    ASSUME NEW list \in Seq(Block), NEW less \in Seq(Block), ToSet(less) \subseteq ToSet(list)
    PROVE  RepeatedPatterns(less) \subseteq RepeatedPatterns(list)
<1>1. \A l : RepeatedPatterns(l) =
        {s \in {Signature(b) : b \in {c \in ToSet(l) : IsHeaderCandidate(c)}} :
            Cardinality(HeadedPages(l, s)) >= RepeatedPages}
  BY DEF RepeatedPatterns, HeadedPages
<1> SUFFICES ASSUME NEW s \in RepeatedPatterns(less) PROVE s \in RepeatedPatterns(list)
  OBVIOUS
<1>2. /\ s \in {Signature(b) : b \in {c \in ToSet(less) : IsHeaderCandidate(c)}}
      /\ Cardinality(HeadedPages(less, s)) >= RepeatedPages
  BY <1>1
<1>3. s \in {Signature(b) : b \in {c \in ToSet(list) : IsHeaderCandidate(c)}}
  BY <1>2
<1>4. /\ IsFiniteSet(HeadedPages(list, s)) /\ IsFiniteSet(HeadedPages(less, s))
      /\ HeadedPages(less, s) \in SUBSET HeadedPages(list, s)
  BY PagesCounted
<1>5. /\ Cardinality(HeadedPages(less, s)) <= Cardinality(HeadedPages(list, s))
      /\ Cardinality(HeadedPages(less, s)) \in Nat /\ Cardinality(HeadedPages(list, s)) \in Nat
  BY <1>4, FS_Subset, FS_CardinalityType
<1>6. RepeatedPages \in Nat
  BY ThresholdsAssumption
<1>7. Cardinality(HeadedPages(list, s)) >= RepeatedPages
  BY <1>2, <1>5, <1>6
<1> QED BY <1>1, <1>3, <1>7

\* What recurs stands on two pages.
LEMMA RecurringOnPages ==
    ASSUME NEW list \in Seq(Block), NEW s \in RepeatedPatterns(list)
    PROVE  \E b, c \in ToSet(list) : b.text = s /\ c.text = s /\ b.page # c.page
<1> DEFINE pages == HeadedPages(list, s)
<1>1. Cardinality(pages) >= RepeatedPages /\ IsFiniteSet(pages)
  BY PagesCounted DEF RepeatedPatterns, HeadedPages
<1>2. RepeatedPages \in Nat /\ RepeatedPages # 0 /\ RepeatedPages # 1
  BY ThresholdsAssumption
<1>3. \A p \in pages : \E b \in ToSet(list) : b.text = s /\ b.page = p
  BY DEF HeadedPages, Signature
<1> HIDE DEF pages
<1>4. \E p, q \in pages : p # q
  <2>1. SUFFICES ASSUME \A p, q \in pages : p = q PROVE FALSE
    OBVIOUS
  <2>2. CASE pages = {}
    BY <1>1, <1>2, <2>2, FS_EmptySet
  <2>3. CASE pages # {}
    <3>1. PICK p \in pages : TRUE
      BY <2>3
    <3>2. pages = {p}
      BY <2>1, <3>1
    <3>3. Cardinality(pages) = 1
      BY <3>2, FS_Singleton
    <3> QED BY <1>1, <1>2, <3>3
  <2> QED BY <2>2, <2>3
<1> QED BY <1>3, <1>4

\* Where less recurs, what was kept is kept.
LEMMA StillKept ==
    ASSUME NEW b, NEW kept, NEW recurring, NEW less \in SUBSET recurring,
           Decision(b, recurring, kept).method = "kept"
    PROVE  Decision(b, less, kept).method = "kept"
<1> DEFINE exact == SelectInSeq(kept, LAMBDA k : Signature(k) = Signature(b))
           near == BestNearDuplicate(b, kept)
<1>1. \A r : Decision(b, r, kept) =
        IF Signature(b) \in r /\ IsHeaderCandidate(b) THEN Drop("repeated_header_footer", None)
        ELSE IF Signature(b) \in r /\ IsBoilerplate(b) THEN Drop("boilerplate", None)
        ELSE IF exact # 0 THEN Drop("exact_hash", kept[exact].id)
        ELSE IF near # 0 /\ ~BypassesAsLegal(b, kept[near])
        THEN Drop("near_duplicate", kept[near].id)
        ELSE [method |-> "kept", of |-> None]
  BY DEF Decision
<1> HIDE DEF exact, near
<1>2. \A m, of : Drop(m, of).method = m
  BY DEF Drop
<1> QED BY <1>1, <1>2

\* Deduplicating what was kept keeps it.
LEMMA DeduplicateAgain ==
    ASSUME NEW kept \in Seq(Block), NEW recurring, KeptAgain(kept, recurring),
           RepeatedPatterns(kept) \subseteq recurring
    PROVE  Deduplicate(kept) = kept
<1> DEFINE less == RepeatedPatterns(kept)
<1>1. PICK n \in Nat : n = Len(kept) /\ DOMAIN kept = 1..n /\ \A i \in 1..n : kept[i] \in Block
  BY SeqIsFunction
<1>2. PICK g : Deduping!Trace(g, less, NothingYet, kept, n)
  BY <1>1, Deduping!FoldTraces
<1>3. less \in SUBSET recurring
  OBVIOUS
<1> HIDE DEF less
<1>4. /\ g[0] = NothingYet
      /\ \A k \in 1..n : g[k] = DedupTurn(less, g[k - 1], kept[k])
      /\ Deduping!Folded(less, NothingYet, kept) = g[n]
  BY <1>2 DEF Deduping!Trace
<1> DEFINE K == {k \in 0..n : g[k].kept = SubSeq(kept, 1, k)}
<1>5. 0 \in K
  <2>1. g[0].kept = <<>>
    BY <1>4 DEF NothingYet
  <2>2. SubSeq(kept, 1, 0) = <<>>
    OBVIOUS
  <2>3. 0 \in 0..n
    OBVIOUS
  <2> QED BY <2>1, <2>2, <2>3
<1>6. ASSUME NEW k \in 1..n, k - 1 \in K PROVE k \in K
  <2>1. g[k - 1].kept = SubSeq(kept, 1, k - 1)
    BY <1>6
  <2>2. Decision(kept[k], recurring, SubSeq(kept, 1, k - 1)).method = "kept"
    BY <1>1 DEF KeptAgain
  <2>3. Decision(kept[k], less, g[k - 1].kept).method = "kept"
    BY <1>3, <2>1, <2>2, StillKept
  <2>4. g[k] = DedupTurn(less, g[k - 1], kept[k])
    BY <1>4
  <2>5. g[k].kept = Append(g[k - 1].kept, kept[k])
    BY <2>3, <2>4 DEF DedupTurn
  <2>6. Append(SubSeq(kept, 1, k - 1), kept[k]) = SubSeq(kept, 1, k)
    BY <1>1
  <2>7. k \in 0..n
    OBVIOUS
  <2> QED BY <2>1, <2>5, <2>6, <2>7
<1>7. 0..n \subseteq K
  <2> HIDE DEF K
  <2> QED BY <1>5, <1>6, Filtering!UpTo
<1>8. g[n].kept = SubSeq(kept, 1, n)
  BY <1>7
<1>9. SubSeq(kept, 1, n) = kept
  BY <1>1
<1> QED BY <1>4, <1>8, <1>9, DeduplicateFolds DEF Deduplicate, less

\* What deduplication promises of a list of blocks.
Unlike(before) ==
    LET decisions == DeduplicateReport(before).decisions
        Earlier(i) == {before[j] : j \in {k \in 1..(i - 1) : decisions[k].method = "kept"}}
    IN /\ Deduplicate(Deduplicate(before)) = Deduplicate(before)
       /\ \A i \in DOMAIN before :
            CASE decisions[i].method = "kept" ->
                    \A k \in Earlier(i) :
                        Alike(before[i], k, NearDuplicate) => BypassesAsLegal(before[i], k)
              [] decisions[i].method \in {"exact_hash", "near_duplicate"} ->
                    \E k \in Earlier(i) :
                        /\ k.id = decisions[i].of
                        /\ k.text = before[i].text \/ Alike(before[i], k, NearDuplicate)
              [] OTHER ->
                    \E b, c \in ToSet(before) : b.text = before[i].text
                        /\ c.text = b.text /\ b.page # c.page

\* It keeps the promise.
LEMMA DeduplicateUnlike == ASSUME NEW before \in Seq(Block) PROVE Unlike(before)
<1> DEFINE done == DeduplicateReport(before)
           recurring == RepeatedPatterns(before)
<1>1. PICK n \in Nat : n = Len(before) /\ DOMAIN before = 1..n
  BY SeqIsFunction
<1>2. Deduplicated(done, before, recurring, n)
  BY <1>1, DeduplicateReports
<1> HIDE DEF done
<1>3. Deduplicate(done.kept) = done.kept
  <2>1. done.kept \in Seq(Block) /\ KeptAgain(done.kept, recurring)
    BY <1>2 DEF Deduplicated
  <2>2. ToSet(done.kept) \subseteq ToSet(before)
    BY <1>1, <1>2 DEF Deduplicated, KeptOf, ToSet
  <2> QED BY <2>1, <2>2, FewerRecur, DeduplicateAgain
<1>4. Deduplicate(Deduplicate(before)) = Deduplicate(before)
  BY <1>3 DEF Deduplicate, done
<1> DEFINE decisions == done.decisions
           Earlier(i) == {before[j] : j \in {k \in 1..(i - 1) : decisions[k].method = "kept"}}
<1>5. ASSUME NEW i \in DOMAIN before
      PROVE  CASE decisions[i].method = "kept" ->
                    \A k \in Earlier(i) :
                        Alike(before[i], k, NearDuplicate) => BypassesAsLegal(before[i], k)
              [] decisions[i].method \in {"exact_hash", "near_duplicate"} ->
                    \E k \in Earlier(i) :
                        /\ k.id = decisions[i].of
                        /\ k.text = before[i].text \/ Alike(before[i], k, NearDuplicate)
              [] OTHER ->
                    \E b, c \in ToSet(before) : b.text = before[i].text
                        /\ c.text = b.text /\ b.page # c.page
  <2>1. Justified(before, decisions, recurring, i)
    BY <1>1, <1>2 DEF Deduplicated
  <2>2. Earlier(i) = KeptOf(before, decisions, i - 1)
    BY DEF KeptOf
  <2> HIDE DEF Earlier, decisions, recurring
  <2>3. Signature(before[i]) \in recurring =>
            \E b, c \in ToSet(before) : b.text = before[i].text /\ c.text = b.text /\ b.page # c.page
    BY RecurringOnPages DEF Signature, recurring
  <2>4. CASE decisions[i].method = "kept"
    BY <2>1, <2>2, <2>4 DEF Justified
  <2>5. CASE decisions[i].method \in {"exact_hash", "near_duplicate"}
    BY <2>1, <2>2, <2>5 DEF Justified
  <2>6. CASE decisions[i].method \notin {"kept", "exact_hash", "near_duplicate"}
    BY <2>1, <2>3, <2>6 DEF Justified
  <2> QED BY <2>4, <2>5, <2>6
<1> QED BY <1>4, <1>5 DEF Unlike, done

\* The blocks of the current document, from stage to stage.
CurationInv ==
    /\ pc = "normalize" => blocks = report.blocks
    /\ pc \in {"deduplicate", "chunk"} => report.blocks \in Seq(Block)
    /\ pc = "deduplicate" => blocks = Normalize(report.blocks)
    /\ pc = "chunk" => blocks = Deduplicate(Normalize(report.blocks))

\* Every step keeps them.
LEMMA CurationStep ==
    ASSUME ReportInv, CurationInv, [Next]_vars
    PROVE  CurationInv'
<1>1. CASE Parse
  BY <1>1 DEF Parse, Raise, CurationInv
<1>2. CASE NormalizeBlocks
  <2>1. blocks \in Seq(Block)
    <3>1. \A s \in Seq(Own(Current)) : s \in Seq(Block)
      <4>1. Own(Current) \subseteq Block
        BY DEF Own
      <4> QED BY <4>1
    <3> QED BY <1>2, <3>1 DEF NormalizeBlocks, ReportInv
  <2> QED BY <1>2, <2>1 DEF NormalizeBlocks, CurationInv
<1>3. CASE DeduplicateBlocks
  BY <1>3 DEF DeduplicateBlocks, CurationInv
<1>4. CASE pc' \notin {"normalize", "deduplicate", "chunk"}
  BY <1>4 DEF CurationInv
<1>5. CASE UNCHANGED <<pc, report, blocks>>
  BY <1>5 DEF CurationInv
<1>6. ASSUME Stage
      PROVE  \/ Parse \/ NormalizeBlocks \/ DeduplicateBlocks
             \/ pc' \notin {"normalize", "deduplicate", "chunk"} \/ UNCHANGED <<pc, report, blocks>>
  BY <1>6 DEF Stage, ValidateFiles, TakeParser, Chunk, Collect, PrepareEmbeddings, TakeGenerator,
       LookupCache, EmbedBatch, Attach, DropDuplicates, IndexChunks, Audit, Raise, document
<1>7. ASSUME \/ IngestAgain \/ LeaveIt \/ StartClose \/ CloseParser \/ CloseGenerator \/ LoseFile
             \/ UNCHANGED vars
      PROVE  pc' \notin {"normalize", "deduplicate", "chunk"} \/ UNCHANGED <<pc, report, blocks>>
  BY <1>7 DEF IngestAgain, LeaveIt, StartClose, CloseParser, CloseGenerator, LoseFile, vars, document
<1> QED BY <1>1, <1>2, <1>3, <1>4, <1>5, <1>6, <1>7 DEF Next

\* They are invariant.
LEMMA CurationInvariant == Spec => []CurationInv
<1>1. Init => CurationInv
  BY DEF Init, CurationInv
<1>2. ReportInv /\ CurationInv /\ [Next]_vars => CurationInv'
  BY CurationStep
<1> QED BY <1>1, <1>2, ReportInvariant, PTL DEF Spec

\* Deduplication (BlockDeduplicator): of any blocks the parsers and the
\* normaliser may return, two that are kept are not near duplicates unless the
\* later one is a clause of a legal document and less than almost equal; one that
\* is dropped is near a kept one before it, which the report names, or its text
\* is on several pages; and the chunker, which deduplicates once more, finds
\* nothing to drop.
THEOREM CuratedAreUnlike == Spec => []CuratedUnlike
<1>1. CurationInv => CuratedUnlike
  <2> SUFFICES ASSUME CurationInv, pc = "chunk" PROVE CuratedUnlike
    BY DEF CuratedUnlike
  <2> DEFINE before == Normalize(report.blocks)
  <2>1. before \in Seq(Block) /\ blocks = Deduplicate(before)
    BY NormalizeTyped DEF CurationInv
  <2>2. Unlike(before)
    BY <2>1, DeduplicateUnlike
  <2> HIDE DEF before
  <2>3. Deduplicate(blocks) = blocks
    BY <2>1, <2>2 DEF Unlike
  <2> QED BY <2>2, <2>3 DEF CuratedUnlike, Unlike, before
<1> QED BY <1>1, CurationInvariant, PTL

----------------------------------------------------------------------------
(* Sections *)

\* f goes through the numbers of S in order.
Rising(f, n, S) ==
    /\ \A m \in 1..n : f[m] \in S
    /\ \A l, m \in 1..n : l < m => f[l] < f[m]
    /\ \A i \in S : \E m \in 1..n : f[m] = i

\* f and g agree on the first n numbers.
Coincide(f, g, n) == \A i \in 1..n : f[i] = g[i]

\* There is but one way to do that.
LEMMA RisingIsUnique ==
    ASSUME NEW S, S \subseteq Int, NEW f, NEW g, NEW m \in Nat, NEW n \in Nat,
           Rising(f, m, S), Rising(g, n, S)
    PROVE  m = n /\ Coincide(f, g, n)
<1>1. /\ \A i \in 1..m : f[i] \in S /\ f[i] \in Int
      /\ \A k, i \in 1..m : k < i => f[k] < f[i]
      /\ \A x \in S : \E i \in 1..m : f[i] = x
  BY DEF Rising
<1>2. /\ \A i \in 1..n : g[i] \in S /\ g[i] \in Int
      /\ \A k, i \in 1..n : k < i => g[k] < g[i]
      /\ \A x \in S : \E i \in 1..n : g[i] = x
  BY DEF Rising
<1> DEFINE K == {k \in Nat : k <= m /\ k <= n => \A i \in 1..k : f[i] = g[i]}
<1>3. 0 \in K
  OBVIOUS
<1>4. ASSUME NEW k \in 1..n, k - 1 \in K PROVE k \in K
  <2> SUFFICES ASSUME k <= m PROVE \A i \in 1..k : f[i] = g[i]
    OBVIOUS
  <2>1. \A i \in 1..(k - 1) : f[i] = g[i]
    BY <1>4
  <2>2. k \in 1..m /\ \A i \in 1..k : i \in 1..(k - 1) \/ i = k
    OBVIOUS
  <2>3. PICK p \in 1..n : g[p] = f[k]
    BY <1>1, <1>2, <2>2
  <2>4. ~(p < k)
    <3>1. p < k => p \in 1..(k - 1) /\ p \in 1..m
      BY <2>2
    <3> QED BY <1>1, <2>1, <2>2, <2>3, <3>1
  <2>5. g[k] <= f[k]
    <3>1. p = k \/ k < p
      BY <2>4
    <3> QED BY <1>2, <2>3, <3>1
  <2>6. PICK q \in 1..m : f[q] = g[k]
    BY <1>1, <1>2
  <2>7. ~(q < k)
    <3>1. q < k => q \in 1..(k - 1) /\ q \in 1..n
      OBVIOUS
    <3> QED BY <1>2, <2>1, <2>6, <3>1
  <2>8. f[k] <= g[k]
    <3>1. q = k \/ k < q
      BY <2>7
    <3> QED BY <1>1, <2>2, <2>6, <3>1
  <2>9. f[k] = g[k]
    BY <1>1, <1>2, <2>2, <2>5, <2>8
  <2> QED BY <2>1, <2>2, <2>9
<1>5. 0..n \subseteq K
  <2> HIDE DEF K
  <2> QED BY <1>3, <1>4, Filtering!UpTo
<1>6. \A k \in 0..n : k <= m => \A i \in 1..k : f[i] = g[i]
  BY <1>5
<1>7. ~(m < n)
  <2> SUFFICES ASSUME m < n PROVE FALSE
    OBVIOUS
  <2>1. \A i \in 1..m : f[i] = g[i]
    BY <1>6
  <2>2. m + 1 \in 1..n /\ \A i \in 1..m : i \in 1..n /\ i < m + 1
    OBVIOUS
  <2>3. PICK p \in 1..m : f[p] = g[m + 1]
    BY <1>1, <1>2, <2>2
  <2> QED BY <1>2, <2>1, <2>2, <2>3
<1>8. ~(n < m)
  <2> SUFFICES ASSUME n < m PROVE FALSE
    OBVIOUS
  <2>1. \A i \in 1..n : f[i] = g[i]
    BY <1>6
  <2>2. n + 1 \in 1..m /\ \A i \in 1..n : i \in 1..m /\ i < n + 1
    OBVIOUS
  <2>3. PICK p \in 1..n : g[p] = f[n + 1]
    BY <1>1, <1>2, <2>2
  <2> QED BY <1>1, <2>1, <2>2, <2>3
<1>9. m = n
  BY <1>7, <1>8
<1> QED BY <1>6, <1>9 DEF Coincide

\* The blocks as the chain of normalisers has them when it looks at the sections.
Titled(parsed) == [i \in DOMAIN parsed |-> NormalizeHeading(CleanArtifacts(parsed[i]))]

IsHeading(b) == b.type = "heading"

\* The headings before n that no heading between closes, and those of them that
\* the n-th block does not close itself.
Opened(raw, n) ==
    {j \in 1..n : /\ IsHeading(raw[j])
                  /\ \A k \in (j + 1)..n : ~(IsHeading(raw[k]) /\ raw[k].level <= raw[j].level)}

Enclosing(raw, i) ==
    {j \in 1..(i - 1) :
        /\ IsHeading(raw[j])
        /\ \A k \in (j + 1)..i : ~(IsHeading(raw[k]) /\ raw[k].level <= raw[j].level)}

\* The parents the property asks for.
ParentsOf(raw, i) ==
    LET above == Among([j \in 1..(i - 1) |-> j], Enclosing(raw, i))
    IN [k \in DOMAIN above |-> raw[above[k]].section]

\* They are the sections of the enclosing headings, in order.
LEMMA ParentsAre ==
    ASSUME NEW raw, NEW i \in Nat \ {0}, NEW at, NEW n \in Nat, Rising(at, n, Enclosing(raw, i))
    PROVE  ParentsOf(raw, i) = [k \in 1..n |-> raw[at[k]].section]
<1> DEFINE iota == [j \in 1..(i - 1) |-> j]
           T == Enclosing(raw, i)
<1>1. iota \in Seq(Int) /\ DOMAIN iota = 1..(i - 1) /\ T \subseteq 1..(i - 1)
  <2>1. i - 1 \in Nat
    OBVIOUS
  <2> QED BY <2>1 DEF Enclosing
<1>2. PICK above \in Seq(Int) : above = Among(iota, T)
  BY <1>1, AmongPicks
<1>3. PICK places : Picked(above, iota, T, places)
  BY <1>1, <1>2, AmongPicks
<1>4. PICK m \in Nat : m = Len(above) /\ DOMAIN above = 1..m
  BY <1>2, SeqIsFunction
<1>5. Rising(above, m, T)
  <2>1. /\ places \in [1..m -> 1..(i - 1)]
        /\ \A l, k \in 1..m : l < k => places[l] < places[k]
        /\ \A k \in 1..m : above[k] = iota[places[k]] /\ above[k] \in T
        /\ \A j \in 1..(i - 1) : iota[j] \in T => \E k \in 1..m : places[k] = j
    BY <1>1, <1>3, <1>4 DEF Picked
  <2>2. \A k \in 1..m : above[k] = places[k]
    BY <2>1
  <2>3. \A j \in T : j \in 1..(i - 1) /\ iota[j] = j
    BY <1>1
  <2> HIDE DEF T, iota
  <2>4. \A l, k \in 1..m : l < k => above[l] < above[k]
    BY <2>1, <2>2
  <2>5. \A j \in T : \E k \in 1..m : above[k] = j
    BY <2>1, <2>2, <2>3
  <2> QED BY <2>1, <2>4, <2>5 DEF Rising
<1>6. T \subseteq Int
  BY <1>1
<1>7. m = n /\ \A k \in 1..n : above[k] = at[k]
  BY <1>5, <1>6, RisingIsUnique DEF Coincide
<1> HIDE DEF T, iota
<1>8. ParentsOf(raw, i) = [k \in DOMAIN above |-> raw[above[k]].section]
  BY <1>2 DEF ParentsOf, T, iota
<1> QED BY <1>4, <1>7, <1>8

\* The stack holds the open sections: at has the places of their headings.
Stacked(stack, raw, n, at) ==
    /\ Rising(at, Len(stack), Opened(raw, n))
    /\ \A m \in 1..Len(stack) : stack[m] = <<raw[at[m]].level, raw[at[m]].section>>

\* What encloses a block are the open sections above its level, if it is a
\* heading, and all of them, if it is not.
LEMMA EnclosingAre ==
    ASSUME NEW raw, NEW n \in Nat
    PROVE  /\ Enclosing(raw, n + 1) =
                {j \in Opened(raw, n) :
                    ~(IsHeading(raw[n + 1]) /\ raw[n + 1].level <= raw[j].level)}
           /\ Opened(raw, n + 1) =
                Enclosing(raw, n + 1) \cup (IF IsHeading(raw[n + 1]) THEN {n + 1} ELSE {})
<1>1. (n + 1) - 1 = n /\ \A j \in 1..n : (j + 1)..(n + 1) = ((j + 1)..n) \cup {n + 1}
  OBVIOUS
<1>2. ((n + 1) + 1)..(n + 1) = {} /\ 1..(n + 1) = (1..n) \cup {n + 1} /\ n + 1 \notin 1..n
  OBVIOUS
<1>3. ASSUME NEW j \in 1..n
      PROVE  j \in Enclosing(raw, n + 1)
                <=> /\ j \in Opened(raw, n)
                    /\ ~(IsHeading(raw[n + 1]) /\ raw[n + 1].level <= raw[j].level)
  BY <1>1 DEF Enclosing, Opened
<1>4. Enclosing(raw, n + 1) \subseteq 1..n /\ Opened(raw, n) \subseteq 1..n
  BY <1>1 DEF Enclosing, Opened
<1>5. ASSUME NEW j \in 1..n PROVE j \in Opened(raw, n + 1) <=> j \in Enclosing(raw, n + 1)
  BY <1>1, <1>2 DEF Enclosing, Opened
<1>6. n + 1 \in Opened(raw, n + 1) <=> IsHeading(raw[n + 1])
  BY <1>2 DEF Opened
<1>7. Opened(raw, n + 1) \subseteq 1..(n + 1)
  BY DEF Opened
<1> HIDE DEF Enclosing, Opened
<1>8. Enclosing(raw, n + 1) =
        {j \in Opened(raw, n) : ~(IsHeading(raw[n + 1]) /\ raw[n + 1].level <= raw[j].level)}
  BY <1>3, <1>4
<1>9. Opened(raw, n + 1) =
        Enclosing(raw, n + 1) \cup (IF IsHeading(raw[n + 1]) THEN {n + 1} ELSE {})
  BY <1>2, <1>4, <1>5, <1>6, <1>7
<1> QED BY <1>8, <1>9

\* The sections a heading closes are the last ones on the stack.
LEMMA OpenSectionsAre ==
    ASSUME NEW raw, \A i \in DOMAIN raw : raw[i] \in Block, NEW n \in Nat, 1..n \subseteq DOMAIN raw,
           NEW stack \in Stack, NEW at, Stacked(stack, raw, n, at), NEW level \in Int
    PROVE  \E k \in 0..Len(stack) :
                /\ OpenSections(stack, level) = SubSeq(stack, 1, k)
                /\ \A m \in 1..Len(stack) : m <= k <=> stack[m][1] < level
<1>1. PICK s \in Nat : s = Len(stack) /\ DOMAIN stack = 1..s
  BY SeqIsFunction DEF Stack
<1>2. /\ \A m \in 1..s : at[m] \in Opened(raw, n)
      /\ \A l, m \in 1..s : l < m => at[l] < at[m]
      /\ \A m \in 1..s : stack[m] = <<raw[at[m]].level, raw[at[m]].section>>
  BY <1>1 DEF Stacked, Rising
<1>3. \A m \in 1..s : at[m] \in 1..n /\ IsHeading(raw[at[m]]) /\ raw[at[m]].level \in Int
  <2> SUFFICES ASSUME NEW m \in 1..s
               PROVE  at[m] \in 1..n /\ IsHeading(raw[at[m]]) /\ raw[at[m]].level \in Int
    OBVIOUS
  <2>1. at[m] \in 1..n /\ IsHeading(raw[at[m]])
    BY <1>2 DEF Opened
  <2>2. raw[at[m]] \in Block
    BY <2>1
  <2> QED BY <2>1, <2>2, FieldsOfBlock
<1>4. \A m \in 1..s : stack[m][1] = raw[at[m]].level /\ stack[m][1] \in Int
  BY <1>2, <1>3
<1>5. ASSUME NEW l \in 1..s, NEW m \in 1..s, l < m PROVE stack[l][1] < stack[m][1]
  <2>1. at[m] \in (at[l] + 1)..n
    BY <1>2, <1>3, <1>5
  <2>2. ~(raw[at[m]].level <= raw[at[l]].level)
    BY <1>2, <1>3, <2>1 DEF Opened
  <2> QED BY <1>3, <1>4, <2>2
<1> DEFINE I == {i \in 1..Len(stack) : stack[i][1] < level}
           k == IF I # {} THEN Max(I) ELSE 0
<1>6. OpenSections(stack, level) = SubSeq(stack, 1, k)
  BY DEF OpenSections, SelectLastInSeq
<1>7. I \subseteq 1..s /\ \A m \in 1..s : m \in I <=> stack[m][1] < level
  BY <1>1
<1> HIDE DEF I
<1>8. CASE I = {}
  <2>1. k = 0
    BY <1>8
  <2>2. k \in 0..s /\ \A m \in 1..s : m <= k <=> stack[m][1] < level
    BY <1>7, <1>8, <2>1
  <2> QED BY <1>1, <1>6, <2>2
<1>9. CASE I # {}
  <2>1. k = Max(I)
    BY <1>9
  <2>2. Max(I) \in I /\ \A i \in I : i <= Max(I)
    BY <1>7, <1>9, LastPlace
  <2> HIDE DEF k
  <2>3. k \in 1..s /\ k \in I
    BY <1>7, <2>1, <2>2
  <2>4. ASSUME NEW m \in 1..s PROVE m <= k <=> stack[m][1] < level
    <3>1. stack[m][1] < level => m <= k
      BY <1>7, <2>1, <2>2
    <3>2. ASSUME m <= k PROVE stack[m][1] < level
      <4>1. m = k \/ m < k
        BY <2>3, <3>2
      <4>2. stack[k][1] < level
        BY <1>7, <2>3
      <4>3. m < k => stack[m][1] < stack[k][1]
        BY <1>5, <2>3
      <4> QED BY <1>4, <2>3, <4>1, <4>2, <4>3
    <3> QED BY <3>1, <3>2
  <2>5. k \in 0..s
    BY <2>3
  <2> QED BY <1>1, <1>6, <2>4, <2>5
<1> QED BY <1>8, <1>9

\* The first k sections on the stack are those that enclose the next block.
EnclosingStack(stack, raw, n, at, k) ==
    /\ k \in 0..Len(stack)
    /\ Rising(at, k, Enclosing(raw, n + 1))
    /\ (IF IsHeading(raw[n + 1]) THEN OpenSections(stack, raw[n + 1].level) ELSE stack) =
            SubSeq(stack, 1, k)

\* There are such first ones.
LEMMA StackEncloses ==
    ASSUME NEW raw, \A i \in DOMAIN raw : raw[i] \in Block, NEW n \in Nat, 1..(n + 1) \subseteq DOMAIN raw,
           NEW stack \in Stack, NEW at, Stacked(stack, raw, n, at)
    PROVE  \E k : EnclosingStack(stack, raw, n, at, k)
<1>1. PICK s \in Nat : s = Len(stack) /\ DOMAIN stack = 1..s
  BY SeqIsFunction DEF Stack
<1>2. /\ \A m \in 1..s : at[m] \in Opened(raw, n)
      /\ \A l, m \in 1..s : l < m => at[l] < at[m]
      /\ \A i \in Opened(raw, n) : \E m \in 1..s : at[m] = i
      /\ \A m \in 1..s : stack[m] = <<raw[at[m]].level, raw[at[m]].section>>
  BY <1>1 DEF Stacked, Rising
<1>3. n + 1 \in DOMAIN raw /\ 1..n \subseteq DOMAIN raw
  <2>1. n + 1 \in 1..(n + 1) /\ 1..n \subseteq 1..(n + 1)
    OBVIOUS
  <2> QED BY <2>1
<1>4. raw[n + 1].level \in Int /\ \A m \in 1..s : raw[at[m]].level \in Int
  <2>1. raw[n + 1] \in Block
    BY <1>3
  <2>2. \A m \in 1..s : at[m] \in 1..n
    BY <1>2 DEF Opened
  <2>3. \A m \in 1..s : raw[at[m]] \in Block
    BY <1>3, <2>2
  <2> QED BY <2>1, <2>3, FieldsOfBlock
<1>5. Enclosing(raw, n + 1) =
        {j \in Opened(raw, n) : ~(IsHeading(raw[n + 1]) /\ raw[n + 1].level <= raw[j].level)}
  BY EnclosingAre
<1>6. CASE ~IsHeading(raw[n + 1])
  <2>1. Enclosing(raw, n + 1) = Opened(raw, n)
    BY <1>5, <1>6
  <2>2. SubSeq(stack, 1, s) = stack
    BY <1>1 DEF Stack
  <2>3. s \in 0..s /\ Rising(at, s, Enclosing(raw, n + 1))
    BY <1>2, <2>1 DEF Rising
  <2> QED BY <1>1, <1>6, <2>2, <2>3 DEF EnclosingStack
<1>7. CASE IsHeading(raw[n + 1])
  <2> DEFINE level == raw[n + 1].level
  <2>1. PICK k \in 0..Len(stack) :
            /\ OpenSections(stack, level) = SubSeq(stack, 1, k)
            /\ \A m \in 1..Len(stack) : m <= k <=> stack[m][1] < level
    BY <1>3, <1>4, OpenSectionsAre
  <2>2. k \in 0..s /\ \A m \in 1..s : m <= k <=> stack[m][1] < level
    BY <1>1, <2>1
  <2>3. \A m \in 1..s : m <= k <=> at[m] \in Enclosing(raw, n + 1)
    <3> SUFFICES ASSUME NEW m \in 1..s PROVE m <= k <=> at[m] \in Enclosing(raw, n + 1)
      OBVIOUS
    <3>1. stack[m][1] = raw[at[m]].level /\ at[m] \in Opened(raw, n)
      BY <1>2
    <3>2. stack[m][1] < level <=> ~(level <= raw[at[m]].level)
      BY <1>4, <3>1
    <3> QED BY <1>5, <1>7, <2>2, <3>1, <3>2
  <2>4. \A m \in 1..k : m \in 1..s /\ m <= k
    BY <2>2
  <2>5. Rising(at, k, Enclosing(raw, n + 1))
    <3>1. \A m \in 1..k : at[m] \in Enclosing(raw, n + 1)
      BY <2>3, <2>4
    <3>2. \A l, m \in 1..k : l < m => at[l] < at[m]
      BY <1>2, <2>4
    <3>3. ASSUME NEW i \in Enclosing(raw, n + 1) PROVE \E m \in 1..k : at[m] = i
      <4>1. PICK m \in 1..s : at[m] = i
        BY <1>2, <1>5
      <4>2. m <= k
        BY <2>3, <4>1
      <4> QED BY <2>2, <4>1, <4>2
    <3> QED BY <3>1, <3>2, <3>3 DEF Rising
  <2> QED BY <1>1, <1>7, <2>1, <2>2, <2>5 DEF EnclosingStack
<1> QED BY <1>6, <1>7

\* The names of those are the parents of the block.
LEMMA NamesAreParents ==
    ASSUME NEW raw, NEW n \in Nat, NEW stack \in Stack, NEW at, Stacked(stack, raw, n, at),
           NEW k, EnclosingStack(stack, raw, n, at, k)
    PROVE  Names(SubSeq(stack, 1, k)) = ParentsOf(raw, n + 1)
<1>1. PICK s \in Nat : s = Len(stack) /\ DOMAIN stack = 1..s
  BY SeqIsFunction DEF Stack
<1>2. k \in 0..s /\ k \in Nat /\ Rising(at, k, Enclosing(raw, n + 1))
  BY <1>1 DEF EnclosingStack
<1>3. ParentsOf(raw, n + 1) = [m \in 1..k |-> raw[at[m]].section]
  <2>1. n + 1 \in Nat \ {0}
    OBVIOUS
  <2> QED BY <1>2, <2>1, ParentsAre
<1>4. DOMAIN SubSeq(stack, 1, k) = 1..k /\ \A m \in 1..k : SubSeq(stack, 1, k)[m] = stack[m]
  BY <1>1, <1>2 DEF Stack
<1>5. \A m \in 1..k : stack[m][2] = raw[at[m]].section
  BY <1>1, <1>2 DEF Stacked
<1> QED BY <1>3, <1>4, <1>5 DEF Names

\* The stack after the next block.
LEMMA StackGrows ==
    ASSUME NEW raw, NEW n \in Nat, n + 1 \in DOMAIN raw, raw[n + 1] \in Block,
           NEW stack \in Stack, NEW at, Stacked(stack, raw, n, at),
           NEW k, EnclosingStack(stack, raw, n, at, k)
    PROVE  \E next : Stacked(StackAfter(stack, raw[n + 1]), raw, n + 1, next)
<1> DEFINE b == raw[n + 1]
           open == SubSeq(stack, 1, k)
<1>1. PICK s \in Nat : s = Len(stack) /\ DOMAIN stack = 1..s /\ stack \in Seq(Int \X Text)
  BY SeqIsFunction DEF Stack
<1>2. k \in 0..s /\ k \in Nat /\ Rising(at, k, Enclosing(raw, n + 1))
  BY <1>1 DEF EnclosingStack
<1>3. open \in Seq(Int \X Text) /\ Len(open) = k /\ \A m \in 1..k : open[m] = stack[m]
  BY <1>1, <1>2
<1>4. \A m \in 1..k : stack[m] = <<raw[at[m]].level, raw[at[m]].section>>
  BY <1>1, <1>2 DEF Stacked
<1>5. CASE ~IsHeading(b)
  <2>1. StackAfter(stack, b) = open
    BY <1>5 DEF StackAfter, IsHeading, EnclosingStack
  <2>2. Opened(raw, n + 1) = Enclosing(raw, n + 1)
    <3>1. Opened(raw, n + 1) =
            Enclosing(raw, n + 1) \cup (IF IsHeading(raw[n + 1]) THEN {n + 1} ELSE {})
      BY EnclosingAre
    <3>2. Opened(raw, n + 1) = Enclosing(raw, n + 1) \cup {}
      BY <1>5, <3>1
    <3> QED BY <3>2
  <2>3. Stacked(open, raw, n + 1, at)
    <3> HIDE DEF open
    <3> QED BY <1>2, <1>3, <1>4, <2>2 DEF Stacked
  <2> QED BY <2>1, <2>3
<1>6. CASE IsHeading(b)
  <2> DEFINE top == <<b.level, b.section>>
             next == [m \in 1..(k + 1) |-> IF m = k + 1 THEN n + 1 ELSE at[m]]
  <2>1. StackAfter(stack, b) = Append(open, top)
    BY <1>6 DEF StackAfter, IsHeading, EnclosingStack
  <2>2. Opened(raw, n + 1) = Enclosing(raw, n + 1) \cup {n + 1}
    BY <1>6, EnclosingAre
  <2>3. top \in Int \X Text
    BY FieldsOfBlock
  <2> HIDE DEF open, top
  <2>4. /\ Len(Append(open, top)) = k + 1 /\ Append(open, top)[k + 1] = top
        /\ \A m \in 1..k : Append(open, top)[m] = open[m]
    BY <1>2, <1>3, <2>3, AppendProperties
  <2>5. /\ next[k + 1] = n + 1 /\ k + 1 \in 1..(k + 1)
        /\ \A m \in 1..k : next[m] = at[m] /\ m \in 1..(k + 1)
        /\ \A m \in 1..(k + 1) : m \in 1..k \/ m = k + 1
    BY <1>2
  <2> HIDE DEF next
  <2>6. \A m \in 1..k : at[m] \in 1..n /\ at[m] \in Enclosing(raw, n + 1)
    BY <1>2 DEF Rising, Enclosing
  <2>7. Rising(next, k + 1, Opened(raw, n + 1))
    <3>1. \A m \in 1..(k + 1) : next[m] \in Opened(raw, n + 1)
      BY <2>2, <2>5, <2>6
    <3>2. ASSUME NEW l \in 1..(k + 1), NEW m \in 1..(k + 1), l < m PROVE next[l] < next[m]
      <4>1. l \in 1..k /\ next[l] = at[l] /\ at[l] \in 1..n
        BY <1>2, <2>5, <2>6, <3>2
      <4>2. CASE m = k + 1
        BY <2>5, <4>1, <4>2
      <4>3. CASE m \in 1..k
        BY <1>2, <2>5, <3>2, <4>1, <4>3 DEF Rising
      <4> QED BY <2>5, <4>2, <4>3
    <3>3. \A i \in Opened(raw, n + 1) : \E m \in 1..(k + 1) : next[m] = i
      <4> SUFFICES ASSUME NEW i \in Opened(raw, n + 1) PROVE \E m \in 1..(k + 1) : next[m] = i
        OBVIOUS
      <4>1. CASE i = n + 1
        BY <2>5, <4>1
      <4>2. CASE i \in Enclosing(raw, n + 1)
        <5>1. PICK m \in 1..k : at[m] = i
          BY <1>2, <4>2 DEF Rising
        <5> QED BY <2>5, <5>1
      <4> QED BY <2>2, <4>1, <4>2
    <3> QED BY <3>1, <3>2, <3>3 DEF Rising
  <2>8. \A m \in 1..(k + 1) : Append(open, top)[m] = <<raw[next[m]].level, raw[next[m]].section>>
    <3> SUFFICES ASSUME NEW m \in 1..(k + 1)
                 PROVE  Append(open, top)[m] = <<raw[next[m]].level, raw[next[m]].section>>
      OBVIOUS
    <3>1. CASE m \in 1..k
      BY <1>3, <1>4, <2>4, <2>5, <3>1
    <3>2. CASE m = k + 1
      BY <2>4, <2>5, <3>2 DEF top
    <3> QED BY <2>5, <3>1, <3>2
  <2>9. Stacked(Append(open, top), raw, n + 1, next)
    BY <2>4, <2>7, <2>8 DEF Stacked
  <2> QED BY <2>1, <2>9
<1> QED BY <1>5, <1>6

\* What normalisation leaves of a block: its identity, and the parents it was
\* given where it was placed.
LEMMA PlacedKeeps ==
    ASSUME NEW stack \in Stack, NEW b \in Block, NEW index \in Int
    PROVE  LET c == Enrich(NormalizeTable(NormalizeCode(PlaceInSection(stack, b))), index) IN
           /\ c.id = b.id
           /\ c.parents = Names(IF IsHeading(b) THEN OpenSections(stack, b.level) ELSE stack)
<1> DEFINE p == PlaceInSection(stack, b)
           under == Names(IF IsHeading(b) THEN OpenSections(stack, b.level) ELSE stack)
<1>1. \A x \in Block :
        /\ \A y : [x EXCEPT !.type = y].id = x.id /\ [x EXCEPT !.type = y].parents = x.parents
        /\ \A y : [x EXCEPT !.text = y].id = x.id /\ [x EXCEPT !.text = y].parents = x.parents
        /\ \A y : [x EXCEPT !.index = y].id = x.id /\ [x EXCEPT !.index = y].parents = x.parents
  BY DEF Block
<1>2. p \in Block /\ NormalizeCode(p) \in Block /\ NormalizeTable(NormalizeCode(p)) \in Block
  BY PlacedBlock, FormattedBlock
<1>3. p.id = b.id /\ p.parents = under
  <2> DEFINE section == Either(b.section, IF stack = <<>> THEN DefaultSection ELSE Last(stack)[2])
  <2>1. CASE IsHeading(b)
    <3>1. p = [b EXCEPT !.parents = under]
      BY <2>1 DEF PlaceInSection, IsHeading
    <3> QED BY <3>1 DEF Block
  <2>2. CASE ~IsHeading(b)
    <3>1. p = [b EXCEPT !.parents = under, !.section = section]
      <4>1. [b EXCEPT !.parents = under].section = b.section
        BY DEF Block
      <4> QED BY <2>2, <4>1 DEF PlaceInSection, IsHeading
    <3> QED BY <3>1 DEF Block
  <2> QED BY <2>1, <2>2
<1> HIDE DEF p, under
<1>4. NormalizeCode(p).id = p.id /\ NormalizeCode(p).parents = p.parents
  BY <1>1, <1>2 DEF NormalizeCode
<1> DEFINE q == NormalizeCode(p)
<1> HIDE DEF q
<1>5. NormalizeTable(q).id = q.id /\ NormalizeTable(q).parents = q.parents
  BY <1>1, <1>2 DEF NormalizeTable, q
<1> DEFINE r == NormalizeTable(q)
<1> HIDE DEF r
<1>6. Enrich(r, index).id = r.id /\ Enrich(r, index).parents = r.parents
  BY <1>1, <1>2 DEF Enrich, r, q
<1> QED BY <1>3, <1>4, <1>5, <1>6 DEF p, q, r, under

\* What the loop has after n blocks.
Sectioned(acc, raw, n) ==
    /\ acc \in Normed
    /\ \E at : Stacked(acc.stack, raw, n, at)
    /\ \A b \in ToSet(acc.kept) :
            \E i \in 1..n : raw[i].id = b.id /\ b.parents = ParentsOf(raw, i)

\* A turn of it.
LEMMA NormTurnKeeps ==
    ASSUME NEW parsed \in Seq(Block), NEW n \in Nat, n + 1 \in DOMAIN parsed,
           NEW acc, Sectioned(acc, Titled(parsed), n)
    PROVE  Sectioned(NormTurn(0, acc, parsed[n + 1]), Titled(parsed), n + 1)
<1> DEFINE raw == Titled(parsed)
           b == raw[n + 1]
           next == NormTurn(0, acc, parsed[n + 1])
<1>1. PICK s \in Nat : s = Len(parsed) /\ DOMAIN parsed = 1..s /\ \A i \in 1..s : parsed[i] \in Block
  BY SeqIsFunction
<1>2. DOMAIN raw = 1..s /\ \A i \in DOMAIN raw : raw[i] \in Block
  BY <1>1, CleanedBlock, TitledBlock DEF Titled
<1>3. n + 1 \in DOMAIN raw /\ 1..(n + 1) \subseteq DOMAIN raw /\ b \in Block
  BY <1>1, <1>2
<1>4. acc \in Normed /\ acc.stack \in Stack /\ acc.kept \in Seq(Block)
  BY DEF Sectioned, Normed
<1>5. PICK at : Stacked(acc.stack, raw, n, at)
  BY DEF Sectioned
<1>6. b = NormalizeHeading(CleanArtifacts(parsed[n + 1]))
  BY DEF Titled
<1> HIDE DEF raw
<1>7. PICK k : EnclosingStack(acc.stack, raw, n, at, k)
  BY <1>2, <1>3, <1>4, <1>5, StackEncloses
<1>8. \E later : Stacked(StackAfter(acc.stack, b), raw, n + 1, later)
  BY <1>3, <1>4, <1>5, <1>7, StackGrows
<1>9. Names(IF IsHeading(b) THEN OpenSections(acc.stack, b.level) ELSE acc.stack)
        = ParentsOf(raw, n + 1)
  <2>1. Names(SubSeq(acc.stack, 1, k)) = ParentsOf(raw, n + 1)
    BY <1>4, <1>5, <1>7, NamesAreParents
  <2> QED BY <1>7, <2>1 DEF EnclosingStack
<1> DEFINE placed == NormalizeTable(NormalizeCode(PlaceInSection(acc.stack, b)))
           numbered == Enrich(placed, Len(acc.kept))
<1>10. /\ next.stack = StackAfter(acc.stack, b)
       /\ next.kept \in {acc.kept, Append(acc.kept, numbered)}
  BY <1>6 DEF NormTurn
<1>11. next \in Normed
  BY <1>1, <1>4, NormTurnTyped
<1>12. numbered \in Block /\ numbered.id = b.id /\ numbered.parents = ParentsOf(raw, n + 1)
  <2>1. Len(acc.kept) \in Int
    BY <1>4
  <2>2. numbered \in Block
    BY <1>3, <1>4, <2>1, PlacedBlock, FormattedBlock
  <2> HIDE DEF b
  <2>3. /\ numbered.id = b.id
        /\ numbered.parents =
                Names(IF IsHeading(b) THEN OpenSections(acc.stack, b.level) ELSE acc.stack)
    BY <1>3, <1>4, <2>1, PlacedKeeps
  <2> QED BY <1>9, <2>2, <2>3
<1> HIDE DEF numbered, next
<1>13. \A c \in ToSet(next.kept) : c \in ToSet(acc.kept) \/ c = numbered
  <2>1. ToSet(Append(acc.kept, numbered)) = ToSet(acc.kept) \cup {numbered}
    BY <1>4, <1>12, ListGrows
  <2> QED BY <1>10, <2>1
<1>14. ASSUME NEW c \in ToSet(next.kept)
       PROVE  \E i \in 1..(n + 1) : raw[i].id = c.id /\ c.parents = ParentsOf(raw, i)
  <2>1. CASE c = numbered
    <3>1. n + 1 \in 1..(n + 1)
      OBVIOUS
    <3> QED BY <1>12, <2>1, <3>1
  <2>2. CASE c \in ToSet(acc.kept)
    <3>1. PICK i \in 1..n : raw[i].id = c.id /\ c.parents = ParentsOf(raw, i)
      BY <2>2 DEF Sectioned, raw
    <3> QED BY <3>1
  <2> QED BY <1>13, <2>1, <2>2
<1>15. Sectioned(next, raw, n + 1)
  BY <1>8, <1>10, <1>11, <1>14 DEF Sectioned
<1> QED BY <1>15 DEF next, raw

\* The loop gives every block it keeps the parents the property asks for.
LEMMA NormalizeSections ==
    ASSUME NEW parsed \in Seq(Block)
    PROVE  \A b \in ToSet(Normalize(parsed)) :
                \E i \in DOMAIN Titled(parsed) :
                    Titled(parsed)[i].id = b.id /\ b.parents = ParentsOf(Titled(parsed), i)
<1> DEFINE start == [stack |-> <<>>, kept |-> <<>>]
           raw == Titled(parsed)
<1>1. PICK n \in Nat : n = Len(parsed) /\ DOMAIN parsed = 1..n
  BY SeqIsFunction
<1> DEFINE I == [k \in 0..n |-> {acc \in Normed : Sectioned(acc, raw, k)}]
<1>2. DOMAIN raw = 1..n
  BY <1>1 DEF Titled
<1>3. start \in I[0]
  <2>1. start \in Normed /\ start.stack = <<>> /\ start.kept = <<>>
    BY DEF Normed, Stack
  <2>2. 1..0 = {} /\ Len(<<>>) = 0 /\ ToSet(<<>>) = {} /\ 0 \in 0..n
    BY DEF ToSet
  <2> HIDE DEF raw, start
  <2>3. Stacked(start.stack, raw, 0, <<>>)
    BY <2>1, <2>2 DEF Stacked, Rising, Opened
  <2>4. Sectioned(start, raw, 0)
    BY <2>1, <2>2, <2>3 DEF Sectioned
  <2> QED BY <2>1, <2>2, <2>4
<1>4. ASSUME NEW k \in 1..n, NEW acc \in I[k - 1] PROVE NormTurn(0, acc, parsed[k]) \in I[k]
  <2>1. k - 1 \in Nat /\ (k - 1) + 1 = k /\ k - 1 \in 0..n /\ k \in 0..n
    OBVIOUS
  <2>2. Sectioned(acc, raw, k - 1)
    BY <2>1
  <2> HIDE DEF raw
  <2>3. Sectioned(NormTurn(0, acc, parsed[k]), raw, k)
    BY <1>1, <2>1, <2>2, NormTurnKeeps DEF raw
  <2>4. NormTurn(0, acc, parsed[k]) \in Normed
    BY <2>3 DEF Sectioned
  <2> QED BY <2>1, <2>3, <2>4
<1> HIDE DEF I, start, raw
<1>5. Norming!Inductive(I, 0, start, parsed, n)
  BY <1>1, <1>3, <1>4 DEF Norming!Inductive
<1>6. Norming!Folded(0, start, parsed) \in I[n]
  BY <1>5, Norming!FoldInduction
<1>7. Sectioned(Norming!Folded(0, start, parsed), raw, n)
  BY <1>6 DEF I
<1>8. Normalize(parsed) = Norming!Folded(0, start, parsed).kept
  BY NormalizeFolds, SMTT(30) DEF start
<1> QED BY <1>2, <1>7, <1>8 DEF Sectioned, raw

\* Normalisation (SectionPathNormalizer): of any blocks the parsers return, in
\* any order of headings and levels, and whatever is dropped, cleaned, demoted
\* or reformatted on the way, the parents of a block that is kept are the
\* headings before it that no heading between them closes.
THEOREM SectionsCorrect == Spec => []SectionsAreAncestors
<1>1. CurationInv => SectionsAreAncestors
  <2> SUFFICES ASSUME CurationInv, pc = "deduplicate" PROVE SectionsAreAncestors
    BY DEF SectionsAreAncestors
  <2> DEFINE parsed == report.blocks
             raw == [i \in DOMAIN parsed |-> NormalizeHeading(CleanArtifacts(parsed[i]))]
  <2>1. parsed \in Seq(Block) /\ blocks = Normalize(parsed)
    BY DEF CurationInv
  <2>2. raw = Titled(parsed)
    BY DEF Titled
  <2> HIDE DEF raw, parsed
  <2>3. \A b \in ToSet(blocks) :
            \E i \in DOMAIN raw : raw[i].id = b.id /\ b.parents = ParentsOf(raw, i)
    BY <2>1, <2>2, NormalizeSections
  <2> DEFINE Closes(k, j) == raw[k].type = "heading" /\ raw[k].level <= raw[j].level
             Encloses(j, i) == /\ raw[j].type = "heading" /\ j < i
                               /\ \A k \in (j + 1)..i : ~Closes(k, j)
             Parents(i) == LET above == Those([j \in 1..(i - 1) |-> j], LAMBDA j : Encloses(j, i))
                           IN [k \in DOMAIN above |-> raw[above[k]].section]
  <2>4. \A i \in DOMAIN raw : Parents(i) = ParentsOf(raw, i)
    <3> SUFFICES ASSUME NEW i \in DOMAIN raw PROVE Parents(i) = ParentsOf(raw, i)
      OBVIOUS
    <3>1. i \in Int
      BY <2>1, <2>2 DEF Titled
    <3> DEFINE iota == [j \in 1..(i - 1) |-> j]
    <3>2. ToSet(iota) = 1..(i - 1)
      BY DEF ToSet
    <3>3. {j \in ToSet(iota) : Encloses(j, i)} = Enclosing(raw, i)
      <4>1. \A j \in 1..(i - 1) : j < i
        BY <3>1
      <4> HIDE DEF iota
      <4> QED BY <3>2, <4>1 DEF Enclosing, IsHeading
    <3>4. Those(iota, LAMBDA j : Encloses(j, i)) = Among(iota, Enclosing(raw, i))
      BY <3>3 DEF Those
    <3> QED BY <3>4 DEF ParentsOf
  <2> HIDE DEF Parents
  <2>5. \A b \in ToSet(blocks) : \E i \in DOMAIN raw : raw[i].id = b.id /\ b.parents = Parents(i)
    BY <2>3, <2>4
  <2> QED BY <2>5, ZenonT(40) DEF SectionsAreAncestors, Parents, raw, parsed
<1> QED BY <1>1, CurationInvariant, PTL

----------------------------------------------------------------------------
(* Chunks *)

\* One turn of the quality filter.
QualityTurn(p, acc, b) ==
    IF Signature(b) \in acc.dropped \/ FailsQuality(b)
    THEN [acc EXCEPT !.dropped = @ \cup {Signature(b)}]
    ELSE [acc EXCEPT !.kept = Append(@, b)]

Sifting == INSTANCE SequenceFolds WITH Op <- QualityTurn

\* It drops blocks and returns the others.
LEMMA ValidateTyped == \A list \in Seq(Block) : Validate(list) \in Seq(Block)
<1> SUFFICES ASSUME NEW list \in Seq(Block) PROVE Validate(list) \in Seq(Block)
  OBVIOUS
<1> DEFINE start == [dropped |-> {}, kept |-> <<>>]
           A == [dropped : SUBSET Text, kept : Seq(Block)]
<1>1. Validate(list) = Sifting!Folded(0, start, list).kept
  BY DEF Validate, QualityTurn, Sifting!Folded, FoldLeft, MapThenFoldSet, Max,
         Sifting!FoldLeft, Sifting!MapThenFoldSet, Sifting!Max
<1>2. start \in A
  OBVIOUS
<1>3. ASSUME NEW acc \in A, NEW b \in Block PROVE QualityTurn(0, acc, b) \in A
  <2>1. acc.dropped \in SUBSET Text /\ acc.kept \in Seq(Block) /\ Signature(b) \in Text
    BY FieldsOfBlock DEF Signature
  <2>2. Append(acc.kept, b) \in Seq(Block) /\ acc.dropped \cup {Signature(b)} \in SUBSET Text
    BY <2>1, AppendProperties
  <2>3. /\ [acc EXCEPT !.dropped = acc.dropped \cup {Signature(b)}] \in A
        /\ [acc EXCEPT !.kept = Append(acc.kept, b)] \in A
    BY <2>1, <2>2
  <2> HIDE DEF A
  <2> QED BY <2>3 DEF QualityTurn
<1> HIDE DEF A, start
<1>4. Sifting!Folded(0, start, list) \in A
  BY <1>2, <1>3, Sifting!FoldClosed DEF Sifting!Closed
<1> QED BY <1>1, <1>4 DEF A

\* The chunker cuts blocks.
LEMMA PrepareTyped == \A list \in Seq(Block) : Prepare(list) \in Seq(Block)
<1> SUFFICES ASSUME NEW list \in Seq(Block) PROVE Prepare(list) \in Seq(Block)
  OBVIOUS
<1>1. Deduplicate(list) \in Seq(Block)
  BY DeduplicateReports DEF Deduplicated, Deduplicate
<1> QED BY <1>1, ValidateTyped DEF Prepare

\* The least number of strides after which a window reaches the end.
ReachesAt(n, size, k) ==
    /\ k \in 0..n /\ k * Stride(size) + size >= n
    /\ \A j \in 0..n : j * Stride(size) + size >= n => k <= j

\* Windows advance, by at most their size.
LEMMA StrideBounds ==
    ASSUME NEW size \in Nat \ {0}
    PROVE  Stride(size) \in 1..size
<1> DEFINE I == {size - Overlap, 1}
<1>1. Overlap \in Nat
  BY BudgetAssumption
<1>2. \E x \in I : \A y \in I : x >= y
  <2>1. CASE size - Overlap >= 1
    BY <1>1, <2>1
  <2>2. CASE ~(size - Overlap >= 1)
    BY <1>1, <2>2
  <2> QED BY <2>1, <2>2
<1>3. Max(I) \in I /\ \A y \in I : Max(I) >= y
  BY <1>2 DEF Max
<1>4. 1 \in I /\ \A y \in I : y \in Int /\ y <= size
  BY <1>1
<1> HIDE DEF I
<1>5. Max(I) \in Int /\ Max(I) <= size /\ Max(I) >= 1
  BY <1>3, <1>4
<1> QED BY <1>5 DEF Stride, I

\* Some window reaches the end.
LEMMA WindowReaches ==
    ASSUME NEW n \in Nat, NEW size \in Nat \ {0}
    PROVE  \E k : ReachesAt(n, size, k)
<1> DEFINE I == {i \in 0..n : i * Stride(size) + size >= n}
<1>1. Stride(size) \in Nat /\ Stride(size) >= 1
  BY StrideBounds
<1>2. n \in I
  <2>1. \A s \in Nat : s >= 1 => n * s + size >= n
    OBVIOUS
  <2> QED BY <1>1, <2>1
<1>3. I \in SUBSET Nat /\ I # {}
  BY <1>2
<1>4. \A j \in 0..n : j * Stride(size) + size >= n => j \in I
  OBVIOUS
<1>5. \A j \in I : j \in 0..n /\ j * Stride(size) + size >= n
  OBVIOUS
<1> HIDE DEF I
<1>6. PICK k \in I : \A j \in I : k <= j
  BY <1>3, Filtering!MinOf
<1> QED BY <1>4, <1>5, <1>6 DEF ReachesAt

\* The lesser of two numbers.
LEMMA MinOfTwo == \A m, n \in Nat : Min({m, n}) = IF m <= n THEN m ELSE n
<1> SUFFICES ASSUME NEW m \in Nat, NEW n \in Nat PROVE Min({m, n}) = IF m <= n THEN m ELSE n
  OBVIOUS
<1>1. {m, n} \in SUBSET Nat /\ {m, n} # {}
  OBVIOUS
<1>2. Min({m, n}) \in {m, n} /\ \A x \in {m, n} : Min({m, n}) <= x
  BY <1>1, Filtering!MinOf DEF Min, Filtering!Min
<1>3. Min({m, n}) <= m /\ Min({m, n}) <= n
  BY <1>2
<1> QED BY <1>2, <1>3

\* The windows over n tokens: they start a stride apart, all but the last have
\* their full length, and the last one ends with the tokens.
WindowsOf(w, tokens, size, S) ==
    /\ w \in Seq(Seq(S))
    /\ \A i \in 1..Len(w) :
        LET start == (i - 1) * Stride(size) IN
        /\ start \in Nat /\ Len(w[i]) \in 1..size /\ start + Len(w[i]) <= Len(tokens)
        /\ w[i] = SubSeq(tokens, start + 1, start + Len(w[i]))
        /\ IF i = Len(w) THEN start + Len(w[i]) = Len(tokens) ELSE Len(w[i]) = size
    /\ tokens = <<>> <=> w = <<>>

\* What the splitter returns.
LEMMA WindowsAre ==
    ASSUME NEW S, NEW tokens \in Seq(S), NEW size \in Nat \ {0}
    PROVE  WindowsOf(Windows(tokens, size), tokens, size, S)
<1>1. PICK n \in Nat : n = Len(tokens) /\ DOMAIN tokens = 1..n /\ \A i \in 1..n : tokens[i] \in S
  BY SeqIsFunction
<1>2. Stride(size) \in Nat /\ Stride(size) >= 1 /\ Stride(size) <= size
  BY StrideBounds
<1>3. CASE n = 0
  <2>1. Windows(tokens, size) = <<>>
    BY <1>1, <1>3 DEF Windows
  <2>2. tokens = <<>>
    BY <1>1, <1>3
  <2> QED BY <2>1, <2>2 DEF WindowsOf
<1>4. CASE n # 0
  <2> DEFINE k == CHOOSE i \in 0..n : /\ i * Stride(size) + size >= n
                                      /\ \A j \in 0..n : j * Stride(size) + size >= n => i <= j
             w == Windows(tokens, size)
             Stop(i) == Min({(i - 1) * Stride(size) + size, n})
  <2>1. ReachesAt(n, size, k)
    BY WindowReaches DEF ReachesAt
  <2>2. w = [i \in 1..(k + 1) |-> SubSeq(tokens, (i - 1) * Stride(size) + 1, Stop(i))]
    BY <1>1, <1>4 DEF Windows
  <2> HIDE DEF k, w
  <2>3. k \in Nat /\ k + 1 \in Nat
    BY <2>1 DEF ReachesAt
  <2>4. ASSUME NEW i \in 1..(k + 1)
        PROVE  LET start == (i - 1) * Stride(size) IN
               /\ start \in Nat /\ start < n
               /\ Stop(i) \in (start + 1)..n /\ Stop(i) <= start + size
               /\ IF i = k + 1 THEN Stop(i) = n ELSE Stop(i) = start + size
    <3> DEFINE start == (i - 1) * Stride(size)
    <3>1. i - 1 \in Nat /\ start \in Nat
      BY <1>2, <2>3
    <3>2. start < n
      <4>1. CASE i = 1
        BY <1>2, <1>4, <4>1
      <4>2. CASE i # 1
        <5>1. i - 2 \in 0..n /\ i - 2 < k
          BY <2>1, <4>2 DEF ReachesAt
        <5>2. ~((i - 2) * Stride(size) + size >= n)
          BY <2>1, <5>1 DEF ReachesAt
        <5>3. (i - 2) * Stride(size) + Stride(size) = start
          BY <1>2, <4>2
        <5>4. (i - 2) * Stride(size) \in Int
          BY <1>2, <2>3
        <5> QED BY <1>2, <3>1, <5>2, <5>3, <5>4
      <4> QED BY <4>1, <4>2
    <3>3. i = k + 1 => start + size >= n
      BY <2>1, <2>3 DEF ReachesAt
    <3>7. i # k + 1 => start + size < n
      <4> SUFFICES ASSUME i # k + 1 PROVE start + size < n
        OBVIOUS
      <4>1. i - 1 \in 0..n /\ i - 1 < k
        BY <2>1, <2>3 DEF ReachesAt
      <4>2. ~(start + size >= n)
        BY <2>1, <4>1 DEF ReachesAt
      <4> QED BY <3>1, <4>2
    <3> HIDE DEF start
    <3>4. start + size \in Nat
      BY <3>1
    <3>5. Min({start + size, n}) = IF start + size <= n THEN start + size ELSE n
      BY <3>4, MinOfTwo
    <3>6. Stop(i) = Min({start + size, n})
      BY DEF start
    <3> HIDE DEF Stop
    <3> QED BY <3>1, <3>2, <3>3, <3>4, <3>5, <3>6, <3>7 DEF start
  <2> HIDE DEF Stop
  <2>5. ASSUME NEW i \in 1..(k + 1)
        PROVE  LET start == (i - 1) * Stride(size) IN
               /\ w[i] \in Seq(S) /\ Len(w[i]) = Stop(i) - start
               /\ w[i] = SubSeq(tokens, start + 1, start + Len(w[i]))
    <3> DEFINE start == (i - 1) * Stride(size)
    <3>1. start \in Nat /\ start < n /\ Stop(i) \in (start + 1)..n
      BY <2>4
    <3>2. w[i] = SubSeq(tokens, start + 1, Stop(i))
      BY <2>2
    <3> HIDE DEF start
    <3>3. w[i] \in Seq(S) /\ Len(w[i]) = Stop(i) - start
      BY <1>1, <3>1, <3>2
    <3>4. start + Len(w[i]) = Stop(i)
      BY <3>1, <3>3
    <3> QED BY <3>2, <3>3, <3>4 DEF start
  <2>6. w \in Seq(Seq(S)) /\ Len(w) = k + 1
    <3>1. Listing(w, k + 1, Seq(S))
      BY <2>2, <2>5 DEF Listing
    <3> QED BY <2>3, <3>1, ListingIsSeq
  <2>7. tokens # <<>> /\ w # <<>>
    BY <1>1, <1>4, <2>3, <2>6
  <2>8. ASSUME NEW i \in 1..(k + 1)
        PROVE  LET start == (i - 1) * Stride(size) IN
               /\ start \in Nat /\ Len(w[i]) \in 1..size /\ start + Len(w[i]) <= Len(tokens)
               /\ w[i] = SubSeq(tokens, start + 1, start + Len(w[i]))
               /\ IF i = Len(w) THEN start + Len(w[i]) = Len(tokens) ELSE Len(w[i]) = size
    <3> DEFINE start == (i - 1) * Stride(size)
    <3>1. /\ start \in Nat /\ Stop(i) \in (start + 1)..n /\ Stop(i) <= start + size
          /\ IF i = k + 1 THEN Stop(i) = n ELSE Stop(i) = start + size
      BY <2>4
    <3>2. Len(w[i]) = Stop(i) - start /\ w[i] = SubSeq(tokens, start + 1, start + Len(w[i]))
      BY <2>5
    <3> HIDE DEF start
    <3> QED BY <1>1, <2>6, <3>1, <3>2 DEF start
  <2> QED BY <2>6, <2>7, <2>8 DEF WindowsOf, w
<1> QED BY <1>3, <1>4

----------------------------------------------------------------------------
(* Lists of anything *)

IsList(s) == s \in Seq(ToSet(s))

\* Every list is one.
LEMMA ListOf == \A S : \A s \in Seq(S) : IsList(s)
<1> SUFFICES ASSUME NEW S, NEW s \in Seq(S) PROVE s \in Seq(ToSet(s))
  BY DEF IsList
<1>1. PICK n \in Nat : n = Len(s) /\ s \in [1..n -> S]
  BY SeqIsFunction
<1>2. s \in [1..n -> ToSet(s)]
  BY <1>1 DEF ToSet
<1> QED BY <1>2

\* So is a function on the first numbers.
LEMMA CountedIsList ==
    ASSUME NEW n \in Nat, NEW s, s = [i \in 1..n |-> s[i]]
    PROVE  IsList(s) /\ Len(s) = n
<1>1. DOMAIN s = 1..n
  OBVIOUS
<1>2. s \in [1..n -> ToSet(s)]
  BY <1>1 DEF ToSet
<1> QED BY <1>2 DEF IsList

\* A list has its places.
LEMMA ListPlaces ==
    \A s : IsList(s) => /\ Len(s) \in Nat /\ DOMAIN s = 1..Len(s)
                        /\ s = [i \in 1..Len(s) |-> s[i]]
<1> SUFFICES ASSUME NEW s, IsList(s)
             PROVE  Len(s) \in Nat /\ DOMAIN s = 1..Len(s) /\ s = [i \in 1..Len(s) |-> s[i]]
  OBVIOUS
<1>1. s \in Seq(ToSet(s))
  BY DEF IsList
<1>2. PICK n \in Nat : n = Len(s) /\ s \in [1..n -> ToSet(s)]
  BY <1>1
<1> QED BY <1>2

\* Joining lists and adding to them makes lists.
LEMMA ListsJoin ==
    ASSUME NEW s, NEW t, IsList(s), IsList(t)
    PROVE  IsList(s \o t) /\ \A x : IsList(Append(s, x))
<1> DEFINE S == ToSet(s) \cup ToSet(t)
<1>1. s \in Seq(S) /\ t \in Seq(S)
  <2>1. \A A, B : A \subseteq B => \A r \in Seq(A) : r \in Seq(B)
    OBVIOUS
  <2>2. s \in Seq(ToSet(s)) /\ t \in Seq(ToSet(t))
    BY DEF IsList
  <2> QED BY <2>1, <2>2
<1> HIDE DEF S
<1>2. s \o t \in Seq(S)
  BY <1>1, ConcatProperties
<1>3. ASSUME NEW x PROVE IsList(Append(s, x))
  <2>1. s \in Seq(S \cup {x}) /\ x \in S \cup {x}
    BY <1>1
  <2>2. Append(s, x) \in Seq(S \cup {x})
    BY <2>1, AppendProperties
  <2> QED BY <2>2, ListOf
<1> QED BY <1>2, <1>3, ListOf

\* Lists, one after the other, are a list.
LEMMA FlattenIsList ==
    ASSUME NEW n \in Nat, NEW seqs, seqs = [i \in 1..n |-> seqs[i]],
           \A i \in 1..n : IsList(seqs[i])
    PROVE  IsList(FlattenSeq(seqs))
<1> DEFINE S == UNION {ToSet(seqs[i]) : i \in 1..n}
<1>1. \A i \in 1..n : seqs[i] \in Seq(S)
  <2>1. \A A, B : A \subseteq B => \A r \in Seq(A) : r \in Seq(B)
    OBVIOUS
  <2>2. \A i \in 1..n : seqs[i] \in Seq(ToSet(seqs[i])) /\ ToSet(seqs[i]) \subseteq S
    BY DEF IsList
  <2> QED BY <2>1, <2>2
<1> HIDE DEF S
<1>2. seqs \in Seq(Seq(S))
  <2>1. Listing(seqs, n, Seq(S))
    BY <1>1 DEF Listing
  <2> QED BY <2>1, ListingIsSeq
<1>3. FlattenSeq(seqs) \in Seq(S)
  BY <1>2, Filtering!FlattenIsSeq DEF FlattenSeq, Filtering!FlattenSeq
<1> QED BY <1>3, ListOf


----------------------------------------------------------------------------
(* Parts of an oversized block *)

\* One token of the text that is cut behind each separator.
SeparatorTurn(separator, acc, t) ==
    IF acc = <<>> \/ Last(Last(acc)) \in separator
    THEN Append(acc, <<t>>)
    ELSE [acc EXCEPT ![Len(acc)] = Append(@, t)]

Separating == INSTANCE SequenceFolds WITH Op <- SeparatorTurn

\* The last part of a list of texts may be replaced.
LEMMA LastReplaced ==
    ASSUME NEW S, NEW acc \in Seq(S), acc # <<>>, NEW x \in S
    PROVE  acc[Len(acc)] \in S /\ [acc EXCEPT ![Len(acc)] = x] \in Seq(S)
<1>1. PICK n \in Nat : n = Len(acc) /\ acc \in [1..n -> S] /\ DOMAIN acc = 1..n
  BY SeqIsFunction
<1>2. n # 0
  BY <1>1
<1>3. acc[n] \in S /\ [acc EXCEPT ![n] = x] \in [1..n -> S]
  BY <1>1, <1>2
<1> QED BY <1>1, <1>3

\* The parts are texts.
LEMMA CutTyped == \A separator : \A text \in Text : CutAfter(text, separator) \in Seq(Text)
<1> SUFFICES ASSUME NEW text \in Text, NEW separator
             PROVE  CutAfter(text, separator) \in Seq(Text)
  OBVIOUS
<1>1. CutAfter(text, separator) = Separating!Folded(separator, <<>>, text)
  BY DEF CutAfter, SeparatorTurn, Separating!Folded, FoldLeft, MapThenFoldSet, Max,
         Separating!FoldLeft, Separating!MapThenFoldSet, Separating!Max
<1>2. ASSUME NEW acc \in Seq(Text), NEW t \in Token
      PROVE  SeparatorTurn(separator, acc, t) \in Seq(Text)
  <2>1. <<t>> \in Text
    BY DEF Text
  <2>2. Append(acc, <<t>>) \in Seq(Text)
    BY <2>1, AppendProperties
  <2>3. ASSUME acc # <<>> PROVE [acc EXCEPT ![Len(acc)] = Append(@, t)] \in Seq(Text)
    <3>1. <<>> \in Text
      BY DEF Text
    <3>2. acc[Len(acc)] \in Text
      BY <2>3, <3>1, LastReplaced
    <3>3. Append(acc[Len(acc)], t) \in Text
      BY <3>2 DEF Text
    <3> QED BY <2>3, <3>3, LastReplaced
  <2> QED BY <2>2, <2>3 DEF SeparatorTurn
<1>3. <<>> \in Seq(Text) /\ text \in Seq(Token)
  BY DEF Text
<1> QED BY <1>1, <1>2, <1>3, Separating!FoldClosed DEF Separating!Closed

\* One kind of separator after the other.
RefineTurn(p, parts, s) ==
    FlattenSeq([i \in DOMAIN parts |->
        IF Len(parts[i]) <= ChunkMax THEN <<parts[i]>> ELSE CutAfter(parts[i], s)])

Refining == INSTANCE SequenceFolds WITH Op <- RefineTurn

\* Cutting the parts that are too long leaves a list of texts.
LEMMA RefinedParts ==
    ASSUME NEW parts \in Seq(Text), NEW g, DOMAIN g = DOMAIN parts,
           g = [i \in DOMAIN parts |-> g[i]], \A i \in DOMAIN parts : g[i] \in Seq(Text)
    PROVE  FlattenSeq(g) \in Seq(Text)
<1>1. g \in Seq(Seq(Text))
  BY MappedIsSeq
<1> QED BY <1>1, Filtering!FlattenIsSeq DEF FlattenSeq, Filtering!FlattenSeq

\* The chunker's sizes.
LEMMA SizesAreNumbers ==
    /\ ChunkMax \in Nat \ {0} /\ ChunkTarget \in Nat \ {0} /\ ChunkMin \in Nat \ {0}
BY BudgetAssumption

\* The splitter returns texts.
LEMMA SplitTyped == \A text \in Text : SplitParts(text) \in Seq(Text)
<1> SUFFICES ASSUME NEW text \in Text PROVE SplitParts(text) \in Seq(Text)
  OBVIOUS
<1> DEFINE cut == Refining!Folded(0, <<text>>, Separators)
           last == [i \in DOMAIN cut |->
                        IF Len(cut[i]) <= ChunkMax THEN <<cut[i]>> ELSE Windows(cut[i], ChunkTarget)]
<1>1. SplitParts(text) = FlattenSeq(last)
  BY DEF SplitParts, RefineTurn, Refining!Folded, FoldLeft, MapThenFoldSet, Max,
         Refining!FoldLeft, Refining!MapThenFoldSet, Refining!Max
<1>2. ASSUME NEW parts \in Seq(Text), NEW s PROVE RefineTurn(0, parts, s) \in Seq(Text)
  <2> DEFINE g == [i \in DOMAIN parts |->
                      IF Len(parts[i]) <= ChunkMax THEN <<parts[i]>> ELSE CutAfter(parts[i], s)]
  <2>1. \A i \in DOMAIN parts : g[i] \in Seq(Text)
    <3>1. \A i \in DOMAIN parts : parts[i] \in Text
      OBVIOUS
    <3> QED BY <3>1, CutTyped
  <2>2. DOMAIN g = DOMAIN parts /\ g = [i \in DOMAIN parts |-> g[i]]
    OBVIOUS
  <2> HIDE DEF g
  <2>3. FlattenSeq(g) \in Seq(Text)
    BY <2>1, <2>2, RefinedParts
  <2> QED BY <2>3 DEF RefineTurn, g
<1>3. <<text>> \in Seq(Text) /\ Separators \in Seq(ToSet(Separators))
  BY BudgetAssumption
<1> HIDE DEF cut
<1>4. cut \in Seq(Text)
  BY <1>2, <1>3, Refining!FoldClosed DEF Refining!Closed, cut
<1>5. \A i \in DOMAIN cut : last[i] \in Seq(Text)
  <2> SUFFICES ASSUME NEW i \in DOMAIN cut PROVE last[i] \in Seq(Text)
    OBVIOUS
  <2>1. cut[i] \in Text
    BY <1>4
  <2>2. Windows(cut[i], ChunkTarget) \in Seq(Text)
    BY <2>1, SizesAreNumbers, WindowsAre DEF WindowsOf, Text
  <2> QED BY <2>1, <2>2
<1>6. DOMAIN last = DOMAIN cut /\ last = [i \in DOMAIN cut |-> last[i]]
  OBVIOUS
<1> HIDE DEF last
<1>7. FlattenSeq(last) \in Seq(Text)
  BY <1>4, <1>5, <1>6, RefinedParts
<1> QED BY <1>1, <1>7

\* One part that is merged with the one before it or not.
MergeTurn(p, acc, part) ==
    IF acc # <<>> /\ \/ Len(Last(acc)) + Len(part) <= ChunkTarget
                     \/ Len(Last(acc)) < ChunkMin /\ Len(Last(acc)) + Len(part) <= ChunkMax
    THEN [acc EXCEPT ![Len(acc)] = @ \o part]
    ELSE Append(acc, part)

Merging == INSTANCE SequenceFolds WITH Op <- MergeTurn

\* Merging leaves texts.
LEMMA MergeTyped == \A parts \in Seq(Text) : MergeParts(parts) \in Seq(Text)
<1> SUFFICES ASSUME NEW parts \in Seq(Text) PROVE MergeParts(parts) \in Seq(Text)
  OBVIOUS
<1>1. MergeParts(parts) = Merging!Folded(0, <<>>, parts)
  BY DEF MergeParts, MergeTurn, Merging!Folded, FoldLeft, MapThenFoldSet, Max,
         Merging!FoldLeft, Merging!MapThenFoldSet, Merging!Max
<1>2. ASSUME NEW acc \in Seq(Text), NEW part \in Text
      PROVE  MergeTurn(0, acc, part) \in Seq(Text)
  <2>1. Append(acc, part) \in Seq(Text)
    BY AppendProperties
  <2>2. ASSUME acc # <<>> PROVE [acc EXCEPT ![Len(acc)] = @ \o part] \in Seq(Text)
    <3>1. acc[Len(acc)] \in Text
      BY <2>2, LastReplaced
    <3>2. acc[Len(acc)] \o part \in Text
      BY <3>1, ConcatProperties DEF Text
    <3> QED BY <2>2, <3>2, LastReplaced
  <2> QED BY <2>1, <2>2 DEF MergeTurn
<1>3. <<>> \in Seq(Text)
  OBVIOUS
<1> QED BY <1>1, <1>2, <1>3, Merging!FoldClosed DEF Merging!Closed

\* The parts of a block are texts.
LEMMA PartsTyped == ASSUME NEW b \in Block PROVE OversizedParts(b) \in Seq(Text)
<1>1. b.text \in Text
  BY FieldsOfBlock
<1>2. Windows(b.text, ChunkTarget) \in Seq(Text)
  BY <1>1, SizesAreNumbers, WindowsAre DEF WindowsOf, Text
<1> QED BY <1>1, <1>2, SplitTyped, MergeTyped DEF OversizedParts

----------------------------------------------------------------------------
(* Lists of chunks *)

\* A function like a list is a list.
LEMMA SamePlaces ==
    ASSUME NEW s, IsList(s), NEW g, g = [i \in DOMAIN s |-> g[i]]
    PROVE  IsList(g) /\ DOMAIN g = DOMAIN s
<1>1. Len(s) \in Nat /\ DOMAIN s = 1..Len(s)
  BY ListPlaces
<1> QED BY <1>1, CountedIsList

\* The fixed chunker makes a list.
LEMMA FixedIsList == \A list \in Seq(Block) : IsList(FixedChunks(list))
<1> SUFFICES ASSUME NEW list \in Seq(Block) PROVE IsList(FixedChunks(list))
  OBVIOUS
<1> DEFINE Marked(i) == [j \in DOMAIN list[i].text |-> [token |-> list[i].text[j], block |-> list[i]]]
           seqs == [i \in DOMAIN list |-> Marked(i)]
           stream == TokenStream(list)
           tokens == [i \in DOMAIN stream |-> stream[i].token]
           windows == Windows(tokens, ChunkMax)
<1>1. \A i \in DOMAIN list : IsList(Marked(i))
  <2> SUFFICES ASSUME NEW i \in DOMAIN list PROVE IsList(Marked(i))
    OBVIOUS
  <2>1. list[i] \in Block
    OBVIOUS
  <2>2. IsList(list[i].text)
    BY <2>1, FieldsOfBlock, ListOf DEF Text
  <2>3. Marked(i) = [j \in DOMAIN list[i].text |-> Marked(i)[j]]
    OBVIOUS
  <2> HIDE DEF Marked
  <2> QED BY <2>2, <2>3, SamePlaces
<1>2. IsList(stream)
  <2>1. Len(list) \in Nat /\ DOMAIN list = 1..Len(list)
    OBVIOUS
  <2>2. seqs = [i \in 1..Len(list) |-> seqs[i]] /\ \A i \in 1..Len(list) : seqs[i] = Marked(i)
    BY <2>1
  <2>3. stream = FlattenSeq(seqs)
    BY DEF TokenStream
  <2> HIDE DEF seqs, Marked, stream
  <2> QED BY <1>1, <2>1, <2>2, <2>3, FlattenIsList
<1>3. IsList(tokens)
  <2>1. tokens = [i \in DOMAIN stream |-> tokens[i]]
    OBVIOUS
  <2> HIDE DEF tokens, stream
  <2> QED BY <1>2, <2>1, SamePlaces
<1>4. IsList(windows)
  <2>1. tokens \in Seq(ToSet(tokens))
    BY <1>3 DEF IsList
  <2> HIDE DEF tokens
  <2>2. windows \in Seq(Seq(ToSet(tokens)))
    BY <2>1, SizesAreNumbers, WindowsAre DEF WindowsOf
  <2> QED BY <2>2, ListOf
<1>5. FixedChunks(list) = [i \in DOMAIN windows |-> FixedChunks(list)[i]]
  BY DEF FixedChunks
<1> HIDE DEF windows
<1> QED BY <1>4, <1>5, SamePlaces

\* One block of the plan.
PlanTurn(p, acc, b) == ApplyPlan(acc, b)

Planning == INSTANCE SequenceFolds WITH Op <- PlanTurn

IsPlan(acc) == DOMAIN acc = {"raw", "buffer", "anchor"} /\ IsList(acc.raw)

\* Flushing the buffer leaves a plan.
LEMMA FlushKeeps == ASSUME NEW acc, IsPlan(acc) PROVE IsPlan(Flush(acc))
<1> DEFINE x == Raw(TextsOf(acc.buffer), acc.buffer, "semantic_merge",
                    TypeOfMerge(acc.buffer), acc.anchor)
<1>1. Flush(acc) = IF acc.buffer = <<>> THEN acc
                   ELSE [acc EXCEPT !.buffer = <<>>, !.raw = Append(acc.raw, x)]
  BY DEF Flush, IsPlan
<1> HIDE DEF x
<1>2. DOMAIN acc = {"raw", "buffer", "anchor"} /\ IsList(Append(acc.raw, x)) /\ IsList(acc.raw)
  BY ListsJoin DEF IsPlan
<1>3. DOMAIN Flush(acc) = {"raw", "buffer", "anchor"}
  BY <1>1, <1>2
<1>4. Flush(acc).raw = IF acc.buffer = <<>> THEN acc.raw ELSE Append(acc.raw, x)
  BY <1>1, <1>2
<1> QED BY <1>2, <1>3, <1>4 DEF IsPlan

\* So does every block of the plan.
LEMMA PlanKeeps == ASSUME NEW acc, IsPlan(acc), NEW b \in Block PROVE IsPlan(ApplyPlan(acc, b))
<1> DEFINE flushed == Flush(acc)
           Cut(parts) == [i \in DOMAIN parts |->
                            Raw(<<parts[i]>>, <<b>>, Strategy(b), TypeOfBlock(b), acc.anchor)]
           Emit(parts) == [flushed EXCEPT !.raw = @ \o Cut(parts)]
           Buffer(from) == [from EXCEPT !.buffer = Append(@, b),
                                        !.anchor = Either(@, AnchorOf(b))]
<1>1. IsPlan(flushed)
  BY FlushKeeps
<1> HIDE DEF flushed
<1>2. ASSUME NEW parts, IsList(parts) PROVE IsPlan(Emit(parts))
  <2>1. Cut(parts) = [i \in DOMAIN parts |-> Cut(parts)[i]]
    OBVIOUS
  <2> DEFINE e == Emit(parts)
             c == Cut(parts)
  <2>2. e = [flushed EXCEPT !.raw = @ \o c]
    OBVIOUS
  <2> HIDE DEF e, c
  <2>3. IsList(c)
    BY <1>2, <2>1, SamePlaces DEF c
  <2>4. DOMAIN flushed = {"raw", "buffer", "anchor"} /\ IsList(flushed.raw \o c)
    BY <1>1, <2>3, ListsJoin DEF IsPlan
  <2>5. DOMAIN e = DOMAIN flushed /\ e.raw = flushed.raw \o c
    BY <2>2, <2>4
  <2>6. IsPlan(e)
    BY <2>4, <2>5 DEF IsPlan
  <2> QED BY <2>6 DEF e
<1>3. ASSUME NEW from, IsPlan(from) PROVE IsPlan(Buffer(from))
  <2>1. DOMAIN from = {"raw", "buffer", "anchor"} /\ IsList(from.raw)
    BY <1>3 DEF IsPlan
  <2>2. DOMAIN Buffer(from) = DOMAIN from /\ Buffer(from).raw = from.raw
    BY <2>1
  <2> HIDE DEF Buffer
  <2> QED BY <2>1, <2>2 DEF IsPlan
<1>4. IsPlan([flushed EXCEPT !.anchor = AnchorOf(b)])
  <2>1. DOMAIN flushed = {"raw", "buffer", "anchor"} /\ IsList(flushed.raw)
    BY <1>1 DEF IsPlan
  <2> DEFINE e == [flushed EXCEPT !.anchor = AnchorOf(b)]
  <2>2. DOMAIN e = DOMAIN flushed /\ e.raw = flushed.raw
    BY <2>1
  <2> HIDE DEF e
  <2>3. IsPlan(e)
    BY <2>1, <2>2 DEF IsPlan
  <2> QED BY <2>3 DEF e
<1>5. ApplyPlan(acc, b) =
        IF Strategy(b) = "heading_anchored" THEN [flushed EXCEPT !.anchor = AnchorOf(b)]
        ELSE IF IsWindowed(b) THEN Emit(OversizedParts(b))
        ELSE IF IsStandalone(b) THEN Emit(<<b.text>>)
        ELSE Buffer(IF ShouldFlush(acc.buffer, b) THEN flushed ELSE acc)
  BY DEF ApplyPlan, flushed
<1>6. IsList(OversizedParts(b))
  BY PartsTyped, ListOf
<1>7. IsList(<<b.text>>)
  <2>1. <<b.text>> \in Seq({b.text})
    OBVIOUS
  <2> QED BY <2>1, ListOf
<1> HIDE DEF Emit, Buffer
<1>8. IsPlan(Emit(OversizedParts(b))) /\ IsPlan(Emit(<<b.text>>))
  BY <1>2, <1>6, <1>7
<1>9. IsPlan(Buffer(IF ShouldFlush(acc.buffer, b) THEN flushed ELSE acc))
  <2>1. CASE ShouldFlush(acc.buffer, b)
    BY <1>1, <1>3, <2>1
  <2>2. CASE ~ShouldFlush(acc.buffer, b)
    BY <1>3, <2>2
  <2> QED BY <2>1, <2>2
<1> QED BY <1>4, <1>5, <1>8, <1>9

\* The semantic chunker makes a list.
LEMMA SemanticIsList == \A list \in Seq(Block) : IsList(SemanticChunks(list))
<1> SUFFICES ASSUME NEW list \in Seq(Block) PROVE IsList(SemanticChunks(list))
  OBVIOUS
<1> DEFINE planned == PlannedBlocks(list)
           base == [raw |-> <<>>, buffer |-> <<>>, anchor |-> <<>>]
           result == Planning!Folded(0, base, planned)
<1>1. SemanticChunks(list) = Flush(result).raw
  BY DEF SemanticChunks, PlanTurn, Planning!Folded, FoldLeft, MapThenFoldSet, Max,
         Planning!FoldLeft, Planning!MapThenFoldSet, Planning!Max
<1>2. planned \in Seq(Block)
  BY AmongPicks DEF PlannedBlocks, Those
<1>3. IsPlan(base)
  <2>1. IsList(<<>>)
    <3>1. <<>> \in Seq({})
      OBVIOUS
    <3> QED BY <3>1, ListOf
  <2> QED BY <2>1 DEF IsPlan
<1> HIDE DEF planned, base
<1>4. PICK n \in Nat : DOMAIN planned = 1..n /\ \A k \in 1..n : planned[k] \in Block
  BY <1>2, SeqIsFunction
<1>5. PICK g : Planning!Trace(g, 0, base, planned, n)
  BY <1>4, Planning!FoldTraces
<1>6. /\ g[0] = base /\ Planning!Folded(0, base, planned) = g[n]
      /\ \A k \in 1..n : g[k] = PlanTurn(0, g[k - 1], planned[k])
  BY <1>5 DEF Planning!Trace
<1> DEFINE K == {k \in Nat : IsPlan(g[k])}
<1>7. 0 \in K
  BY <1>3, <1>6
<1>8. ASSUME NEW k \in 1..n, k - 1 \in K PROVE k \in K
  BY <1>4, <1>6, <1>8, PlanKeeps DEF PlanTurn
<1> HIDE DEF K
<1>9. n \in K
  <2>1. 0..n \subseteq K
    BY <1>7, <1>8, Planning!UpTo
  <2> QED BY <2>1
<1>10. IsPlan(result)
  BY <1>6, <1>9 DEF K
<1> HIDE DEF result
<1> QED BY <1>1, <1>10, FlushKeeps DEF IsPlan

\* What a document is cut into is a list, whichever chunker cuts it.
LEMMA ChunksAreList == \A kind : \A list \in Seq(Block) : IsList(ChunkWith(kind, list))
<1> SUFFICES ASSUME NEW kind, NEW list \in Seq(Block) PROVE IsList(ChunkWith(kind, list))
  OBVIOUS
<1> DEFINE raws == IF kind = "fixed" THEN FixedChunks(list) ELSE SemanticChunks(list)
           Built(i) == IF raws[i].text = <<>> \/ raws[i].blocks = <<>>
                       THEN <<>> ELSE <<BuildChunk(raws[i], i, Len(raws))>>
           built == [i \in DOMAIN raws |-> Built(i)]
<1>1. IsList(raws)
  BY FixedIsList, SemanticIsList
<1>2. \A i : IsList(Built(i))
  <2>1. IsList(<<>>)
    <3>1. <<>> \in Seq({})
      OBVIOUS
    <3> QED BY <3>1, ListOf
  <2>2. \A x : IsList(<<x>>)
    <3>1. \A x : <<x>> \in Seq({x})
      OBVIOUS
    <3> QED BY <3>1, ListOf
  <2> QED BY <2>1, <2>2
<1> HIDE DEF Built, raws
<1>3. BuildChunks(raws) = FlattenSeq(built)
  BY DEF BuildChunks, Built
<1>4. IsList(BuildChunks(raws))
  <2>1. Len(raws) \in Nat /\ DOMAIN raws = 1..Len(raws)
    BY <1>1, ListPlaces
  <2>2. built = [i \in 1..Len(raws) |-> built[i]] /\ \A i \in 1..Len(raws) : built[i] = Built(i)
    BY <2>1
  <2> HIDE DEF built
  <2> QED BY <1>2, <1>3, <2>1, <2>2, FlattenIsList
<1> DEFINE chunks0 == BuildChunks(raws)
           linked == PostProcess(chunks0)
<1>5. linked = [i \in DOMAIN chunks0 |-> linked[i]]
  BY DEF PostProcess
<1>6. ChunkWith(kind, list) = linked
  BY DEF ChunkWith, raws
<1> HIDE DEF chunks0, linked
<1>7. IsList(chunks0)
  BY <1>4 DEF chunks0
<1> QED BY <1>5, <1>6, <1>7, SamePlaces

----------------------------------------------------------------------------
(* Vectors *)

\* The places that have no vector yet.
MissingAt(v) == {i \in DOMAIN v : v[i] = NoVector}

\* What Missing returns: those places, in order, each once.
MissingIs(v) ==
    /\ Missing(v) \in Seq(Nat) /\ ToSet(Missing(v)) = MissingAt(v)
    /\ IsFiniteSet(MissingAt(v)) /\ Cardinality(MissingAt(v)) = Len(Missing(v))

\* It does, for any list.
LEMMA MissingAre == \A v : IsList(v) => MissingIs(v)
<1> SUFFICES ASSUME NEW v, IsList(v) PROVE MissingIs(v)
  OBVIOUS
<1> DEFINE s == [i \in DOMAIN v |-> i]
           T == {i \in ToSet(s) : v[i] = NoVector}
<1>1. PICK n \in Nat : n = Len(v) /\ DOMAIN v = 1..n
  BY ListPlaces
<1>2. s \in Seq(Nat) /\ s = [i \in 1..n |-> i] /\ ToSet(s) = 1..n
  <2>1. s = [i \in 1..n |-> i] /\ s \in [1..n -> Nat]
    BY <1>1
  <2> QED BY <2>1 DEF ToSet
<1>3. Missing(v) = Among(s, T)
  BY DEF Missing, Those
<1>4. T = MissingAt(v) /\ T \subseteq 1..n
  BY <1>1, <1>2 DEF MissingAt
<1> HIDE DEF s, T
<1>5. PICK r \in Seq(Nat) : r = Among(s, T) /\ ToSet(r) = ToSet(s) \cap T
  BY <1>2, AmongPicks
<1>6. ToSet(r) = T
  BY <1>2, <1>4, <1>5
<1>7. PICK at : Picked(r, s, T, at)
  BY <1>2, <1>5, AmongPicks
<1>8. PICK m \in Nat : m = Len(r) /\ DOMAIN r = 1..m
  BY SeqIsFunction
<1>9. /\ \A i \in 1..m : at[i] \in 1..n /\ r[i] = at[i] /\ r[i] \in T
      /\ \A k, l \in 1..m : k < l => at[k] < at[l]
  BY <1>2, <1>7, <1>8 DEF Picked
<1>10. \A k, l \in 1..m : r[k] = r[l] => k = l
  <2>1. \A k, l \in 1..m : at[k] = at[l] => k = l
    <3>1. \A i \in 1..m : at[i] \in Int
      BY <1>9
    <3> QED BY <1>9, <3>1, RisingIsInjective
  <2> QED BY <1>9, <2>1
<1>11. r \in Bijection(1..m, T)
  <2>1. r \in [1..m -> T]
    <3>1. r = [i \in 1..m |-> r[i]]
      BY <1>8
    <3> QED BY <1>9, <3>1
  <2>2. \A t \in T : \E i \in 1..m : r[i] = t
    BY <1>6, <1>8 DEF ToSet
  <2> QED BY <1>10, <2>1, <2>2 DEF Bijection, Injection, Surjection, IsInjective
<1>12. Cardinality(T) = m
  BY <1>11, FS_CountingElements DEF ExistsBijection
<1>13. IsFiniteSet(T)
  <2>1. IsFiniteSet(1..n) /\ T \in SUBSET (1..n)
    BY <1>4, FS_Interval
  <2> QED BY <2>1, FS_Subset
<1> QED BY <1>3, <1>4, <1>5, <1>6, <1>8, <1>12, <1>13 DEF MissingIs

\* The next batch: places without a vector, one at least while there are any.
LEMMA BatchIs ==
    ASSUME NEW v, IsList(v), NEW batch, batch = NextBatch(v)
    PROVE  /\ IsList(batch)
           /\ \A k \in DOMAIN batch : batch[k] \in MissingAt(v)
           /\ Missing(v) # <<>> => Len(batch) >= 1
<1>1. Missing(v) \in Seq(Nat) /\ ToSet(Missing(v)) = MissingAt(v)
  BY MissingAre DEF MissingIs
<1> DEFINE r == Missing(v)
<1>2. PICK m \in Nat : m = Len(r) /\ DOMAIN r = 1..m
  BY <1>1, SeqIsFunction
<1>3. \A i \in 1..m : r[i] \in MissingAt(v)
  BY <1>1, <1>2 DEF ToSet
<1> DEFINE c == Min({BatchSize, m})
<1>4. batch = SubSeq(r, 1, c)
  BY <1>2 DEF NextBatch, Take
<1>5. c \in 0..m /\ (m # 0 => c >= 1)
  <2>1. BatchSize \in Nat \ {0}
    BY BoundsAreNumbers
  <2>2. c = IF BatchSize <= m THEN BatchSize ELSE m
    BY <2>1, MinOfTwo
  <2> HIDE DEF c
  <2> QED BY <2>1, <2>2
<1>6. r # <<>> => m # 0
  BY <1>1, <1>2
<1> HIDE DEF r, c
<1>7. batch = [i \in 1..c |-> r[i]]
  BY <1>2, <1>4, <1>5
<1>8. batch = [i \in 1..c |-> batch[i]] /\ DOMAIN batch = 1..c /\ \A i \in 1..c : batch[i] = r[i]
  BY <1>7
<1>9. IsList(batch) /\ Len(batch) = c
  BY <1>5, <1>8, CountedIsList
<1>10. \A i \in 1..c : i \in 1..m
  BY <1>5
<1> QED BY <1>3, <1>5, <1>6, <1>8, <1>9, <1>10 DEF r

\* A valid answer holds the vectors of its texts, in order, maybe one too few.
LEMMA ValidAnswerIsRight ==
    ASSUME NEW texts, IsList(texts), Len(texts) >= 1, NEW answer \in Answers(texts),
           IsValidAnswer(answer)
    PROVE  /\ IsList(answer) /\ Len(answer) <= Len(texts)
           /\ \A k \in 1..Len(answer) : answer[k] = VectorOf(texts[k])
<1> DEFINE right == [k \in DOMAIN texts |-> VectorOf(texts[k])]
<1>1. PICK n \in Nat : n = Len(texts) /\ DOMAIN texts = 1..n /\ n >= 1
  BY ListPlaces
<1>2. right = [k \in 1..n |-> right[k]] /\ DOMAIN right = 1..n /\ \A k \in 1..n : right[k] = VectorOf(texts[k])
  BY <1>1
<1>3. \/ answer = right \/ answer = Front(right)
      \/ \E k \in DOMAIN texts : answer = [right EXCEPT ![k] = WrongSize]
  BY DEF Answers
<1> HIDE DEF right
<1>4. IsList(right) /\ Len(right) = n
  BY <1>2, CountedIsList
<1>5. CASE answer = right
  BY <1>1, <1>2, <1>4, <1>5
<1>6. CASE answer = Front(right)
  <2>1. answer = [k \in 1..(n - 1) |-> right[k]]
    BY <1>1, <1>4, <1>6 DEF Front, IsList
  <2>2. /\ answer = [k \in 1..(n - 1) |-> answer[k]] /\ n - 1 \in Nat
        /\ \A k \in 1..(n - 1) : k \in 1..n /\ answer[k] = right[k]
    BY <1>1, <2>1
  <2>3. IsList(answer) /\ Len(answer) = n - 1
    BY <2>2, CountedIsList
  <2>4. \A k \in 1..(n - 1) : answer[k] = VectorOf(texts[k])
    BY <1>2, <2>2
  <2>5. Len(answer) <= Len(texts)
    BY <1>1, <2>3
  <2> QED BY <2>3, <2>4, <2>5
<1>7. ASSUME NEW k \in DOMAIN texts, answer = [right EXCEPT ![k] = WrongSize] PROVE FALSE
  <2>1. k \in DOMAIN answer /\ answer[k] = WrongSize
    BY <1>1, <1>2, <1>7
  <2> HIDE DEF WrongSize
  <2> QED BY <2>1 DEF IsValidAnswer, ToSet
<1>8. answer = right \/ answer = Front(right)
  BY <1>3, <1>7
<1> QED BY <1>5, <1>6, <1>8

\* A list of vectors with a place for each text, that text's or empty.
Owned(v, texts) ==
    /\ IsList(v) /\ DOMAIN v = DOMAIN texts
    /\ \A i \in DOMAIN v : v[i] \in {NoVector, VectorOf(texts[i])}

RightCache(known) == \A t \in DOMAIN known : known[t] = VectorOf(t)

\* answer has the vectors of the texts at the first places of batch.
RightAnswer(answer, texts, batch) ==
    /\ IsList(answer) /\ Len(answer) <= Len(batch)
    /\ \A k \in 1..Len(answer) : answer[k] = VectorOf(texts[batch[k]])

\* A vector is not nothing.
LEMMA VectorsAreThere == \A t : VectorOf(t) # NoVector
BY DEF VectorOf, NoVector

\* x stands at i for what it had or for the vector the batch has for it, and
\* for that if all of them were answered.
FilledWith(x, v, i, batch, answer) ==
    LET Answered(k) == batch[k] = i /\ x = answer[k] IN
    /\ x = v[i] \/ \E k \in 1..Len(batch) : k \in DOMAIN answer /\ Answered(k)
    /\ (\E k \in 1..Len(batch) : batch[k] = i) /\ 1..Len(batch) \subseteq DOMAIN answer =>
            \E k \in 1..Len(batch) : Answered(k)

\* That is what is filled in.
LEMMA FilledAt ==
    ASSUME NEW v, NEW batch, IsList(batch), NEW answer, IsList(answer), NEW i \in DOMAIN v
    PROVE  FilledWith(Fill(v, batch, answer)[i], v, i, batch, answer)
<1> DEFINE I == {j \in 1..Len(batch) : batch[j] = i}
           k == IF I # {} THEN Min(I) ELSE 0
<1>1. Fill(v, batch, answer)[i] = IF k \in DOMAIN answer THEN answer[k] ELSE v[i]
  BY DEF Fill, SelectInSeq
<1>2. Len(batch) \in Nat /\ DOMAIN answer = 1..Len(answer) /\ Len(answer) \in Nat
  BY ListPlaces
<1>3. I \in SUBSET Nat /\ \A j \in I : j \in 1..Len(batch) /\ batch[j] = i
  BY <1>2
<1>4. \A j \in 1..Len(batch) : batch[j] = i => j \in I
  OBVIOUS
<1> HIDE DEF I
<1>5. I # {} => Min(I) \in I
  BY <1>3, Filtering!MinOf DEF Min, Filtering!Min
<1> SUFFICES /\ Fill(v, batch, answer)[i] = v[i] \/
                    \E j \in 1..Len(batch) : j \in DOMAIN answer /\ batch[j] = i
                                               /\ Fill(v, batch, answer)[i] = answer[j]
             /\ (\E j \in 1..Len(batch) : batch[j] = i) /\ 1..Len(batch) \subseteq DOMAIN answer =>
                    \E j \in 1..Len(batch) : batch[j] = i /\ Fill(v, batch, answer)[i] = answer[j]
  BY DEF FilledWith
<1>6. CASE I # {}
  <2>1. k \in I
    BY <1>5, <1>6
  <2> HIDE DEF k
  <2>2. k \in 1..Len(batch) /\ batch[k] = i
    BY <1>3, <2>1
  <2> QED BY <1>1, <2>2
<1>7. CASE I = {}
  <2>1. k = 0 /\ k \notin DOMAIN answer
    BY <1>2, <1>7
  <2> HIDE DEF k
  <2> QED BY <1>1, <1>4, <1>7, <2>1
<1> QED BY <1>6, <1>7

\* A right answer keeps the places owned, and a whole one leaves fewer empty.
LEMMA FillKeeps ==
    ASSUME NEW texts, NEW v, Owned(v, texts), Missing(v) # <<>>,
           NEW batch, batch = NextBatch(v), NEW answer, RightAnswer(answer, texts, batch)
    PROVE  /\ Owned(Fill(v, batch, answer), texts)
           /\ Len(answer) >= Len(batch) =>
                Len(Missing(Fill(v, batch, answer))) < Len(Missing(v))
<1> DEFINE w == Fill(v, batch, answer)
<1>1. /\ IsList(v) /\ DOMAIN v = DOMAIN texts
      /\ \A i \in DOMAIN v : v[i] \in {NoVector, VectorOf(texts[i])}
  BY DEF Owned
<1>2. /\ IsList(answer) /\ DOMAIN answer = 1..Len(answer) /\ Len(answer) \in Nat
      /\ Len(answer) <= Len(batch)
      /\ \A k \in 1..Len(answer) : answer[k] = VectorOf(texts[batch[k]])
  BY ListPlaces DEF RightAnswer
<1>3. /\ IsList(batch) /\ Len(batch) \in Nat /\ Len(batch) >= 1 /\ DOMAIN batch = 1..Len(batch)
      /\ \A k \in DOMAIN batch : batch[k] \in MissingAt(v)
  BY <1>1, BatchIs, ListPlaces
<1>4. w = [i \in DOMAIN v |-> w[i]]
  BY DEF Fill
<1>a. \A i \in DOMAIN v : FilledWith(w[i], v, i, batch, answer)
  BY <1>2, <1>3, FilledAt
<1>5. \A i \in DOMAIN v : \/ w[i] = v[i]
                          \/ \E k \in 1..Len(batch) : batch[k] = i /\ k \in DOMAIN answer
                                                      /\ w[i] = answer[k]
  BY <1>a DEF FilledWith
<1>6. \A i \in DOMAIN v : w[i] = v[i] \/ w[i] = VectorOf(texts[i])
  BY <1>2, <1>5
<1>7. \A i \in DOMAIN v : (\E k \in 1..Len(batch) : batch[k] = i) /\ 1..Len(batch) \subseteq DOMAIN answer =>
                \E k \in 1..Len(batch) : batch[k] = i /\ w[i] = answer[k]
  BY <1>a DEF FilledWith
<1> HIDE DEF w
<1>8. IsList(w) /\ DOMAIN w = DOMAIN v
  BY <1>1, <1>4, SamePlaces
<1>9. Owned(w, texts)
  BY <1>1, <1>6, <1>8 DEF Owned
<1>10. ASSUME Len(answer) >= Len(batch) PROVE Len(Missing(w)) < Len(Missing(v))
  <2>1. MissingAt(w) \subseteq MissingAt(v)
    BY <1>6, <1>8, VectorsAreThere DEF MissingAt
  <2>a. Len(answer) \in Nat /\ Len(batch) \in Nat /\ Len(answer) <= Len(batch)
    BY <1>2, <1>3
  <2>b. Len(answer) = Len(batch)
    BY <1>10, <2>a
  <2>2. 1..Len(batch) \subseteq DOMAIN answer /\ Len(answer) = Len(batch)
    BY <1>2, <2>b
  <2> DEFINE i == batch[1]
  <2>3. 1 \in 1..Len(batch) /\ i \in MissingAt(v) /\ i \in DOMAIN v
    BY <1>3 DEF MissingAt
  <2> HIDE DEF i
  <2>4. PICK k \in 1..Len(batch) : batch[k] = i /\ w[i] = answer[k]
    BY <1>7, <2>2, <2>3 DEF i
  <2>5. w[i] = VectorOf(texts[i])
    BY <1>2, <2>2, <2>4
  <2>6. i \notin MissingAt(w)
    BY <2>5, VectorsAreThere DEF MissingAt
  <2>7. MissingIs(v) /\ MissingIs(w)
    BY <1>1, <1>8, MissingAre
  <2>8. /\ Cardinality(MissingAt(w)) <= Cardinality(MissingAt(v))
        /\ Cardinality(MissingAt(w)) # Cardinality(MissingAt(v))
        /\ Cardinality(MissingAt(w)) \in Nat /\ Cardinality(MissingAt(v)) \in Nat
    BY <2>1, <2>3, <2>6, <2>7, FS_Subset, FS_CardinalityType DEF MissingIs
  <2>9. /\ Cardinality(MissingAt(w)) = Len(Missing(w))
        /\ Cardinality(MissingAt(v)) = Len(Missing(v))
    BY <2>7 DEF MissingIs
  <2> QED BY <2>8, <2>9
<1> QED BY <1>9, <1>10 DEF w

\* What a right answer adds to the cache is right.
LEMMA CacheStaysRight ==
    ASSUME NEW known, RightCache(known), NEW texts, NEW batch, NEW answer,
           RightAnswer(answer, texts, batch)
    PROVE  RightCache(CacheWith(known, texts, batch, answer))
<1> DEFINE K(t) == {k \in DOMAIN answer : texts[batch[k]] = t}
           new == [t \in {texts[batch[k]] : k \in DOMAIN answer} |-> answer[Max(K(t))]]
<1>1. /\ DOMAIN answer = 1..Len(answer) /\ Len(answer) \in Nat
      /\ \A k \in 1..Len(answer) : answer[k] = VectorOf(texts[batch[k]])
  BY ListPlaces DEF RightAnswer
<1>2. ASSUME NEW t \in DOMAIN new PROVE new[t] = VectorOf(t)
  <2>1. new[t] = answer[Max(K(t))]
    OBVIOUS
  <2>2. K(t) \subseteq 1..Len(answer) /\ K(t) # {} /\ \A k \in K(t) : texts[batch[k]] = t
    BY <1>1
  <2> HIDE DEF K, new
  <2>3. Max(K(t)) \in K(t)
    BY <1>1, <2>2, LastPlace
  <2> QED BY <1>1, <2>1, <2>2, <2>3
<1>3. CacheWith(known, texts, batch, answer) = Updated(known, new)
  BY DEF CacheWith
<1> HIDE DEF new
<1> QED BY <1>2, <1>3 DEF RightCache, Updated

\* One chunk of the list that is searched for duplicates.
VectorTurn(p, kept, c) ==
    IF \E k \in ToSet(kept) : SuppressedBy(c, k) THEN kept ELSE Append(kept, c)

Thinning == INSTANCE SequenceFolds WITH Op <- VectorTurn

\* What is left of a list of chunks.
Thinned(kept, list) ==
    /\ IsList(kept) /\ ToSet(kept) \subseteq ToSet(list)
    /\ \A i, j \in DOMAIN kept : i < j => ~SuppressedBy(kept[j], kept[i])

\* No chunk of it repeats one before it.
LEMMA DeduplicateThins == ASSUME NEW list, IsList(list) PROVE Thinned(DeduplicateVectors(list), list)
<1> DEFINE S == ToSet(list)
           Apart(a) == \A i, j \in DOMAIN a : i < j => ~SuppressedBy(a[j], a[i])
           A == {a \in Seq(S) : Apart(a)}
<1>1. DeduplicateVectors(list) = Thinning!Folded(0, <<>>, list)
  BY DEF DeduplicateVectors, VectorTurn, Thinning!Folded, FoldLeft, MapThenFoldSet, Max,
         Thinning!FoldLeft, Thinning!MapThenFoldSet, Thinning!Max
<1>2. ASSUME NEW a \in A, NEW c \in S PROVE VectorTurn(0, a, c) \in A
  <2>1. PICK n \in Nat : n = Len(a) /\ DOMAIN a = 1..n
    BY SeqIsFunction
  <2>2. /\ Append(a, c) \in Seq(S) /\ DOMAIN Append(a, c) = 1..(n + 1)
        /\ Append(a, c)[n + 1] = c /\ \A i \in 1..n : Append(a, c)[i] = a[i]
    BY <2>1, AppendProperties
  <2>3. Apart(a)
    OBVIOUS
  <2>4. ASSUME \A k \in ToSet(a) : ~SuppressedBy(c, k) PROVE Apart(Append(a, c))
    <3> SUFFICES ASSUME NEW i \in 1..(n + 1), NEW j \in 1..(n + 1), i < j
                 PROVE  ~SuppressedBy(Append(a, c)[j], Append(a, c)[i])
      BY <2>2
    <3>1. i \in 1..n /\ Append(a, c)[i] = a[i] /\ a[i] \in ToSet(a)
      BY <2>1, <2>2 DEF ToSet
    <3>2. CASE j = n + 1
      BY <2>2, <2>4, <3>1, <3>2
    <3>3. CASE j # n + 1
      <4>1. j \in 1..n
        BY <3>3
      <4> QED BY <2>1, <2>2, <2>3, <3>1, <4>1
    <3> QED BY <3>2, <3>3
  <2>5. CASE \E k \in ToSet(a) : SuppressedBy(c, k)
    BY <2>5 DEF VectorTurn
  <2>6. CASE ~\E k \in ToSet(a) : SuppressedBy(c, k)
    <3>1. VectorTurn(0, a, c) = Append(a, c)
      BY <2>6 DEF VectorTurn
    <3> HIDE DEF Apart
    <3> QED BY <2>2, <2>4, <2>6, <3>1
  <2> QED BY <2>5, <2>6
<1>3. <<>> \in A
  OBVIOUS
<1>4. list \in Seq(S)
  BY DEF IsList
<1> HIDE DEF A, S
<1>5. Thinning!Folded(0, <<>>, list) \in A
  BY <1>2, <1>3, <1>4, Thinning!FoldClosed DEF Thinning!Closed
<1>6. PICK kept \in Seq(S) : kept = DeduplicateVectors(list) /\ Apart(kept)
  BY <1>1, <1>5 DEF A
<1>7. ToSet(kept) \subseteq S
  BY DEF ToSet
<1>8. IsList(kept)
  BY ListOf
<1> QED BY <1>6, <1>7, <1>8 DEF Thinned, S

----------------------------------------------------------------------------
(* Embedding *)

\* What is known of chunks and vectors from stage to stage.
VectorsInv ==
    /\ IsList(chunks) /\ IsList(made) /\ RightCache(cache)
    /\ pc \in {"take_generator", "lookup", "embed"} =>
            \A i \in DOMAIN chunks : "embedding" \in DOMAIN chunks[i]
    /\ pc = "embed" => Owned(vectors, Texts)
    /\ pc \in {"deduplicate_vectors", "index", "audit", "returned"} =>
            \A c \in ToSet(chunks) : c.vector = VectorOf(c.embedding)
    /\ pc \in {"index", "audit", "returned"} =>
            \A i, j \in DOMAIN chunks : i < j => ~SuppressedBy(chunks[j], chunks[i])

\* The stages it says something of.
OfVectors == {"take_generator", "lookup", "embed", "deduplicate_vectors", "index", "audit",
              "returned"}

\* Nothing is a list.
LEMMA NothingIsList == IsList(<<>>)
<1>1. <<>> \in Seq({})
  OBVIOUS
<1> QED BY <1>1, ListOf

\* A call that raises leaves the cache only.
LEMMA RaiseKeepsVectors == ASSUME Raise, RightCache(cache') PROVE VectorsInv'
<1>1. chunks' = <<>> /\ made' = <<>> /\ pc' = "raised"
  BY DEF Raise
<1> QED BY <1>1, NothingIsList DEF VectorsInv

\* An attempt at a batch fails the call, costs an attempt, or leaves fewer
\* places without their vector.
Tried ==
    /\ UNCHANGED <<pc, document, chunks>>
    /\ \/ UNCHANGED <<cache, vectors>> /\ attempt' = attempt + 1
       \/ /\ RightCache(cache') /\ Owned(vectors', Texts)
          /\ Len(Missing(vectors')) < Len(Missing(vectors))

\* Whatever the model answers.
LEMMA EmbedTries == ASSUME VectorsInv, EmbedBatch PROVE (Raise /\ RightCache(cache')) \/ Tried
<1>1. pc = "embed" /\ Missing(vectors) # <<>> /\ Owned(vectors, Texts) /\ RightCache(cache)
  BY DEF VectorsInv, EmbedBatch
<1> DEFINE batch == NextBatch(vectors)
           texts == TextsAt(Texts, batch)
           Retry == IF HasAttemptsLeft(attempt)
                    THEN /\ attempt' = attempt + 1
                         /\ UNCHANGED <<pc, document, chunks, vectors, cache, using>>
                    ELSE Raise /\ UNCHANGED cache
<1>2. \/ Retry
      \/ \E answer \in Answers(texts) :
            IF ~IsValidAnswer(answer) THEN Retry
            ELSE /\ cache' = CacheWith(cache, Texts, batch, answer)
                 /\ IF Len(answer) < Len(batch) THEN Raise
                    ELSE /\ vectors' = Fill(vectors, batch, answer)
                         /\ attempt' = 1
                         /\ UNCHANGED <<pc, document, chunks, using>>
  BY DEF EmbedBatch
<1>3. Retry => (Raise /\ RightCache(cache')) \/ Tried
  BY <1>1 DEF Tried
<1> HIDE DEF Retry
<1>4. IsList(batch) /\ Len(batch) >= 1 /\ DOMAIN batch = 1..Len(batch) /\ Len(batch) \in Nat
  BY <1>1, BatchIs, ListPlaces DEF Owned
<1>5. texts = [k \in DOMAIN batch |-> texts[k]] /\ \A k \in DOMAIN batch : texts[k] = Texts[batch[k]]
  BY DEF TextsAt
<1> HIDE DEF batch, texts
<1>6. IsList(texts) /\ Len(texts) = Len(batch)
  <2>1. IsList(texts) /\ DOMAIN texts = DOMAIN batch
    BY <1>4, <1>5, SamePlaces
  <2>2. DOMAIN texts = 1..Len(texts) /\ Len(texts) \in Nat
    BY <2>1, ListPlaces
  <2> QED BY <1>4, <2>1, <2>2
<1>7. ASSUME NEW answer \in Answers(texts), IsValidAnswer(answer) PROVE RightAnswer(answer, Texts, batch)
  <2>1. /\ IsList(answer) /\ Len(answer) <= Len(texts)
        /\ \A k \in 1..Len(answer) : answer[k] = VectorOf(texts[k])
    BY <1>4, <1>6, <1>7, ValidAnswerIsRight
  <2>2. Len(answer) \in Nat
    BY <2>1, ListPlaces
  <2>3. \A k \in 1..Len(answer) : k \in DOMAIN batch
    BY <1>4, <1>6, <2>1, <2>2
  <2> QED BY <1>5, <1>6, <2>1, <2>3 DEF RightAnswer
<1>8. ASSUME NEW answer \in Answers(texts), IsValidAnswer(answer),
             cache' = CacheWith(cache, Texts, batch, answer)
      PROVE  RightCache(cache')
  BY <1>1, <1>7, <1>8, CacheStaysRight
<1>9. ASSUME NEW answer \in Answers(texts), IsValidAnswer(answer), ~(Len(answer) < Len(batch)),
             vectors' = Fill(vectors, batch, answer)
      PROVE  Owned(vectors', Texts) /\ Len(Missing(vectors')) < Len(Missing(vectors))
  <2>1. RightAnswer(answer, Texts, batch)
    BY <1>7, <1>9
  <2>2. Len(answer) \in Nat
    BY <2>1, ListPlaces DEF RightAnswer
  <2>3. Len(answer) >= Len(batch)
    BY <1>4, <1>9, <2>2
  <2> QED BY <1>1, <1>9, <2>1, <2>3, FillKeeps DEF batch
<1>10. CASE Retry
  BY <1>3, <1>10
<1>11. ASSUME NEW answer \in Answers(texts), IsValidAnswer(answer),
              cache' = CacheWith(cache, Texts, batch, answer),
              IF Len(answer) < Len(batch) THEN Raise
              ELSE /\ vectors' = Fill(vectors, batch, answer)
                   /\ attempt' = 1
                   /\ UNCHANGED <<pc, document, chunks, using>>
       PROVE  (Raise /\ RightCache(cache')) \/ Tried
  <2>1. RightCache(cache')
    BY <1>8, <1>11
  <2>2. CASE Len(answer) < Len(batch)
    BY <1>11, <2>1, <2>2
  <2>3. CASE ~(Len(answer) < Len(batch))
    BY <1>9, <1>11, <2>1, <2>3 DEF Tried
  <2> QED BY <2>2, <2>3
<1> QED BY <1>2, <1>10, <1>11

\* Steps that touch neither chunks nor vectors.
LEMMA OthersKeepVectors ==
    ASSUME VectorsInv, UNCHANGED <<chunks, made, cache, vectors>>, pc' = pc \/ pc' \notin OfVectors
    PROVE  VectorsInv'
<1>1. CASE pc' = pc
  BY <1>1 DEF VectorsInv, Texts, Owned
<1>2. CASE pc' \notin OfVectors
  BY <1>2 DEF VectorsInv, OfVectors
<1> QED BY <1>1, <1>2

\* The chunks that are ready to be embedded have their text.
LEMMA PreparedChunks ==
    \A list : IsList(list) => /\ IsList(PrepareChunks(list))
                              /\ \A i \in DOMAIN PrepareChunks(list) :
                                    "embedding" \in DOMAIN PrepareChunks(list)[i]
<1> SUFFICES ASSUME NEW list, IsList(list)
             PROVE  /\ IsList(PrepareChunks(list))
                    /\ \A i \in DOMAIN PrepareChunks(list) :
                            "embedding" \in DOMAIN PrepareChunks(list)[i]
  OBVIOUS
<1> DEFINE Text1(i) == EmbeddingText(list[i])
           new(i) == [embedding |-> Take(Text1(i), MaxEmbedding), truncated |-> IsOverBudget(list[i])]
           ready == PrepareChunks(list)
<1>1. \A i : "embedding" \in DOMAIN new(i)
  OBVIOUS
<1>2. ready = [i \in DOMAIN list |-> Updated(list[i], new(i))]
  BY DEF PrepareChunks
<1> HIDE DEF new, ready
<1>3. \A i \in DOMAIN list : "embedding" \in DOMAIN ready[i]
  BY <1>1, <1>2 DEF Updated
<1>4. ready = [i \in DOMAIN list |-> ready[i]]
  BY <1>2
<1>5. IsList(ready) /\ DOMAIN ready = DOMAIN list
  BY <1>4, SamePlaces
<1> QED BY <1>3, <1>5 DEF ready

\* Chunks get the vector of their own text once none is missing.
LEMMA AttachedVectors ==
    ASSUME NEW list, IsList(list), \A i \in DOMAIN list : "embedding" \in DOMAIN list[i],
           NEW v, Owned(v, [i \in DOMAIN list |-> list[i].embedding]), Missing(v) = <<>>
    PROVE  /\ IsList(AttachVectors(list, v))
           /\ \A c \in ToSet(AttachVectors(list, v)) : c.vector = VectorOf(c.embedding)
<1> DEFINE done == AttachVectors(list, v)
<1>1. done = [i \in DOMAIN list |-> Updated(list[i], [vector |-> v[i]])]
  BY DEF AttachVectors
<1>2. /\ IsList(v) /\ DOMAIN v = DOMAIN list
      /\ \A i \in DOMAIN v : v[i] \in {NoVector, VectorOf(list[i].embedding)}
  BY DEF Owned
<1>3. MissingAt(v) = {}
  <2>1. MissingIs(v)
    BY <1>2, MissingAre
  <2> QED BY <2>1 DEF MissingIs, ToSet
<1>4. \A i \in DOMAIN list : v[i] = VectorOf(list[i].embedding)
  BY <1>2, <1>3 DEF MissingAt
<1> HIDE DEF done
<1>5. ASSUME NEW i \in DOMAIN list PROVE done[i].vector = VectorOf(done[i].embedding)
  <2> DEFINE new == [vector |-> v[i]]
             c == list[i]
  <2>1. DOMAIN new = {"vector"} /\ new["vector"] = v[i]
    OBVIOUS
  <2>2. done[i] = Updated(c, new) /\ "embedding" \in DOMAIN c
    BY <1>1
  <2> HIDE DEF new, c
  <2>3. done[i].vector = v[i] /\ done[i].embedding = c.embedding
    BY <2>1, <2>2 DEF Updated
  <2> QED BY <1>4, <2>3 DEF c
<1>6. done = [i \in DOMAIN list |-> done[i]]
  BY <1>1
<1>7. IsList(done) /\ DOMAIN done = DOMAIN list
  BY <1>6, SamePlaces
<1>8. \A c \in ToSet(done) : c.vector = VectorOf(c.embedding)
  BY <1>5, <1>7 DEF ToSet
<1> QED BY <1>7, <1>8 DEF done

\* Every stage keeps it.
LEMMA StageKeepsVectors ==
    ASSUME ReportInv, CurationInv, VectorsInv, Stage
    PROVE  VectorsInv'
<1>1. CASE Raise /\ RightCache(cache')
  BY <1>1, RaiseKeepsVectors
<1>2. RightCache(cache) /\ IsList(chunks) /\ IsList(made)
  BY DEF VectorsInv
<1>3. CASE Raise /\ UNCHANGED cache
  BY <1>2, <1>3, RaiseKeepsVectors
<1>4. ASSUME (ValidateFiles \/ TakeParser \/ Parse) /\ ~(Raise /\ UNCHANGED cache) PROVE VectorsInv'
  <2>1. UNCHANGED <<chunks, made, cache, vectors>> /\ pc' \in {"prepare", "take_parser", "parse", "normalize"}
    BY <1>4 DEF ValidateFiles, TakeParser, Parse, document
  <2> QED BY <2>1, OthersKeepVectors DEF OfVectors
<1>5. CASE NormalizeBlocks \/ DeduplicateBlocks
  <2>1. UNCHANGED <<chunks, made, cache, vectors>> /\ pc' \in {"deduplicate", "chunk"}
    BY <1>5 DEF NormalizeBlocks, DeduplicateBlocks, embedding
  <2> QED BY <2>1, OthersKeepVectors DEF OfVectors
<1>6. CASE Chunk
  <2>1. /\ pc = "chunk" /\ blocks' = Prepare(blocks) /\ made' = ChunkWith(chunker, blocks')
        /\ pc' = "collect" /\ UNCHANGED <<chunks, cache>>
    BY <1>6 DEF Chunk, embedding
  <2>2. blocks \in Seq(Block)
    <3>1. report.blocks \in Seq(Block) /\ blocks = Deduplicate(Normalize(report.blocks))
      BY <2>1 DEF CurationInv
    <3>2. \A list \in Seq(Block) : Deduplicate(list) \in Seq(Block)
      BY DeduplicateReports DEF Deduplicated, Deduplicate
    <3> QED BY <3>1, <3>2, NormalizeTyped
  <2>3. IsList(made')
    BY <2>1, <2>2, PrepareTyped, ChunksAreList
  <2> QED BY <1>2, <2>1, <2>3 DEF VectorsInv
<1>7. CASE Collect
  <2>1. /\ chunks' = chunks \o made /\ made' = <<>> /\ UNCHANGED cache
        /\ pc' \in {"prepare", "take_parser"}
    BY <1>7 DEF Collect, embedding
  <2>2. IsList(chunks') /\ IsList(made')
    BY <1>2, <2>1, ListsJoin, NothingIsList
  <2> QED BY <1>2, <2>1, <2>2 DEF VectorsInv
<1>8. ASSUME PrepareEmbeddings, ~(Raise /\ UNCHANGED cache) PROVE VectorsInv'
  <2>1. chunks' = PrepareChunks(chunks) /\ pc' = "take_generator" /\ UNCHANGED <<made, cache>>
    BY <1>8 DEF PrepareEmbeddings, document
  <2>2. IsList(chunks') /\ \A i \in DOMAIN chunks' : "embedding" \in DOMAIN chunks'[i]
    BY <1>2, <2>1, PreparedChunks
  <2> QED BY <1>2, <2>1, <2>2 DEF VectorsInv
<1>9. ASSUME TakeGenerator, ~(Raise /\ UNCHANGED cache) PROVE VectorsInv'
  <2>1. /\ pc = "take_generator" /\ cache' = (IF IsLoaded(generator) THEN cache ELSE Empty)
        /\ pc' = "lookup" /\ UNCHANGED <<chunks, made>>
    BY <1>9 DEF TakeGenerator, document
  <2>2. RightCache(Empty)
    BY DEF RightCache, Empty
  <2>3. RightCache(cache')
    BY <1>2, <2>1, <2>2
  <2> QED BY <2>1, <2>3 DEF VectorsInv
<1>10. CASE LookupCache
  <2>1. /\ pc = "lookup" /\ vectors' = CachedVectors(Texts, cache) /\ pc' = "embed"
        /\ UNCHANGED <<chunks, made, cache>>
    BY <1>10 DEF LookupCache, document
  <2> DEFINE v == CachedVectors(Texts, cache)
  <2>2. v = [i \in DOMAIN chunks |-> v[i]] /\ DOMAIN Texts = DOMAIN chunks
    BY DEF CachedVectors, Texts
  <2>3. \A i \in DOMAIN chunks : v[i] \in {NoVector, VectorOf(Texts[i])}
    BY <1>2, <2>2 DEF CachedVectors, RightCache
  <2> HIDE DEF v
  <2>4. Owned(v, Texts)
    BY <1>2, <2>2, <2>3, SamePlaces DEF Owned
  <2>5. Owned(vectors', Texts')
    BY <2>1, <2>4 DEF v, Texts
  <2> QED BY <2>1, <2>5 DEF VectorsInv
<1>11. CASE EmbedBatch
  <2>1. CASE Tried
    <3>1. /\ UNCHANGED <<pc, chunks, made>> /\ pc = "embed"
          /\ UNCHANGED <<cache, vectors>> \/ (RightCache(cache') /\ Owned(vectors', Texts))
      BY <1>11, <2>1 DEF Tried, EmbedBatch, document
    <3>2. CASE UNCHANGED <<cache, vectors>>
      BY <3>1, <3>2, OthersKeepVectors
    <3>3. CASE RightCache(cache') /\ Owned(vectors', Texts)
      <4>1. Owned(vectors', Texts')
        BY <3>1, <3>3 DEF Texts
      <4> QED BY <3>1, <3>3, <4>1 DEF VectorsInv
    <3> QED BY <3>1, <3>2, <3>3
  <2> QED BY <1>1, <1>11, <2>1, EmbedTries
<1>12. CASE Attach
  <2>1. /\ pc = "embed" /\ Missing(vectors) = <<>> /\ chunks' = AttachVectors(chunks, vectors)
        /\ pc' = "deduplicate_vectors" /\ UNCHANGED <<made, cache>>
    BY <1>12 DEF Attach, document
  <2>2. Owned(vectors, [i \in DOMAIN chunks |-> chunks[i].embedding])
    BY <2>1 DEF VectorsInv, Texts
  <2>3. \A i \in DOMAIN chunks : "embedding" \in DOMAIN chunks[i]
    BY <2>1 DEF VectorsInv
  <2>4. IsList(chunks') /\ \A c \in ToSet(chunks') : c.vector = VectorOf(c.embedding)
    BY <1>2, <2>1, <2>2, <2>3, AttachedVectors
  <2> QED BY <1>2, <2>1, <2>4 DEF VectorsInv
<1>13. CASE DropDuplicates
  <2>1. /\ pc = "deduplicate_vectors" /\ chunks' = DeduplicateVectors(chunks) /\ pc' = "index"
        /\ UNCHANGED <<made, cache>>
    BY <1>13 DEF DropDuplicates, document, embedding
  <2>2. Thinned(chunks', chunks)
    BY <1>2, <2>1, DeduplicateThins
  <2>3. \A c \in ToSet(chunks) : c.vector = VectorOf(c.embedding)
    BY <2>1 DEF VectorsInv
  <2> QED BY <1>2, <2>1, <2>2, <2>3 DEF VectorsInv, Thinned
<1>14. ASSUME IndexChunks \/ Audit, ~(Raise /\ UNCHANGED cache) PROVE VectorsInv'
  <2>1. /\ pc \in {"index", "audit"} /\ pc' \in {"audit", "returned"}
        /\ UNCHANGED <<chunks, made, cache>>
    BY <1>14 DEF IndexChunks, Audit, document, embedding
  <2> QED BY <2>1 DEF VectorsInv
<1> QED
  BY <1>3, <1>4, <1>5, <1>6, <1>7, <1>8, <1>9, <1>10, <1>11, <1>12, <1>13, <1>14 DEF Stage

\* And so does every other step.
LEMMA VectorsInvariant == Spec => []VectorsInv
<1>1. Init => VectorsInv
  <2>1. RightCache(Empty)
    BY DEF RightCache, Empty
  <2> QED BY <2>1, NothingIsList DEF Init, VectorsInv
<1>2. ReportInv /\ CurationInv /\ VectorsInv /\ [Next]_vars => VectorsInv'
  <2> SUFFICES ASSUME ReportInv, CurationInv, VectorsInv, [Next]_vars PROVE VectorsInv'
    OBVIOUS
  <2>1. CASE Stage
    BY <2>1, StageKeepsVectors
  <2>2. CASE IngestAgain
    <3>1. chunks' = <<>> /\ pc' = "validate" /\ UNCHANGED <<made, cache>>
      BY <2>2 DEF IngestAgain, document, embedding
    <3> QED BY <3>1, NothingIsList DEF VectorsInv
  <2>3. CASE LeaveIt \/ StartClose \/ CloseParser \/ CloseGenerator \/ LoseFile \/ UNCHANGED vars
    <3>1. UNCHANGED <<chunks, made, cache, vectors>> /\ pc' = pc
      BY <2>3 DEF LeaveIt, StartClose, CloseParser, CloseGenerator, LoseFile, vars, document, embedding
    <3> QED BY <3>1, OthersKeepVectors
  <2> QED BY <2>1, <2>2, <2>3 DEF Next
<1> QED BY <1>1, <1>2, ReportInvariant, CurationInvariant, PTL DEF Spec

\* Embedding (EmbeddingGenerator.embed_batch, EmbeddingCache, EmbeddingService):
\* for any batch size, number of retries and answers of the model, also ones
\* that are too short or of the wrong size, a vector in the cache, in the
\* batch and on a chunk is that of its own text, and no chunk that is indexed
\* repeats one before it.
THEOREM EmbeddingsCorrect == Spec => []EmbeddingsOwnText
<1>1. VectorsInv => EmbeddingsOwnText
  BY DEF VectorsInv, EmbeddingsOwnText, RightCache, Owned
<1> QED BY <1>1, VectorsInvariant, PTL

\* A step of another thread or of the caller shows as such.
LEMMA OthersShow ==
    ASSUME FilesInv, Counters, Next, ~Stage, UNCHANGED <<calls, closing, files>>
    PROVE  UNCHANGED vars
<1>1. CASE IngestAgain
  <2>1. calls' = calls + 1
    BY <1>1 DEF IngestAgain
  <2>2. calls \in 1..MaxCalls /\ MaxCalls \in Nat
    BY BoundsAreNumbers DEF Counters
  <2> QED BY <2>1, <2>2
<1>2. CASE StartClose \/ CloseParser \/ CloseGenerator
  BY <1>2 DEF StartClose, CloseParser, CloseGenerator
<1>3. CASE LoseFile
  <2>1. PICK f \in ToSet(files) :
            /\ f.found
            /\ files' = [i \in DOMAIN files |->
                            IF files[i].path = f.path THEN [files[i] EXCEPT !.found = FALSE]
                            ELSE files[i]]
    BY <1>3 DEF LoseFile
  <2>2. PICK i \in DOMAIN files : files[i] = f
    BY DEF ToSet
  <2>3. IsFile(f) /\ "found" \in DOMAIN f
    BY DEF FilesInv, IsFile, FileFields
  <2> DEFINE g == [f EXCEPT !.found = FALSE]
  <2>4. files'[i] = g
    BY <2>1, <2>2
  <2>5. g.found = FALSE
    BY <2>3
  <2> HIDE DEF g
  <2>6. g = f
    BY <2>2, <2>4
  <2> QED BY <2>1, <2>5, <2>6
<1>4. CASE LeaveIt
  BY <1>4 DEF LeaveIt
<1> QED BY <1>1, <1>2, <1>3, <1>4 DEF Next

\* A stage goes on, or leaves less to be done.
LEMMA StageAdvances ==
    ASSUME Kept, VectorsInv, Stage
    PROVE  \/ pc' \in Ended
           \/ Position[pc'] > Position[pc]
           \/ pc = "collect" /\ Len(todo') < Len(todo)
           \/ /\ pc = "embed" /\ pc' = pc
              /\ \/ Len(Missing(vectors')) < Len(Missing(vectors))
                 \/ vectors' = vectors /\ attempt' > attempt
<1>1. CASE Raise
  BY <1>1 DEF Raise, Ended
<1>2. CASE Collect
  <2>1. pc = "collect" /\ todo' = Tail(todo) /\ todo \in Seq(Paths) /\ todo # <<>>
    BY <1>2 DEF Collect, Kept, AtFile
  <2>2. Len(todo') < Len(todo)
    BY <2>1
  <2> QED BY <2>1, <2>2
<1>3. CASE EmbedBatch
  <2>1. CASE Tried
    <3>1. pc = "embed" /\ pc' = pc /\ attempt \in Nat
      BY <1>3, <2>1, BoundsAreNumbers DEF EmbedBatch, Tried, Kept
    <3> QED BY <2>1, <3>1 DEF Tried
  <2> QED BY <1>1, <1>3, <2>1, EmbedTries
<1>4. ASSUME \/ ValidateFiles \/ TakeParser \/ Parse \/ NormalizeBlocks \/ DeduplicateBlocks \/ Chunk
             \/ PrepareEmbeddings \/ TakeGenerator \/ LookupCache \/ Attach \/ DropDuplicates
             \/ IndexChunks \/ Audit, ~Raise
      PROVE  Position[pc'] > Position[pc]
  <2>1. CASE ValidateFiles
    <3>1. pc = "validate" /\ pc' \in {"prepare", "take_parser"}
      BY <1>4, <2>1 DEF ValidateFiles
    <3> QED BY <3>1 DEF Position
  <2>2. CASE TakeParser
    <3>1. pc = "take_parser" /\ pc' = "parse"
      BY <1>4, <2>2 DEF TakeParser
    <3> QED BY <3>1 DEF Position
  <2>3. CASE Parse
    <3>1. pc = "parse" /\ pc' = "normalize"
      BY <1>4, <2>3 DEF Parse
    <3> QED BY <3>1 DEF Position
  <2>4. CASE NormalizeBlocks
    <3>1. pc = "normalize" /\ pc' = "deduplicate"
      BY <1>4, <2>4 DEF NormalizeBlocks
    <3> QED BY <3>1 DEF Position
  <2>5. CASE DeduplicateBlocks
    <3>1. pc = "deduplicate" /\ pc' = "chunk"
      BY <1>4, <2>5 DEF DeduplicateBlocks
    <3> QED BY <3>1 DEF Position
  <2>6. CASE Chunk
    <3>1. pc = "chunk" /\ pc' = "collect"
      BY <1>4, <2>6 DEF Chunk
    <3> QED BY <3>1 DEF Position
  <2>7. CASE PrepareEmbeddings
    <3>1. pc = "prepare" /\ pc' = "take_generator"
      BY <1>4, <2>7 DEF PrepareEmbeddings
    <3> QED BY <3>1 DEF Position
  <2>8. CASE TakeGenerator
    <3>1. pc = "take_generator" /\ pc' = "lookup"
      BY <1>4, <2>8 DEF TakeGenerator
    <3> QED BY <3>1 DEF Position
  <2>9. CASE LookupCache
    <3>1. pc = "lookup" /\ pc' = "embed"
      BY <1>4, <2>9 DEF LookupCache
    <3> QED BY <3>1 DEF Position
  <2>10. CASE Attach
    <3>1. pc = "embed" /\ pc' = "deduplicate_vectors"
      BY <1>4, <2>10 DEF Attach
    <3> QED BY <3>1 DEF Position
  <2>11. CASE DropDuplicates
    <3>1. pc = "deduplicate_vectors" /\ pc' = "index"
      BY <1>4, <2>11 DEF DropDuplicates
    <3> QED BY <3>1 DEF Position
  <2>12. CASE IndexChunks
    <3>1. pc = "index" /\ pc' = "audit"
      BY <1>4, <2>12 DEF IndexChunks
    <3> QED BY <3>1 DEF Position
  <2>13. CASE Audit
    <3>1. pc = "audit" /\ pc' = "returned"
      BY <1>4, <2>13 DEF Audit
    <3> QED BY <3>1 DEF Position
  <2> QED BY <1>4, <2>1, <2>2, <2>3, <2>4, <2>5, <2>6, <2>7, <2>8, <2>9, <2>10, <2>11, <2>12, <2>13
<1> QED BY <1>1, <1>2, <1>3, <1>4 DEF Stage

\* Termination (RAGPipeline.ingest): for any batch, chunker and settings, every
\* step of an ingest ends it, goes on to a later stage, or leaves fewer files to
\* chunk, fewer texts without a vector, or fewer attempts at the batch.
THEOREM IngestsAdvance == Spec => IngestAdvances
<1> DEFINE Advances ==
              calls' = calls /\ closing' = closing /\ files' = files =>
                \/ pc' \in Ended
                \/ Position[pc'] > Position[pc]
                \/ pc = "collect" /\ Len(todo') < Len(todo)
                \/ /\ pc = "embed" /\ pc' = pc
                   /\ \/ Len(Missing(vectors')) < Len(Missing(vectors))
                      \/ vectors' = vectors /\ attempt' > attempt
<1>1. Control /\ VectorsInv /\ [Next]_vars => [Advances]_vars
  <2> SUFFICES ASSUME Control, VectorsInv, Next, calls' = calls, closing' = closing,
                      files' = files, ~UNCHANGED vars
               PROVE  Advances
    OBVIOUS
  <2>1. Stage
    BY OthersShow DEF Control
  <2> QED BY <2>1, StageAdvances DEF Control
<1>2. [][Advances]_vars => IngestAdvances
  BY DEF IngestAdvances
<1> HIDE DEF Advances
<1> QED BY <1>1, <1>2, ControlInvariant, VectorsInvariant, PTL DEF Spec

=============================================================================
