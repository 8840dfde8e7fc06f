----------------------------- MODULE FileIntake -----------------------------
(***************************************************************************)
(* What is decided about a file before it is parsed: resolving its path,   *)
(* detecting its type, validating it alone or in a batch, and loading the  *)
(* files of a directory.  Nothing here keeps state between calls.          *)
(*                                                                         *)
(* A file is a record of the facts the code reads from the disk:           *)
(*   path, ext    its name and lower-case extension                        *)
(*   found, link, rooted   whether it exists, is a symbolic link, resolves *)
(*                to a place under the allowed roots                       *)
(*   size, hash   its size and the digest of its bytes                     *)
(*   content      the media type its leading bytes show                    *)
(*   magic        what python-magic says of them, "" for nothing           *)
(*   damaged, locked   its archive fails the test; it needs a password     *)
(*   pages, chars, images   its pages, None when unreadable, the text per  *)
(*                page and the percentage of pages with images             *)
(*   scan         the answer of the antivirus engine                       *)
(***************************************************************************)
EXTENDS Lists

CONSTANTS
    MinSize, MaxSize,     \* file size limits
    MaxPages,             \* page limit
    Allowed,              \* the allowed extensions, with their media types
    Office, Email, Image, \* the extensions of those kinds
    FollowSymlinks,       \* path_policy.follow_symlinks
    HasScanner,           \* antivirus.provider is clamav
    BlockUnscanned,       \* block_on_missing_scanner, TRUE in production
    BlockScanErrors       \* block_on_scan_error

ASSUME LimitsAssumption ==
    /\ MinSize \in Nat /\ MaxSize \in Nat /\ MaxPages \in Nat
    /\ Office \cup Email \cup Image \subseteq DOMAIN Allowed
    /\ {FollowSymlinks, HasScanner, BlockUnscanned, BlockScanErrors} \subseteq BOOLEAN

Ooxml == {"docx", "xlsx", "pptx"}

----------------------------------------------------------------------------
(* FilePathResolver *)

ResolveError(f) ==
    IF ~f.found THEN "file_not_found"
    ELSE IF f.link /\ ~FollowSymlinks THEN "symlink_not_allowed"
    ELSE IF ~f.rooted THEN "outside_allowed_roots" ELSE ""

----------------------------------------------------------------------------
(* MagicBytesSniffer, FileTypeDetector *)

\* An archive with no telling directory is what its extension says.
SignatureMedia(f) ==
    IF f.content = "ooxml" THEN IF f.ext \in Office \cap Ooxml THEN f.ext ELSE "zip"
    ELSE f.content

\* python-magic is believed before the bytes are looked at.
Sniff(f) == IF f.magic \notin {"", "binary"} THEN f.magic ELSE SignatureMedia(f)

Matches(f) == f.ext \in DOMAIN Allowed /\ Sniff(f) \in Allowed[f.ext]

DetectedType(f) ==
    LET media == Sniff(f) IN
    IF media = "pdf" THEN "pdf"
    ELSE IF media = "image" \/ f.ext \in Image THEN "image"
    ELSE IF media \in Ooxml \/ f.ext \in Office THEN "office"
    ELSE IF media \in {"html", "xml"} THEN media
    ELSE IF media = "email" \/ f.ext \in Email THEN "email"
    ELSE IF media = "text" THEN "text" ELSE f.ext

----------------------------------------------------------------------------
(* FileIntegrityInspector and the antivirus scanners *)

IsCorrupted(f) ==
    IF Sniff(f) = "pdf" THEN f.content # "pdf"
    ELSE f.ext \in Office /\ (f.content \notin Ooxml \cup {"ooxml"} \/ f.damaged)

IsEncryptedPdf(f) == Sniff(f) = "pdf" /\ f.locked

IsBlockedByScan(f) ==
    IF HasScanner THEN f.scan = "infected" \/ (f.scan = "error" /\ BlockScanErrors)
    ELSE BlockUnscanned

----------------------------------------------------------------------------
(* FileValidationService *)

\* The issues in the order they are found; only a mismatch lets the file pass.
Issues(f, duplicate) ==
    LET issue(code, holds) == IF holds THEN <<code>> ELSE <<>> IN
    issue("file_empty", f.size < MinSize)
    \o issue("file_too_large", f.size > MaxSize)
    \o issue("unsupported_extension", f.ext \notin DOMAIN Allowed)
    \o issue("extension_media_mismatch", f.ext \in DOMAIN Allowed /\ ~Matches(f))
    \o issue("corrupt_file", IsCorrupted(f))
    \o issue("encrypted_pdf", IsEncryptedPdf(f))
    \o issue("file_too_many_pages", Sniff(f) = "pdf" /\ f.pages > MaxPages)
    \o issue("duplicate_file_in_batch", duplicate)
    \o issue("antivirus_infected", IsBlockedByScan(f))

Blocking(issues) == Those(issues, LAMBDA i : i # "extension_media_mismatch")

ValidationResult(f, duplicate) ==
    LET blocking == Blocking(Issues(f, duplicate)) IN
    [path |-> f.path, valid |-> blocking = <<>>, duplicate |-> duplicate,
     reason |-> IF blocking = <<>> THEN "" ELSE Head(blocking)]

\* A file on its own is compared with no batch.
ValidateOne(f) == ValidationResult(f, FALSE)

\* The hash of every file seen counts, the hash of a rejected one too.
SeenBefore(files, i) == \E j \in 1..(i - 1) : files[j].hash = files[i].hash

\* Mutant: a file is compared with the one before it only.
ComparesWithPrevious(files) ==
    [i \in DOMAIN files |->
        ValidationResult(files[i], i > 1 /\ files[i].hash = files[i - 1].hash)]

ValidateMany(files) ==
    [i \in DOMAIN files |-> ValidationResult(files[i], SeenBefore(files, i))]

\* One file that is gone fails the validation of the whole batch.
ValidationRaises(files) == \E f \in ToSet(files) : ~f.found

ValidPaths(files) ==
    LET accepted == Those(ValidateMany(files), LAMBDA r : r.valid)
    IN [i \in DOMAIN accepted |-> accepted[i].path]

----------------------------------------------------------------------------
(* FileLoadService *)

\* load_file: the caller gets the error of a path that does not resolve.
Loaded(f, result) ==
    [path |-> f.path, ready |-> result.valid, reason |-> result.reason]

LoadFile(f) == Loaded(f, ValidateOne(f))

FailedEntry(f) == [path |-> f.path, ready |-> FALSE, reason |-> ResolveError(f)]

\* A directory: the entries that resolve are validated as one batch, the
\* others become failed results, and the results keep the order of the entries.
LoadCandidates(entries) ==
    LET resolved == Those(entries, LAMBDA f : ResolveError(f) = "")
        results  == ValidateMany(resolved)
        position(i) == Cardinality({j \in 1..i : ResolveError(entries[j]) = ""})
    IN [i \in DOMAIN entries |->
            IF ResolveError(entries[i]) = ""
            THEN Loaded(entries[i], results[position(i)])
            ELSE FailedEntry(entries[i])]

=============================================================================
