---------------------------- MODULE LogRotation ----------------------------
(***************************************************************************)
(* The log file of the day (pkg/logger) and its rotation (pkg/logrotate):  *)
(* at 23:59 today's file is uploaded to MinIO and, when that succeeds, the *)
(* writer is moved to tomorrow's.  A file is named by its day, and a line  *)
(* by what it tells of.  Opening or closing a file may fail; a write to an *)
(* open one, and a file that is on disk, does not.  An upload may last     *)
(* past midnight, not past the next 23:59: its context ends after two      *)
(* minutes.                                                                *)
(***************************************************************************)
EXTENDS Integers

CONSTANT LastDay  \* bound on days

ASSUME LogRotationAssumption == LastDay \in Nat

VARIABLES
    day,        \* today
    late,       \* 23:59 has come
    fired,      \* today's rotation has been started, or was missed
    writer,     \* the file the logger writes to, or one of Nowhere
    files,      \* day with a local file -> its lines
    stored,     \* day with a copy in MinIO -> its lines
    minio,      \* the client was created at start
    rotator,    \* "idle", "uploading" or "rotate"
    upload,     \* the file being uploaded: [name, lines]
    since,      \* history: day the process was started
    disturbed,  \* history: since then an upload failed, lasted past midnight,
                \*   was skipped or missed, or a file was not opened or closed
    missed      \* history: lines written while the writer was Nowhere

logVars == <<day, late, fired, writer, files, stored, minio, rotator, upload, since, disturbed, missed>>

\* A file whose Close failed is closed and stays the writer; every later Close
\* of it fails too.  Stderr takes the place of a file that was not opened.
Closed  == -1
Stderr  == -2
Nowhere == {Closed, Stderr}

\* What the file of a day has, if there is one.
LinesOf(f) == IF f \in DOMAIN files THEN files[f] ELSE {}

\* Mutant: a file that is there is truncated.
Opened_Truncates(f) == [d \in DOMAIN files \cup {f} |-> IF d = f THEN {} ELSE files[d]]

\* The file of a day is opened for appending, and made if there is none.
Opened(f) == [d \in DOMAIN files \cup {f} |-> LinesOf(d)]

LogRotationInit ==
    /\ day = 0 /\ late = FALSE /\ fired = FALSE
    /\ writer \in {0, Stderr}
    /\ files = [d \in {0} \cap {writer} |-> {}] /\ stored = [d \in {} |-> {}]
    /\ minio \in BOOLEAN
    /\ rotator = "idle" /\ upload = [name |-> 0, lines |-> {}]
    /\ since = 0 /\ disturbed = (~minio \/ writer = Stderr)
    /\ missed = {}

\* A line is appended; the error of a closed writer is not looked at.
Write(line) ==
    /\ IF writer \in Nowhere
       THEN missed' = missed \cup {line} /\ UNCHANGED files
       ELSE files' = [files EXCEPT ![writer] = @ \cup {line}] /\ UNCHANGED missed
    /\ UNCHANGED <<day, late, fired, writer, stored, minio, rotator, upload, since, disturbed>>

\* Cron starts the job at 23:59.  Without a client nothing is uploaded and the
\* writer moves on.  The file is named after the day, whatever the writer's is.
UploadToday ==
    /\ late /\ ~fired /\ rotator = "idle"
    /\ fired' = TRUE
    /\ IF minio
       THEN /\ rotator' = "uploading"
            /\ upload' = [name |-> day, lines |-> LinesOf(day)]
       ELSE rotator' = "rotate" /\ UNCHANGED upload
    /\ UNCHANGED <<day, late, writer, files, stored, minio, since, disturbed, missed>>

UploadSucceeds ==
    /\ rotator = "uploading" /\ upload.name \in DOMAIN files
    /\ stored' = [d \in DOMAIN stored \cup {upload.name} |->
                      IF d = upload.name THEN upload.lines ELSE stored[d]]
    /\ rotator' = "rotate"
    /\ UNCHANGED <<day, late, fired, writer, files, minio, upload, since, disturbed, missed>>

\* The rotation is skipped.
UploadFails ==
    /\ rotator = "uploading"
    /\ rotator' = "idle"
    /\ disturbed' = TRUE
    /\ UNCHANGED <<day, late, fired, writer, files, stored, minio, upload, since, missed>>

\* Mutant: today's name again.
Tomorrow_Today == day

\* The day after the one it is when the upload has ended.
Tomorrow == day + 1

\* The file is opened and the writer swapped.
Rotates ==
    /\ writer # Closed
    /\ writer' = Tomorrow /\ files' = Opened(Tomorrow)
    /\ UNCHANGED disturbed

\* There is no directory or no file: the writer stays.
OpenFails == disturbed' = TRUE /\ UNCHANGED <<writer, files>>

\* The writer's file, closed all the same, stays the writer.
SwapFails ==
    /\ writer' = Closed /\ files' = Opened(Tomorrow)
    /\ disturbed' = TRUE

RotateToNewDay ==
    /\ rotator = "rotate" /\ rotator' = "idle"
    /\ Rotates \/ OpenFails \/ SwapFails
    /\ UNCHANGED <<day, late, fired, stored, minio, upload, since, missed>>

\* Time passes.  Cron does not miss 23:59, and the rotation ends before the next.
Pass ==
    /\ IF late
       THEN /\ fired /\ day < LastDay
            /\ day' = day + 1 /\ late' = FALSE /\ fired' = FALSE
            /\ disturbed' = (disturbed \/ rotator # "idle")
       ELSE /\ rotator = "idle"
            /\ late' = TRUE /\ UNCHANGED <<day, fired, disturbed>>
    /\ UNCHANGED <<writer, files, stored, minio, rotator, upload, since, missed>>

\* The process starts again and appends to today's file, or falls back on
\* stderr.  In the last minute today's rotation is missed.
LogRotationRestart ==
    /\ \/ writer' = day /\ files' = Opened(day)
       \/ writer' = Stderr /\ UNCHANGED files
    /\ rotator' = "idle" /\ fired' = late
    /\ minio' \in BOOLEAN
    /\ since' = day
    /\ disturbed' = (late \/ ~minio' \/ writer' = Stderr)
    /\ UNCHANGED <<day, late, stored, upload, missed>>

Rotation == UploadToday \/ UploadSucceeds \/ UploadFails \/ RotateToNewDay \/ Pass

----------------------------------------------------------------------------
(***************************************************************************)
(* Properties.                                                             *)
(***************************************************************************)
\* A writer that is a file is on disk, and a file has all the lines that were
\* uploaded or are being uploaded of it.
LogRotationTypeOK ==
    /\ day \in 0 .. LastDay /\ writer \in Nowhere \cup 0 .. LastDay + 1 /\ since \in 0 .. day
    /\ late \in BOOLEAN /\ fired \in BOOLEAN /\ minio \in BOOLEAN /\ disturbed \in BOOLEAN
    /\ rotator \in {"idle", "uploading", "rotate"}
    /\ writer \notin Nowhere => writer \in DOMAIN files
    /\ DOMAIN files \subseteq 0 .. LastDay + 1 /\ DOMAIN stored \subseteq DOMAIN files
    /\ \A d \in DOMAIN stored : stored[d] \subseteq files[d]
    /\ rotator = "uploading" => upload.lines \subseteq LinesOf(upload.name)

\* What is on disk.
Lines == UNION {files[d] : d \in DOMAIN files}

\* As long as uploads succeed before midnight and the files open and close, every
\* day since the start has its own file: the writer is at today's, or, once
\* rotated, at tomorrow's, and all files it has left since then are in MinIO.
\* After a failure nothing is promised: the writer may stay at an old or a
\* closed file for good.
EveryDayIsUploaded == ~disturbed =>
    /\ writer = IF fired /\ rotator = "idle" THEN day + 1 ELSE day
    /\ \A d \in since .. writer - 1 : d \in DOMAIN stored
============================================================================
