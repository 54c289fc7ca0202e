---------------------------- MODULE Uploads ----------------------------
(***************************************************************************)
(* The pictures the server keeps: each upload creates a file and copies    *)
(* the picture into it, and is told the file's name.  Names are the time   *)
(* in nanoseconds and the extension; two uploads in one nanosecond, or     *)
(* around a clock that is set back, get the same one.  No file is ever     *)
(* removed, and a restart of the server keeps them (a volume).             *)
(***************************************************************************)
EXTENDS FiniteSets

CONSTANTS Names,      \* of files
          Owners      \* who uploads

VARIABLES files,      \* the upload directory
          open,       \* uploads that write: for whom, to which file
          shared      \* history: the names that were given twice

filesVars == <<files, open, shared>>

NoFile == [of |-> {}, whole |-> FALSE]

InitFiles ==
    /\ files = [n \in Names |-> NoFile]
    /\ open = [u \in {} |-> "none"]
    /\ shared = {}

\* What os.Create finds under the name is gone.
Truncated(who) == [of |-> {who}, whole |-> FALSE]

Without(u) == [v \in DOMAIN open \ {u} |-> open[v]]

\* os.Create, after the extension and the size were accepted.
CreateFile(u, who, name) ==
    /\ u \notin DOMAIN open
    /\ files' = [files EXCEPT ![name] = Truncated(who)]
    /\ open' = [v \in DOMAIN open \union {u} |->
                    IF v = u THEN [name |-> name, who |-> who] ELSE open[v]]
    /\ shared' = IF files[name] = NoFile THEN shared ELSE shared \union {name}

\* io.Copy to its end: what others write into the same file is mixed with it.
\* A write that fails only when the file is closed is left out.
Copy(u) ==
    /\ u \in DOMAIN open
    /\ files' = [files EXCEPT ![open[u].name] =
                    [of |-> @.of \union {open[u].who}, whole |-> TRUE]]
    /\ open' = Without(u)
    /\ UNCHANGED shared

\* io.Copy fails, or the process ends: what was copied stays.
CopyFails(u) ==
    /\ u \in DOMAIN open
    /\ open' = Without(u)
    /\ UNCHANGED <<files, shared>>

\* Another client's upload, from its beginning to its end.
UploadElsewhere(name) ==
    /\ files' = [files EXCEPT ![name] = [of |-> {"another"}, whole |-> TRUE]]
    /\ shared' = IF files[name] = NoFile THEN shared ELSE shared \union {name}
    /\ UNCHANGED open

FilesOK ==
    /\ files \in [Names -> [of : SUBSET (Owners \union {"another"}), whole : BOOLEAN]]
    /\ \A u \in DOMAIN open : open[u] \in [name : Names, who : Owners]
    /\ shared \subseteq Names
=============================================================================
