----------------------------- MODULE SoftwareStore -----------------------------
(***************************************************************************)
(* The repository of software packages: uploads, each a request of its     *)
(* own, the files they leave under the base directory, and the rows of     *)
(* software_packages, one for a name, version and platform.                *)
(***************************************************************************)
EXTENDS Integers

CONSTANTS
  Packages,    \* name, version, platform: what the table's UNIQUE is over
  Folder,      \* the folder of each, which safeSegment may give to several
  Contents,    \* what is uploaded: a file name and a SHA-256
  MaxUploads,  \* bound on the uploads
  MaxFaults    \* bound on restarts and failed statements

Uploads == 1..MaxUploads
NoPath == <<>>

VARIABLES
  pc,       \* each upload, and how far Store has come
  package,  \* what it is uploaded as
  content,  \* what it holds
  stored,   \* the content of the file at each path; none: no file
  row,      \* each package's storage_path and sha256; NoPath: no row
  faults    \* faults so far, up to MaxFaults

uploadVars == <<package, content>>
vars == <<pc, uploadVars, stored, row, faults>>

Folders == {Folder[k] : k \in Packages}
Paths == Folders \X Contents

\* Mutation: no checksum in the name.
PathOfPackage(u) == <<Folder[package[u]], CHOOSE c \in Contents : TRUE>>

\* <base>/<name>/<version>/<platform>/<16 digits of the checksum>-<file name>.
Path(u) == <<Folder[package[u]], content[u]>>

Init ==
  /\ pc = [u \in Uploads |-> "none"]
  /\ package \in [Uploads -> Packages]
  /\ content \in [Uploads -> Contents]
  /\ stored = [p \in Paths |-> {}]
  /\ row = [k \in Packages |-> NoPath]
  /\ faults = 0

Fault == faults < MaxFaults /\ faults' = faults + 1

Goto(u, place) == pc' = [pc EXCEPT ![u] = place]

-------------------------------------------------------------------------------

\* The upload is copied to a temporary file and hashed.
Receive(u) ==
  /\ pc[u] = "none"
  /\ Goto(u, "received")
  /\ UNCHANGED <<uploadVars, stored, row, faults>>

\* The copy fails or is empty: the temporary file is removed.
ReceiveFails(u) ==
  /\ pc[u] = "none"
  /\ Goto(u, "failed")
  /\ UNCHANGED <<uploadVars, stored, row, faults>>

\* os.Rename, over a file that may be there.
Rename(u) ==
  /\ pc[u] = "received"
  /\ Goto(u, "renamed")
  /\ stored' = [stored EXCEPT ![Path(u)] = {content[u]}]
  /\ UNCHANGED <<uploadVars, row, faults>>

Create(u) ==
  /\ pc[u] = "renamed" /\ row[package[u]] = NoPath
  /\ Goto(u, "available")
  /\ row' = [row EXCEPT ![package[u]] = [path |-> Path(u), sha256 |-> content[u]]]
  /\ UNCHANGED <<uploadVars, stored, faults>>

\* The package has a row, or the INSERT fails: the file is still to be removed.
CreateIsRefused(u) ==
  /\ pc[u] = "renamed" /\ row[package[u]] # NoPath
  /\ Goto(u, "removing")
  /\ UNCHANGED <<uploadVars, stored, row, faults>>

CreateFails(u) ==
  /\ Fault
  /\ pc[u] = "renamed"
  /\ Goto(u, "removing")
  /\ UNCHANGED <<uploadVars, stored, row>>

\* os.Remove of the path, whosever file it is.
Remove(u) ==
  /\ pc[u] = "removing"
  /\ Goto(u, "refused")
  /\ stored' = [stored EXCEPT ![Path(u)] = {}]
  /\ UNCHANGED <<uploadVars, row, faults>>

\* The server ends: files it has renamed stay.
ServerRestart ==
  /\ Fault
  /\ pc' = [u \in Uploads |-> IF pc[u] \in {"received", "renamed", "removing"} THEN "failed" ELSE pc[u]]
  /\ UNCHANGED <<uploadVars, stored, row>>

Store(u) ==
  Receive(u) \/ ReceiveFails(u) \/ Rename(u) \/ Create(u) \/ CreateIsRefused(u)
    \/ CreateFails(u) \/ Remove(u)

Next ==
  \/ \E u \in Uploads : Store(u)
  \/ ServerRestart

Spec == Init /\ [][Next]_vars

-------------------------------------------------------------------------------
(* Properties *)

\* The variables keep to their types.
TypeOK ==
  /\ pc \in [Uploads -> {"none", "received", "renamed", "removing", "available", "refused", "failed"}]
  /\ package \in [Uploads -> Packages]
  /\ content \in [Uploads -> Contents]
  /\ stored \in [Paths -> SUBSET Contents]
  /\ row \in [Packages -> [path : Paths, sha256 : Contents] \cup {NoPath}]
  /\ faults \in Nat

\* The same content was uploaded again into the package's folder, and refused.
Repeated(k, c) ==
  \E u \in Uploads : Folder[package[u]] = Folder[k] /\ content[u] = c /\ pc[u] = "refused"

\* A package that is shown as available has its file with the checksum of the
\* row, unless the very same was uploaded again and refused: uploads of other
\* contents as this package, or of the same as a package of another folder, at
\* once or later, take nothing from it.
PackageIsThere ==
  \A k \in Packages : row[k] # NoPath =>
    stored[row[k].path] = {row[k].sha256} \/ Repeated(k, row[k].sha256)
===============================================================================
