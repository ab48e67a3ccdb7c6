-------------------------------- MODULE Files -------------------------------
(***************************************************************************)
(* The photographs of an organisation in the storage service               *)
(* (attachments.service.ts, storage-admin.ts).  The API only signs: a      *)
(* device uploads to the signed URL later, and not over a file that is     *)
(* there.  removeFolder empties the folder of a deleted organisation page  *)
(* by page, by two calls a page, either of which may fail; the deletion is *)
(* then called again.                                                      *)
(***************************************************************************)
EXTENDS Integers, FiniteSets

CONSTANTS
  FileIds,                  \* ids of photographs, in the order the service lists them
  FilePage,                 \* PAGE
  MaxSweeps,                \* bound: times removeFolder is called
  MaxRemoved                \* bound: no URL is signed once a call removed this many

ASSUME FilesAssumption == FileIds \subseteq Nat /\ FilePage \in Nat \ {0}

VARIABLES
  folder,                   \* the files that are there
  signedUploads,            \* upload URLs given out and not yet expired
  sweep,                    \* the call of removeFolder under way
  sweeps,                   \* how many were made
  swept                     \* history: files there since the last one began

fileVars == <<folder, signedUploads, sweep, sweeps, swept>>

NoSweep == [step |-> "idle", files |-> {}, removed |-> 0]

FilesInit ==
  /\ folder \in {{}, FileIds}
  /\ signedUploads = {}
  /\ sweep = NoSweep
  /\ sweeps = 0
  /\ swept = {}

(* uploadUrl: no receipt need name the photograph yet; a device uses a URL once. *)
SignUpload(f) ==
  /\ sweep.removed < MaxRemoved
  /\ signedUploads' = signedUploads \cup {f}
  /\ UNCHANGED <<folder, sweep, sweeps, swept>>

PutFile(f) ==
  /\ f \in signedUploads \ folder
  /\ signedUploads' = signedUploads \ {f}
  /\ folder' = folder \cup {f}
  /\ swept' = swept \ {f}
  /\ UNCHANGED <<sweep, sweeps>>

UrlExpires(f) ==
  /\ signedUploads' = signedUploads \ {f}
  /\ UNCHANGED <<folder, sweep, sweeps, swept>>

StartSweep ==
  /\ sweep.step \in {"idle", "failed"}
  /\ sweeps < MaxSweeps
  /\ sweep' = [NoSweep EXCEPT !.step = "list"]
  /\ sweeps' = sweeps + 1
  /\ swept' = folder
  /\ UNCHANGED <<folder, signedUploads>>

(* A page of the folder: FilePage files, from the offset-th on.             *)
Listing(offset) ==
  {f \in folder : Cardinality({g \in folder : g < f}) \in offset..(offset + FilePage - 1)}

(* Slip: the next page is looked for behind the files already removed. *)
ListBehind ==
  /\ sweep.step = "list"
  /\ sweep' = IF Listing(sweep.removed) = {} THEN [sweep EXCEPT !.step = "done"]
              ELSE [sweep EXCEPT !.step = "delete", !.files = Listing(sweep.removed)]
  /\ UNCHANGED <<folder, signedUploads, sweeps, swept>>

ListFiles ==
  /\ sweep.step = "list"
  /\ sweep' = IF Listing(0) = {} THEN [sweep EXCEPT !.step = "done"]
              ELSE [sweep EXCEPT !.step = "delete", !.files = Listing(0)]
  /\ UNCHANGED <<folder, signedUploads, sweeps, swept>>

DeleteFiles ==
  /\ sweep.step = "delete"
  /\ folder' = folder \ sweep.files
  /\ sweep' = [sweep EXCEPT !.step = "list", !.files = {}, !.removed = @ + Cardinality(sweep.files)]
  /\ UNCHANGED <<signedUploads, sweeps, swept>>

(* A call fails: before the service acted on it, or after. *)
SweepFails ==
  /\ sweep.step \in {"list", "delete"}
  /\ folder' \in {folder, folder \ sweep.files}
  /\ sweep' = [NoSweep EXCEPT !.step = "failed"]
  /\ UNCHANGED <<signedUploads, sweeps, swept>>

FilesNext ==
  \/ \E f \in FileIds : SignUpload(f) \/ PutFile(f) \/ UrlExpires(f)
  \/ StartSweep \/ ListFiles \/ DeleteFiles \/ SweepFails

FilesSpec == FilesInit /\ [][FilesNext]_fileVars

-----------------------------------------------------------------------------
(* When removeFolder returns, none of the files that were there when it     *)
(* began is left, whatever is uploaded meanwhile over URLs signed before:   *)
(* the list is always read from its start, for it shrinks as files go.      *)
SweptClean == sweep.step = "done" => swept \cap folder = {}
=============================================================================
