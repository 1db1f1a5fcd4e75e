----------------------------- MODULE FileStore -----------------------------
(***************************************************************************)
(* An organization's files (apps/files) and the avatars (apps/profile): a  *)
(* row in Postgres, the bytes in Supabase Storage.  Each handler reads the *)
(* row, then calls Storage, which nothing rolls back, then writes the row  *)
(* and commits.  Requests overlap between those steps, an owner may be     *)
(* demoted in the middle of one, a commit may fail, and the organization   *)
(* goes, with every row, when its last owner's account is forgotten.       *)
(***************************************************************************)
EXTENDS Naturals, FiniteSets, FiniteSetsExt

CONSTANTS Requests, Members, Files, Names, Exts, Quota,
          NoRow    \* no such row, an avatar never set, or a request not in flight

Row == [name: Names, by: Members, size: {1}, version: Nat]
Ids == Files \cup Members

\* A request in flight remembers the row, or the avatar path, as it read it.
Pending ==
  [kind: {"upload", "seed", "delete", "rename", "share", "avatar"}, at: {"checked", "stored"},
   file: Ids, by: Members, name: Names \cup Exts, seen: Row \cup Exts \cup {NoRow}]

\* The bytes of files and of avatars lie under different prefixes of the one bucket.
ASSUME FileStoreAssumption ==
  /\ Quota \in Nat
  /\ Files \cap Members = {}
  /\ NoRow \notin Row \cup Exts \cup Pending

VARIABLES
  rows,      \* org_files, by id
  objects,   \* the paths that hold bytes: an id and a file name, or a user and an extension
  links,     \* files with a live share token
  avatars,   \* profiles.avatar_path
  owners,    \* members whose role is owner
  org,       \* whether the organization stands
  gone,      \* the rows that went with it, as they were
  request,   \* what each request in flight has read
  minted,    \* the ids given out
  torn,      \* files a request left half done: it failed after its call to Storage
  raced      \* an upload was checked while another was on its way, or a welcome file was seeded

vars == <<rows, objects, links, avatars, owners, org, gone, request, minted, torn, raced>>

Init ==
  /\ rows = [f \in Files |-> NoRow]
  /\ objects = {}
  /\ links = {}
  /\ avatars = [m \in Members |-> NoRow]
  /\ owners \in SUBSET Members
  /\ org = TRUE
  /\ gone = [f \in Files |-> NoRow]
  /\ request = [r \in Requests |-> NoRow]
  /\ minted = {}
  /\ torn = {}
  /\ raced = FALSE

----------------------------------------------------------------------------
InFlight(kinds) == {r \in Requests : request[r] # NoRow /\ request[r].kind \in kinds}

Existing == {f \in Files : rows[f] # NoRow}

StoragePath(f, name) == <<f, name>>

TotalSize == MapThenSumSet(LAMBDA f : rows[f].size, Existing)

CanModify(f, m) == rows[f].by = m \/ m \in owners

Open(r, kind, f, m, name) ==
  /\ request[r] = NoRow
  /\ request' = [request EXCEPT ![r] =
       [kind |-> kind, at |-> "checked", file |-> f, by |-> m, name |-> name,
        seen |-> rows[f]]]

Stored(r) == request' = [request EXCEPT ![r].at = "stored"]

At(r, kind, at) == request[r] # NoRow /\ request[r].kind = kind /\ request[r].at = at

Close(r) == request' = [request EXCEPT ![r] = NoRow]

\* Anything raised after the call to Storage: the rows roll back, the bytes do not.
Tear(r) ==
  /\ Close(r)
  /\ torn' = torn \cup {request[r].file}
  /\ UNCHANGED <<rows, objects, links, avatars, owners, org, gone, minted, raced>>

\* Storage refuses: 400, and nothing has changed.
Refused(r) ==
  /\ Close(r)
  /\ UNCHANGED <<rows, objects, links, avatars, owners, org, gone, minted, torn, raced>>

----------------------------------------------------------------------------
(* Uploading, and the welcome file a worker seeds: a new id, no quota.     *)

\* mutant: the file itself is not counted
WithinQuotaSoFar(size) == TotalSize <= Quota

WithinQuota(size) == TotalSize + size <= Quota

UploadCheck(r, m, f, name) ==
  /\ org /\ f \notin minted
  /\ WithinQuota(1)
  /\ Open(r, "upload", f, m, name)
  /\ minted' = minted \cup {f}
  /\ raced' = (raced \/ InFlight({"upload", "seed"}) # {})
  /\ UNCHANGED <<rows, objects, links, avatars, owners, org, gone, torn>>

Seedable(m) == org /\ m \in owners

SeedCheck(r, m, f, name) ==
  /\ f \notin minted
  /\ Seedable(m)
  /\ Open(r, "seed", f, m, name)
  /\ minted' = minted \cup {f}
  /\ raced' = TRUE
  /\ UNCHANGED <<rows, objects, links, avatars, owners, org, gone, torn>>

\* What Storage lets a caller do: a member, while the organization stands; the worker, always.
Permitted(r) == org \/ request[r].kind = "seed"

UploadObject(r) ==
  /\ At(r, "upload", "checked") \/ At(r, "seed", "checked")
  /\ IF Permitted(r)
       THEN /\ Stored(r)
            /\ objects' = objects \cup {StoragePath(request[r].file, request[r].name)}
            /\ UNCHANGED <<rows, links, avatars, owners, org, gone, minted, torn, raced>>
       ELSE Refused(r)

NewRow(r) == [name |-> request[r].name, by |-> request[r].by, size |-> 1, version |-> 1]

InsertRow(r) ==
  /\ At(r, "upload", "stored") \/ At(r, "seed", "stored")
  /\ org
  /\ rows' = [rows EXCEPT ![request[r].file] = NewRow(r)]
  /\ Close(r)
  /\ UNCHANGED <<objects, links, avatars, owners, org, gone, minted, torn, raced>>

----------------------------------------------------------------------------
(* Deleting, renaming and sharing.                                         *)

DeleteCheck(r, m, f) ==
  /\ f \in Existing
  /\ CanModify(f, m)
  /\ Open(r, "delete", f, m, rows[f].name)
  /\ UNCHANGED <<rows, objects, links, avatars, owners, org, gone, minted, torn, raced>>

\* Storage does not mind removing what is not there, or not the caller's to remove.
RemoveObject(r) ==
  /\ At(r, "delete", "checked")
  /\ Stored(r)
  /\ objects' = IF Permitted(r) THEN objects \ {StoragePath(request[r].file, request[r].seen.name)} ELSE objects
  /\ UNCHANGED <<rows, links, avatars, owners, org, gone, minted, torn, raced>>

\* mutant: no optimistic lock
WritableUnversioned(r) ==
  request[r].file \in Existing /\ CanModify(request[r].file, request[r].by)

\* The optimistic lock, and row-level security: an UPDATE or DELETE that finds no row is a 409.
Writable(r) ==
  LET f == request[r].file
  IN f \in Existing /\ rows[f].version = request[r].seen.version /\ CanModify(f, request[r].by)

DeleteRow(r) ==
  /\ At(r, "delete", "stored")
  /\ Writable(r)
  /\ rows' = [rows EXCEPT ![request[r].file] = NoRow]
  /\ links' = links \ {request[r].file}
  /\ Close(r)
  /\ UNCHANGED <<objects, avatars, owners, org, gone, minted, torn, raced>>

RenameCheck(r, m, f, name) ==
  /\ f \in Existing
  /\ CanModify(f, m)
  /\ Open(r, "rename", f, m, name)
  /\ UNCHANGED <<rows, objects, links, avatars, owners, org, gone, minted, torn, raced>>

OldPath(r) == StoragePath(request[r].file, request[r].seen.name)
NewPath(r) == StoragePath(request[r].file, request[r].name)

\* Storage moves what it has, onto a name that is free.
MoveObject(r) ==
  /\ At(r, "rename", "checked")
  /\ IF Permitted(r) /\ OldPath(r) \in objects /\ NewPath(r) \notin objects
       THEN /\ Stored(r)
            /\ objects' = (objects \ {OldPath(r)}) \cup {NewPath(r)}
            /\ UNCHANGED <<rows, links, avatars, owners, org, gone, minted, torn, raced>>
       ELSE Refused(r)

Renamed(row, name) == [row EXCEPT !.name = name, !.version = @ + 1]

RenameRow(r) ==
  /\ At(r, "rename", "stored")
  /\ Writable(r)
  /\ rows' = [rows EXCEPT ![request[r].file] = Renamed(@, request[r].name)]
  /\ Close(r)
  /\ UNCHANGED <<objects, links, avatars, owners, org, gone, minted, torn, raced>>

ShareCheck(r, m, f) ==
  /\ f \in Existing
  /\ Open(r, "share", f, m, rows[f].name)
  /\ UNCHANGED <<rows, objects, links, avatars, owners, org, gone, minted, torn, raced>>

Referenced(f) == f \in Existing

\* The token refers to the row, whatever its name is by then; one gone is a failed insert.
ShareRow(r) ==
  /\ At(r, "share", "checked")
  /\ links' = IF Referenced(request[r].file) THEN links \cup {request[r].file} ELSE links
  /\ Close(r)
  /\ UNCHANGED <<rows, objects, avatars, owners, org, gone, minted, torn, raced>>

\* What a download and a live link redirect to: the row's name, of an object that may be gone.
Served(f) == f \in Existing /\ StoragePath(f, rows[f].name) \in objects

LinkExpires(f) ==
  /\ f \in links
  /\ links' = links \ {f}
  /\ UNCHANGED <<rows, objects, avatars, owners, org, gone, request, minted, torn, raced>>

----------------------------------------------------------------------------
(* Avatars: one path per user and extension, overwritten in place, and the *)
(* clean-up that follows a deleted account.                                *)

AvatarUpload(r, m, ext) ==
  /\ request[r] = NoRow
  /\ objects' = objects \cup {StoragePath(m, ext)}
  /\ request' = [request EXCEPT ![r] = [kind |-> "avatar", at |-> "stored", file |-> m, by |-> m,
                                        name |-> ext, seen |-> avatars[m]]]
  /\ UNCHANGED <<rows, links, avatars, owners, org, gone, minted, torn, raced>>

SetAvatarPath(r) ==
  /\ At(r, "avatar", "stored")
  /\ avatars' = [avatars EXCEPT ![request[r].by] = request[r].name]
  /\ Close(r)
  /\ UNCHANGED <<rows, objects, links, owners, org, gone, minted, torn, raced>>

Shown(m) == avatars[m] # NoRow => StoragePath(m, avatars[m]) \in objects

ForgetProfile(m) ==
  /\ avatars[m] # NoRow
  /\ avatars' = [avatars EXCEPT ![m] = NoRow]
  /\ UNCHANGED <<rows, objects, links, owners, org, gone, request, minted, torn, raced>>

Demote(m) ==
  /\ m \in owners
  /\ owners' = owners \ {m}
  /\ UNCHANGED <<rows, objects, links, avatars, org, gone, request, minted, torn, raced>>

\* The account of the last owner is forgotten, and the organization deleted: its rows and their
\* links go with it.  Nobody removes their objects.
ForgetLastOwner(m) ==
  /\ org /\ owners = {m}
  /\ org' = FALSE
  /\ rows' = [f \in Files |-> NoRow]
  /\ gone' = rows
  /\ links' = {}
  /\ owners' = {}
  /\ UNCHANGED <<objects, avatars, request, minted, torn, raced>>

CommitFails(r) == request[r] # NoRow /\ request[r].at = "stored" /\ Tear(r)

----------------------------------------------------------------------------
Next ==
  \/ \E r \in Requests :
       \/ UploadObject(r) \/ InsertRow(r) \/ RemoveObject(r) \/ DeleteRow(r)
       \/ MoveObject(r) \/ RenameRow(r) \/ ShareRow(r) \/ SetAvatarPath(r) \/ CommitFails(r)
       \/ \E m \in Members :
            \/ \E ext \in Exts : AvatarUpload(r, m, ext)
            \/ \E f \in Files :
                 \/ DeleteCheck(r, m, f) \/ ShareCheck(r, m, f)
                 \/ \E name \in Names :
                      UploadCheck(r, m, f, name) \/ SeedCheck(r, m, f, name)
                        \/ RenameCheck(r, m, f, name)
  \/ \E f \in Files : LinkExpires(f)
  \/ \E m \in Members : ForgetProfile(m) \/ Demote(m) \/ ForgetLastOwner(m)

Spec == Init /\ [][Next]_vars

----------------------------------------------------------------------------
\* Type invariant.
TypeOK ==
  /\ rows \in [Files -> Row \cup {NoRow}]
  /\ objects \subseteq Ids \X (Names \cup Exts)
  /\ links \cup minted \subseteq Files /\ torn \subseteq Ids
  /\ avatars \in [Members -> Exts \cup {NoRow}]
  /\ owners \subseteq Members
  /\ org \in BOOLEAN
  /\ gone \in [Files -> Row \cup {NoRow}]
  /\ request \in [Requests -> Pending \cup {NoRow}]
  /\ raced \in BOOLEAN

Settled == Files \ (torn \cup {request[r].file : r \in InFlight({"upload", "seed", "delete", "rename"})})

\* The row of a file, or the last it had if it went with the organization.
LastRow(f) == IF f \in Existing THEN rows[f] ELSE gone[f]

\* Storage and the rows agree: a file no request is changing, and none failed after its call to
\* Storage, holds its bytes under the name its row says, and nowhere else, and none once deleted;
\* only a file whose row went with the organization keeps them without a row, for good, under the
\* name it last had.  A live link, whatever was renamed or deleted meanwhile, leads to a file; an
\* avatar path leads to an image.
StoreMatchesRows ==
  /\ \A f \in Settled :
       {p \in objects : p[1] = f} = IF LastRow(f) = NoRow THEN {} ELSE {StoragePath(f, LastRow(f).name)}
  /\ links \subseteq Existing
  /\ \A f \in links \cap Settled : Served(f)
  /\ \A m \in Members : Shown(m)

\* The organization keeps to its quota, unless a welcome file, which no quota refuses, was seeded,
\* or an upload was checked while another, which its sum did not count, was on its way.
QuotaKeptUnlessRaced == raced \/ TotalSize <= Quota
=============================================================================
