--------------------------- MODULE FileStoreProofs ---------------------------
(* Proofs about FileStore, for any files, members, requests and quota.       *)
EXTENDS FileStore, FiniteSetTheorems, WellFoundedInduction, TLAPS

(* The invariant.  A request on a file knows the row it was checked against, *)
(* which only a later version replaces; one on an avatar has its image.      *)
Uploads == {"upload", "seed"}
Changes == {"delete", "rename"}

IsUpload(r) == request[r] # NoRow /\ request[r].kind \in Uploads
IsChange(r) == request[r] # NoRow /\ request[r].kind \in Changes
Wrote(r, f) == IsChange(r) /\ request[r].at = "stored" /\ request[r].file = f

AvatarFits(r) ==
  /\ request[r].file \in Members /\ request[r].file = request[r].by
  /\ request[r].name \in Exts /\ request[r].at = "stored"
  /\ StoragePath(request[r].file, request[r].name) \in objects

FileFits(r) ==
  /\ request[r].file \in Files /\ request[r].file \in minted /\ request[r].name \in Names
  /\ request[r].kind = "share" => request[r].at = "checked"

SeenFits(r) ==
  LET f == request[r].file
  IN /\ request[r].seen \in Row
     /\ f \in Existing =>
          /\ request[r].seen.version <= rows[f].version
          /\ request[r].seen.version = rows[f].version => request[r].seen.name = rows[f].name

RequestsFit ==
  \A r \in Requests : request[r] # NoRow =>
    /\ request[r].kind = "avatar" => AvatarFits(r)
    /\ request[r].kind # "avatar" => FileFits(r)
    /\ request[r].kind \in Changes => SeenFits(r)

\* An id is given out once, and the upload that has it works alone on it.  Rows go with the
\* organization, and none comes after.
IdsFit ==
  /\ Existing \subseteq minted
  /\ links \subseteq Existing
  /\ org => \A f \in Files : gone[f] = NoRow
  /\ ~ org => Existing = {}
  /\ \A p \in objects : p[1] \in minted \cup Members
  /\ \A r \in Requests : IsUpload(r) =>
       /\ request[r].file \notin Existing /\ gone[request[r].file] = NoRow
       /\ \A q \in Requests \ {r} : request[q] # NoRow => request[q].file # request[r].file

\* Two requests have called Storage for one file, or one has for a row that has moved on: of
\* these only one can still commit.
Contested(f) ==
  \E r \in Requests :
    /\ Wrote(r, f)
    /\ \/ f \notin Existing
       \/ request[r].seen.version # rows[f].version
       \/ \E q \in Requests \ {r} : Wrote(q, f)

BytesOf(f) == {p \in objects : p[1] = f}

Uploaded(r, f) == IsUpload(r) /\ request[r].at = "stored" /\ request[r].file = f

\* An uncontested file holds what its row says, or said when it went with the organization, or what the one request that has called Storage
\* for it is about to make its row say.
BytesFit(f) ==
  /\ \A r \in Requests : Wrote(r, f) =>
       BytesOf(f) = IF request[r].kind = "delete" THEN {} ELSE {NewPath(r)}
  /\ \A r \in Requests : Uploaded(r, f) => BytesOf(f) = {NewPath(r)}
  /\ (\A r \in Requests : ~ Wrote(r, f) /\ ~ Uploaded(r, f)) =>
       BytesOf(f) = IF LastRow(f) = NoRow THEN {} ELSE {StoragePath(f, LastRow(f).name)}

BytesInv == \A f \in Files \ torn : Contested(f) \/ BytesFit(f)

AvatarsShown == \A m \in Members : Shown(m)

StoreInv == TypeOK /\ RequestsFit /\ IdsFit /\ BytesInv /\ AvatarsShown

QuotaInv ==
  /\ IsFiniteSet(minted)
  /\ raced \/ /\ \A r, q \in Requests : IsUpload(r) /\ IsUpload(q) => r = q
              /\ Cardinality(Existing)
                   + (IF \E r \in Requests : IsUpload(r) THEN 1 ELSE 0) <= Quota

----------------------------------------------------------------------------
(* What the steps on a request do to the requests.                         *)
LEMMA OpenedTyped ==
  ASSUME TypeOK, NEW r \in Requests, NEW kind \in Uploads \cup Changes \cup {"share"},
         NEW f \in Files, NEW m \in Members, NEW name \in Names \cup Exts,
         Open(r, kind, f, m, name)
  PROVE  /\ request' \in [Requests -> Pending \cup {NoRow}]
         /\ request[r] = NoRow /\ request'[r] # NoRow
         /\ request'[r] = [kind |-> kind, at |-> "checked", file |-> f, by |-> m,
                           name |-> name, seen |-> rows[f]]
         /\ \A q \in Requests \ {r} : request'[q] = request[q]
<1> DEFINE new == [kind |-> kind, at |-> "checked", file |-> f, by |-> m, name |-> name,
                   seen |-> rows[f]]
<1>1. rows[f] \in Row \cup {NoRow}
  BY DEF TypeOK
<1>2. new \in Pending
  BY <1>1 DEF Pending, Ids, Uploads, Changes
<1>3. new # NoRow
  BY <1>2, FileStoreAssumption
<1>4. QED
  BY <1>2, <1>3 DEF Open, TypeOK

LEMMA StoredTyped ==
  ASSUME TypeOK, NEW r \in Requests, request[r] # NoRow, Stored(r)
  PROVE  /\ request' \in [Requests -> Pending \cup {NoRow}]
         /\ request'[r] # NoRow /\ request'[r].at = "stored"
         /\ request'[r].kind = request[r].kind /\ request'[r].file = request[r].file
         /\ request'[r].by = request[r].by /\ request'[r].name = request[r].name
         /\ request'[r].seen = request[r].seen
         /\ \A q \in Requests \ {r} : request'[q] = request[q]
<1> DEFINE new == [request[r] EXCEPT !.at = "stored"]
<1>1. request[r] \in Pending
  BY DEF TypeOK
<1>2. /\ new \in Pending /\ new.at = "stored"
      /\ new.kind = request[r].kind /\ new.file = request[r].file /\ new.by = request[r].by
      /\ new.name = request[r].name /\ new.seen = request[r].seen
  BY <1>1 DEF Pending
<1>3. new # NoRow
  BY <1>2, FileStoreAssumption
<1>4. request' = [request EXCEPT ![r] = new]
  BY DEF Stored
<1>5. QED
  BY <1>2, <1>3, <1>4 DEF TypeOK

LEMMA ClosedTyped ==
  ASSUME TypeOK, NEW r \in Requests, Close(r)
  PROVE  /\ request' \in [Requests -> Pending \cup {NoRow}]
         /\ request'[r] = NoRow
         /\ \A q \in Requests \ {r} : request'[q] = request[q]
  BY DEF Close, TypeOK

----------------------------------------------------------------------------
(* Requests, ids and avatars.                                              *)
FitInv == TypeOK /\ RequestsFit /\ IdsFit /\ AvatarsShown

LEMMA FitInit == Init => FitInv
  BY FileStoreAssumption DEF Init, FitInv, TypeOK, RequestsFit, IdsFit, AvatarsShown, Shown,
     Existing, IsUpload

(* A request left alone still fits when ids stay given out, images stay and  *)
(* rows only move on.                                                        *)
LEMMA StaysFit ==
  ASSUME FitInv, minted \subseteq minted',
         \A p \in objects : p[1] \in Members => p \in objects',
         NEW r \in Requests, request'[r] = request[r], request[r] # NoRow,
         \A f \in Files : f \in Existing' =>
           \/ rows'[f] = rows[f]
           \/ f \in Existing /\ rows'[f].version = rows[f].version + 1
           \/ request[r].file # f
  PROVE  /\ request'[r].kind = "avatar" => AvatarFits(r)'
         /\ request'[r].kind # "avatar" => FileFits(r)'
         /\ request'[r].kind \in Changes => SeenFits(r)'
<1> USE DEF FitInv, RequestsFit
<1>1. ASSUME request[r].kind = "avatar" PROVE AvatarFits(r)'
  BY <1>1 DEF AvatarFits, StoragePath
<1>2. ASSUME request[r].kind # "avatar" PROVE FileFits(r)'
  BY <1>2 DEF FileFits
<1>3. ASSUME request[r].kind \in Changes PROVE SeenFits(r)'
  <2>1. request[r].file \in Files /\ SeenFits(r)
    BY <1>3 DEF FileFits, Changes
  <2>2. request[r].seen.version \in Nat
    BY <2>1 DEF SeenFits, Row
  <2>3. ASSUME request[r].file \in Existing'
        PROVE  /\ request[r].seen.version <= rows'[request[r].file].version
               /\ request[r].seen.version = rows'[request[r].file].version =>
                    request[r].seen.name = rows'[request[r].file].name
    <3>1. CASE rows'[request[r].file] = rows[request[r].file]
      BY <2>1, <2>3, <3>1 DEF SeenFits, Existing
    <3>2. CASE /\ request[r].file \in Existing
               /\ rows'[request[r].file].version = rows[request[r].file].version + 1
      <4>1. rows[request[r].file].version \in Nat
        BY <3>2 DEF Existing, TypeOK, Row
      <4>2. QED
        BY <2>1, <2>2, <3>2, <4>1 DEF SeenFits
    <3>3. QED
      BY <2>1, <2>3, <3>1, <3>2
  <2>4. QED
    BY <2>1, <2>3 DEF SeenFits
<1>4. QED
  BY <1>1, <1>2, <1>3

(* Checking opens a request that fits; on a row that exists, nothing else.   *)
LEMMA FitChecked ==
  ASSUME FitInv, NEW r \in Requests, NEW m \in Members, NEW f \in Files,
         \/ DeleteCheck(r, m, f) \/ ShareCheck(r, m, f)
         \/ \E name \in Names : RenameCheck(r, m, f, name)
  PROVE  FitInv'
<1>1. PICK kind \in Changes \cup {"share"}, name \in Names : Open(r, kind, f, m, name)
  BY DEF DeleteCheck, ShareCheck, RenameCheck, Changes, FitInv, TypeOK, Row, Existing
<1>2. f \in Existing /\ UNCHANGED <<rows, objects, links, avatars, owners, org, gone, minted, torn, raced>>
  BY DEF DeleteCheck, ShareCheck, RenameCheck
<1>3. rows[f] \in Row /\ rows[f].version \in Nat
  BY <1>2 DEF Existing, FitInv, TypeOK, Row
<1> DEFINE new == [kind |-> kind, at |-> "checked", file |-> f, by |-> m, name |-> name,
                   seen |-> rows[f]]
<1>4. /\ request' \in [Requests -> Pending \cup {NoRow}]
      /\ request'[r] = new /\ \A q \in Requests \ {r} : request'[q] = request[q]
  BY <1>1, OpenedTyped DEF FitInv
<1>5. TypeOK'
  BY <1>2, <1>4 DEF FitInv, TypeOK
<1>6. RequestsFit'
  <2>1. FileFits(r)' /\ SeenFits(r)' /\ request'[r].kind # "avatar"
    BY <1>1, <1>2, <1>3, <1>4 DEF FileFits, SeenFits, FitInv, IdsFit, Existing, Changes
  <2>2. ASSUME NEW q \in Requests \ {r}, request'[q] # NoRow
        PROVE  /\ request'[q].kind = "avatar" => AvatarFits(q)'
               /\ request'[q].kind # "avatar" => FileFits(q)'
               /\ request'[q].kind \in Changes => SeenFits(q)'
    BY <1>2, <1>4, <2>2, StaysFit
  <2>3. QED
    BY <2>1, <2>2 DEF RequestsFit
<1>7. IdsFit'
  <2>1. ASSUME NEW q \in Requests, IsUpload(q)'
        PROVE  /\ request'[q].file \notin Existing' /\ gone'[request'[q].file] = NoRow
               /\ \A p \in Requests \ {q} : request'[p] # NoRow => request'[p].file # request'[q].file
    <3>1. q # r /\ IsUpload(q)
      BY <1>1, <1>4, <2>1 DEF IsUpload, Uploads, Changes
    <3>2. request[q].file \notin Existing /\ gone[request[q].file] = NoRow
      BY <3>1 DEF FitInv, IdsFit
    <3>3. QED
      BY <1>2, <1>4, <3>1, <3>2 DEF FitInv, IdsFit, Existing
  <2>2. QED
    BY <1>2, <2>1 DEF FitInv, IdsFit, Existing
<1>8. QED
  BY <1>2, <1>5, <1>6, <1>7 DEF FitInv, AvatarsShown, Shown

(* Checking an upload, or a welcome file, gives out an id nothing refers to. *)
LEMMA FitMinted ==
  ASSUME FitInv, NEW r \in Requests, NEW m \in Members, NEW f \in Files, NEW name \in Names,
         UploadCheck(r, m, f, name) \/ SeedCheck(r, m, f, name)
  PROVE  FitInv'
<1>1. PICK kind \in Uploads : Open(r, kind, f, m, name)
  BY DEF UploadCheck, SeedCheck, Uploads
<1>2. /\ f \notin minted /\ minted' = minted \cup {f} /\ raced' \in BOOLEAN
      /\ org /\ UNCHANGED <<rows, objects, links, avatars, owners, org, gone, torn>>
  BY DEF UploadCheck, SeedCheck, Seedable, FitInv, TypeOK
<1> DEFINE new == [kind |-> kind, at |-> "checked", file |-> f, by |-> m, name |-> name,
                   seen |-> rows[f]]
<1>3. /\ request' \in [Requests -> Pending \cup {NoRow}]
      /\ request'[r] = new /\ \A q \in Requests \ {r} : request'[q] = request[q]
  BY <1>1, OpenedTyped DEF FitInv
<1>4. TypeOK'
  BY <1>2, <1>3 DEF FitInv, TypeOK
<1>5. RequestsFit'
  <2>1. FileFits(r)' /\ request'[r].kind # "avatar" /\ request'[r].kind \notin Changes
    BY <1>1, <1>2, <1>3 DEF FileFits, Changes, Uploads
  <2>2. ASSUME NEW q \in Requests \ {r}, request'[q] # NoRow
        PROVE  /\ request'[q].kind = "avatar" => AvatarFits(q)'
               /\ request'[q].kind # "avatar" => FileFits(q)'
               /\ request'[q].kind \in Changes => SeenFits(q)'
    BY <1>2, <1>3, <2>2, StaysFit
  <2>3. QED
    BY <2>1, <2>2 DEF RequestsFit
<1>6. f \notin Existing /\ \A q \in Requests \ {r} : request[q] # NoRow => request[q].file # f
  BY <1>2, FileStoreAssumption DEF FitInv, RequestsFit, IdsFit, FileFits, AvatarFits
<1>7. IdsFit'
  BY <1>2, <1>3, <1>6 DEF FitInv, IdsFit, Existing, IsUpload
<1>8. QED
  BY <1>2, <1>4, <1>5, <1>7 DEF FitInv, AvatarsShown, Shown

(* A rename gives the row its new name and its next version.                 *)
LEMMA RenamedRow ==
  ASSUME NEW row \in Row, NEW name \in Names
  PROVE  /\ Renamed(row, name) \in Row
         /\ Renamed(row, name).version = row.version + 1
         /\ Renamed(row, name).name = name
<1> DEFINE named == [row EXCEPT !.name = name]
<1>1. named \in Row /\ named.name = name /\ named.version = row.version /\ row.version \in Nat
  BY DEF Row
<1>2. Renamed(row, name) = [named EXCEPT !.version = row.version + 1]
  BY DEF Renamed, Row
<1>3. \A n \in Row, v \in Nat : /\ [n EXCEPT !.version = v] \in Row
                              /\ [n EXCEPT !.version = v].version = v
                              /\ [n EXCEPT !.version = v].name = n.name
  BY DEF Row
<1> HIDE DEF named
<1>4. QED
  BY <1>1, <1>2, <1>3

(* A call to Storage for a request that was checked.                         *)
LEMMA FitStored ==
  ASSUME FitInv, NEW r \in Requests, request[r] # NoRow, request[r].kind \in Uploads \cup Changes,
         Stored(r), UNCHANGED <<rows, links, avatars, owners, org, gone, minted, torn, raced>>,
         objects' \subseteq objects \cup {NewPath(r)},
         \A p \in objects : p[1] \in Members => p \in objects'
  PROVE  FitInv'
<1>1. /\ request' \in [Requests -> Pending \cup {NoRow}]
      /\ request'[r] # NoRow /\ request'[r].kind = request[r].kind
      /\ request'[r].file = request[r].file /\ request'[r].name = request[r].name
      /\ request'[r].seen = request[r].seen
      /\ \A q \in Requests \ {r} : request'[q] = request[q]
  BY StoredTyped DEF FitInv
<1>2. FileFits(r) /\ request[r].file \in minted
  BY DEF FitInv, RequestsFit, FileFits, Uploads, Changes
<1>3. TypeOK'
  BY <1>1, <1>2 DEF FitInv, TypeOK, NewPath, StoragePath, FileFits, Ids
<1>4. RequestsFit'
  <2>1. FileFits(r)' /\ request'[r].kind # "avatar"
    BY <1>1, <1>2 DEF FileFits, Uploads, Changes
  <2>2. ASSUME request'[r].kind \in Changes PROVE SeenFits(r)'
    BY <1>1, <2>2 DEF FitInv, RequestsFit, SeenFits, Existing
  <2>3. ASSUME NEW q \in Requests \ {r}, request'[q] # NoRow
        PROVE  /\ request'[q].kind = "avatar" => AvatarFits(q)'
               /\ request'[q].kind # "avatar" => FileFits(q)'
               /\ request'[q].kind \in Changes => SeenFits(q)'
    BY <1>1, <2>3, StaysFit
  <2>4. QED
    BY <2>1, <2>2, <2>3 DEF RequestsFit
<1>5. IdsFit'
  BY <1>1, <1>2 DEF FitInv, IdsFit, Existing, IsUpload, NewPath, StoragePath
<1>6. AvatarsShown'
  BY FileStoreAssumption DEF FitInv, AvatarsShown, Shown, StoragePath
<1>7. QED
  BY <1>3, <1>4, <1>5, <1>6 DEF FitInv

(* A request that ends, having changed its own row at most.                  *)
LEMMA FitClosed ==
  ASSUME FitInv, NEW r \in Requests, request[r] # NoRow, Close(r),
         UNCHANGED <<objects, owners, org, gone, minted, raced>>,
         rows' \in [Files -> Row \cup {NoRow}], torn' \subseteq Ids, avatars' = avatars,
         \A f \in Files \ {request[r].file} : rows'[f] = rows[f],
         request[r].file \in Existing' =>
           \/ rows'[request[r].file] = rows[request[r].file]
           \/ /\ request[r].file \in Existing
              /\ rows'[request[r].file].version = rows[request[r].file].version + 1
           \/ IsUpload(r) /\ org,
         links' \subseteq Existing'
  PROVE  FitInv'
<1>1. /\ request' \in [Requests -> Pending \cup {NoRow}] /\ request'[r] = NoRow
      /\ \A q \in Requests \ {r} : request'[q] = request[q]
  BY ClosedTyped DEF FitInv
<1>2. Existing' \subseteq Existing \cup (IF IsUpload(r) THEN {request[r].file} ELSE {})
  BY DEF Existing
<1>3. IsUpload(r) => /\ FileFits(r)
                     /\ \A q \in Requests \ {r} : request[q] # NoRow => request[q].file # request[r].file
  BY DEF FitInv, RequestsFit, IdsFit, IsUpload, Uploads
<1>4. RequestsFit'
  <2>1. ASSUME NEW q \in Requests, request'[q] # NoRow
        PROVE  /\ request'[q].kind = "avatar" => AvatarFits(q)'
               /\ request'[q].kind # "avatar" => FileFits(q)'
               /\ request'[q].kind \in Changes => SeenFits(q)'
    <3>1. q # r /\ request[q] # NoRow /\ request'[q] = request[q]
      BY <1>1, <2>1
    <3>2. ASSUME NEW f \in Files, f \in Existing'
          PROVE  \/ rows'[f] = rows[f]
                 \/ f \in Existing /\ rows'[f].version = rows[f].version + 1
                 \/ request[q].file # f
      BY <1>3, <3>1, <3>2
    <3>3. QED
      BY <3>1, <3>2, StaysFit
  <2>2. QED
    BY <2>1 DEF RequestsFit
<1>5. IdsFit'
  <2>1. Existing' \subseteq minted'
    BY <1>2, <1>3 DEF FitInv, IdsFit, FileFits
  <2>2. ASSUME NEW q \in Requests, IsUpload(q)'
        PROVE  /\ request'[q].file \notin Existing' /\ gone'[request'[q].file] = NoRow
               /\ \A p \in Requests \ {q} : request'[p] # NoRow => request'[p].file # request'[q].file
    <3>1. q # r /\ IsUpload(q) /\ request'[q] = request[q]
      BY <1>1, <2>2 DEF IsUpload
    <3>2. /\ request[q].file \notin Existing /\ gone[request[q].file] = NoRow
          /\ request[r].file # request[q].file
      BY <3>1 DEF FitInv, IdsFit
    <3>3. QED
      BY <1>1, <1>2, <3>1, <3>2 DEF FitInv, IdsFit
  <2>3. ~ org => Existing' = {}
    BY <1>2 DEF FitInv, IdsFit, Existing
  <2>4. QED
    BY <2>1, <2>2, <2>3 DEF FitInv, IdsFit
<1>6. links' \subseteq Files
  BY DEF Existing
<1>7. TypeOK'
  BY <1>1, <1>6 DEF FitInv, TypeOK
<1>8. QED
  BY <1>4, <1>5, <1>7 DEF FitInv, AvatarsShown, Shown

(* The steps on avatars, which no row and no file request has to do with.    *)
LEMMA FitAvatars ==
  ASSUME FitInv, NEW r \in Requests,
         SetAvatarPath(r) \/ \E m \in Members, ext \in Exts : AvatarUpload(r, m, ext)
  PROVE  FitInv'
<1>1. CASE SetAvatarPath(r)
  <2> USE <1>1 DEF SetAvatarPath, At
  <2>1. /\ request' \in [Requests -> Pending \cup {NoRow}] /\ request'[r] = NoRow
        /\ \A q \in Requests \ {r} : request'[q] = request[q]
    BY ClosedTyped DEF FitInv
  <2>2. AvatarFits(r)
    BY DEF FitInv, RequestsFit
  <2>3. TypeOK'
    BY <2>1, <2>2 DEF FitInv, TypeOK, AvatarFits
  <2>4. RequestsFit'
    <3>1. ASSUME NEW q \in Requests, request'[q] # NoRow
          PROVE  /\ request'[q].kind = "avatar" => AvatarFits(q)'
                 /\ request'[q].kind # "avatar" => FileFits(q)'
                 /\ request'[q].kind \in Changes => SeenFits(q)'
      BY <2>1, <3>1, StaysFit
    <3>2. QED
      BY <3>1 DEF RequestsFit
  <2>5. IdsFit'
    BY <2>1 DEF FitInv, IdsFit, IsUpload, Existing
  <2>6. AvatarsShown'
    BY <2>2 DEF FitInv, AvatarsShown, Shown, AvatarFits, TypeOK
  <2>7. QED
    BY <2>3, <2>4, <2>5, <2>6 DEF FitInv
<1>2. ASSUME NEW m \in Members, NEW ext \in Exts, AvatarUpload(r, m, ext) PROVE FitInv'
  <2> DEFINE new == [kind |-> "avatar", at |-> "stored", file |-> m, by |-> m, name |-> ext,
                     seen |-> avatars[m]]
  <2>1. /\ request[r] = NoRow /\ request' = [request EXCEPT ![r] = new]
        /\ objects' = objects \cup {<<m, ext>>}
        /\ UNCHANGED <<rows, links, avatars, owners, org, gone, minted, torn, raced>>
    BY <1>2 DEF AvatarUpload, StoragePath
  <2>2. new \in Pending
    BY DEF FitInv, TypeOK, Pending, Ids
  <2>3. /\ request' \in [Requests -> Pending \cup {NoRow}] /\ request'[r] = new
        /\ \A q \in Requests \ {r} : request'[q] = request[q]
    BY <2>1, <2>2 DEF FitInv, TypeOK
  <2>4. TypeOK'
    BY <2>1, <2>3 DEF FitInv, TypeOK, Ids
  <2>5. RequestsFit'
    <3>1. AvatarFits(r)' /\ request'[r].kind \notin Changes
      BY <2>1, <2>3 DEF AvatarFits, StoragePath, Changes
    <3>2. ASSUME NEW q \in Requests \ {r}, request'[q] # NoRow
          PROVE  /\ request'[q].kind = "avatar" => AvatarFits(q)'
                 /\ request'[q].kind # "avatar" => FileFits(q)'
                 /\ request'[q].kind \in Changes => SeenFits(q)'
      BY <2>1, <2>3, <3>2, StaysFit
    <3>3. QED
      BY <2>3, <3>1, <3>2 DEF RequestsFit
  <2>6. IdsFit'
    <3>1. ASSUME NEW q \in Requests, IsUpload(q)'
          PROVE  /\ request'[q].file \notin Existing' /\ gone'[request'[q].file] = NoRow
                 /\ \A p \in Requests \ {q} : request'[p] # NoRow => request'[p].file # request'[q].file
      <4>1. q # r /\ IsUpload(q) /\ request'[q] = request[q]
        BY <2>3, <3>1 DEF IsUpload, Uploads
      <4>2. request[q].file \in Files /\ m \notin Files
        BY <4>1, FileStoreAssumption DEF FitInv, RequestsFit, FileFits, IsUpload, Uploads
      <4>3. QED
        BY <2>1, <2>3, <4>1, <4>2 DEF FitInv, IdsFit, Existing
    <3>2. QED
      BY <2>1, <3>1 DEF FitInv, IdsFit, Existing
  <2>7. AvatarsShown'
    BY <2>1 DEF FitInv, AvatarsShown, Shown
  <2>8. QED
    BY <2>4, <2>5, <2>6, <2>7 DEF FitInv
<1>3. QED
  BY <1>1, <1>2

LEMMA FitNext == FitInv /\ [Next]_vars => FitInv'
<1> SUFFICES ASSUME FitInv, [Next]_vars PROVE FitInv'
  OBVIOUS
<1>1. ASSUME NEW r \in Requests,
             UploadObject(r) \/ RemoveObject(r) \/ InsertRow(r) \/ DeleteRow(r)
               \/ MoveObject(r) \/ RenameRow(r) \/ ShareRow(r) \/ CommitFails(r)
      PROVE  FitInv'
  <2>0. /\ request[r] # NoRow => request[r].file \in Ids
        /\ request[r] # NoRow /\ request[r].kind # "avatar" => FileFits(r)
        /\ request[r] # NoRow /\ request[r].kind \in Changes => SeenFits(r)
    BY FileStoreAssumption DEF FitInv, TypeOK, RequestsFit, Pending, StoragePath
  <2>1. CASE UploadObject(r)
    <3>1. request[r] # NoRow /\ request[r].kind \in Uploads
      BY <2>1 DEF UploadObject, At, Uploads
    <3>2. CASE ~ Permitted(r)
      BY <2>1, <3>1, <3>2, FitClosed DEF UploadObject, Refused, FitInv, TypeOK, IdsFit, Existing
    <3>3. CASE Permitted(r)
      BY <2>0, <2>1, <3>1, <3>3, FitStored DEF UploadObject, Uploads, Changes, NewPath
    <3>4. QED
      BY <3>2, <3>3
  <2>2. CASE RemoveObject(r)
    BY <2>0, <2>2, FitStored, FileStoreAssumption
    DEF RemoveObject, At, Uploads, Changes, NewPath, StoragePath, FileFits
  <2>3. CASE InsertRow(r)
    <3>1. request[r] # NoRow /\ IsUpload(r) /\ FileFits(r) /\ request[r].by \in Members
      BY <2>0, <2>3 DEF InsertRow, At, IsUpload, Uploads, FitInv, TypeOK, Pending
    <3>2. NewRow(r) \in Row
      BY <3>1 DEF NewRow, Row, FileFits
    <3>3. rows' = [rows EXCEPT ![request[r].file] = NewRow(r)]
      BY <2>3 DEF InsertRow
    <3>4. NewRow(r) # NoRow
      BY <3>2, FileStoreAssumption
    <3>5. Existing \subseteq Existing'
      BY <3>3, <3>4 DEF Existing, FitInv, TypeOK
    <3>6. rows' \in [Files -> Row \cup {NoRow}]
      BY <3>2, <3>3 DEF FitInv, TypeOK
    <3>7. links' \subseteq Existing'
      BY <2>3, <3>5 DEF InsertRow, FitInv, IdsFit
    <3>8. /\ torn' \subseteq Ids /\ avatars' = avatars
          /\ \A f \in Files \ {request[r].file} : rows'[f] = rows[f]
          /\ Close(r) /\ org /\ UNCHANGED <<objects, owners, org, gone, minted, raced>>
      BY <2>3, <3>3 DEF InsertRow, FitInv, TypeOK
    <3>9. QED
      BY <3>1, <3>6, <3>7, <3>8, FitClosed
  <2>4. CASE DeleteRow(r)
    <3>1. request[r] # NoRow /\ FileFits(r)
      BY <2>0, <2>4 DEF DeleteRow, At
    <3>2. /\ rows' = [rows EXCEPT ![request[r].file] = NoRow]
          /\ links' = links \ {request[r].file}
      BY <2>4 DEF DeleteRow
    <3>3. links' \subseteq Existing'
      BY <3>2 DEF Existing, FitInv, TypeOK, IdsFit
    <3>4. request[r].file \notin Existing'
      BY <3>1, <3>2 DEF Existing, FitInv, TypeOK, FileFits
    <3>5. QED
      BY <2>4, <3>1, <3>2, <3>3, <3>4, FitClosed DEF DeleteRow, FitInv, TypeOK
  <2>5. CASE MoveObject(r)
    <3>1. request[r] # NoRow /\ request[r].kind = "rename" /\ FileFits(r)
      BY <2>0, <2>5 DEF MoveObject, At
    <3>2. CASE Refused(r)
      BY <3>1, <3>2, FitClosed DEF Refused, FitInv, TypeOK, IdsFit, Existing
    <3>3. CASE ~ Refused(r)
      BY <2>5, <3>1, <3>3, FitStored, FileStoreAssumption
      DEF MoveObject, Changes, OldPath, NewPath, StoragePath, FileFits
    <3>4. QED
      BY <3>2, <3>3
  <2>6. CASE RenameRow(r)
    <3>1. request[r] # NoRow /\ FileFits(r) /\ request[r].file \in Existing
      BY <2>0, <2>6 DEF RenameRow, At, Writable
    <3> DEFINE old == rows[request[r].file]
               new == Renamed(old, request[r].name)
    <3>2. old \in Row /\ old.version \in Nat
      BY <3>1 DEF Existing, FitInv, TypeOK, Row
    <3>3. new \in Row /\ new.version = old.version + 1
      BY <3>1, <3>2, RenamedRow DEF FileFits
    <3>4. rows' = [rows EXCEPT ![request[r].file] = new]
      BY <2>6 DEF RenameRow
    <3>5. new # NoRow
      BY <3>3, FileStoreAssumption
    <3>6. Existing' = Existing
      BY <3>1, <3>4, <3>5 DEF Existing, FitInv, TypeOK
    <3>7. QED
      BY <2>6, <3>1, <3>3, <3>4, <3>6, FitClosed DEF RenameRow, FitInv, TypeOK, IdsFit, FileFits
  <2>7. CASE ShareRow(r)
    BY <2>7, FitClosed DEF ShareRow, At, Referenced, FitInv, TypeOK, IdsFit, Existing
  <2>8. CASE CommitFails(r)
    BY <2>0, <2>8, FitClosed DEF CommitFails, Tear, FitInv, TypeOK, IdsFit, Existing
  <2>9. QED
    BY <1>1, <2>1, <2>2, <2>3, <2>4, <2>5, <2>6, <2>7, <2>8
<1>2. CASE UNCHANGED vars
  BY <1>2 DEF vars, FitInv, TypeOK, RequestsFit, IdsFit, AvatarsShown, Shown, AvatarFits, FileFits,
     SeenFits, Existing, IsUpload
<1>3. ASSUME \/ \E f \in Files : LinkExpires(f)
             \/ \E m \in Members : ForgetProfile(m) \/ Demote(m)
      PROVE  FitInv'
  <2>1. UNCHANGED <<rows, objects, org, gone, request, minted, torn, raced>> /\ links' \subseteq links
    BY <1>3 DEF LinkExpires, ForgetProfile, Demote
  <2>2. /\ avatars' \in [Members -> Exts \cup {NoRow}] /\ owners' \subseteq owners
        /\ \A m \in Members : avatars'[m] \in {avatars[m], NoRow}
    BY <1>3 DEF LinkExpires, ForgetProfile, Demote, FitInv, TypeOK
  <2>3. QED
    BY <2>1, <2>2 DEF FitInv, TypeOK, RequestsFit, IdsFit, AvatarsShown, Shown, AvatarFits,
       FileFits, SeenFits, Existing, IsUpload
<1>4. ASSUME NEW m \in Members, ForgetLastOwner(m) PROVE FitInv'
  <2>1. /\ org /\ ~ org' /\ gone' = rows /\ links' = {} /\ owners' = {}
        /\ rows' = [f \in Files |-> NoRow]
        /\ UNCHANGED <<objects, avatars, request, minted, torn, raced>>
    BY <1>4 DEF ForgetLastOwner, FitInv, TypeOK
  <2>2. Existing' = {}
    BY <2>1 DEF Existing
  <2>3. TypeOK'
    BY <2>1, <1>4 DEF ForgetLastOwner, FitInv, TypeOK
  <2>4. RequestsFit'
    <3>1. ASSUME NEW q \in Requests, request'[q] # NoRow
          PROVE  /\ request'[q].kind = "avatar" => AvatarFits(q)'
                 /\ request'[q].kind # "avatar" => FileFits(q)'
                 /\ request'[q].kind \in Changes => SeenFits(q)'
      BY <2>1, <2>2, <3>1, StaysFit
    <3>2. QED
      BY <3>1 DEF RequestsFit
  <2>5. IdsFit'
    <3>1. ASSUME NEW q \in Requests, IsUpload(q)'
          PROVE  /\ request'[q].file \notin Existing' /\ gone'[request'[q].file] = NoRow
                 /\ \A p \in Requests \ {q} : request'[p] # NoRow => request'[p].file # request'[q].file
      <4>1. IsUpload(q) /\ FileFits(q)
        BY <2>1, <3>1 DEF IsUpload, FitInv, RequestsFit, Uploads
      <4>2. QED
        BY <2>1, <2>2, <4>1 DEF FitInv, IdsFit, Existing, FileFits
    <3>2. QED
      BY <2>1, <2>2, <3>1 DEF FitInv, IdsFit
  <2>6. QED
    BY <2>1, <2>3, <2>4, <2>5 DEF FitInv, AvatarsShown, Shown
<1>5. QED
  BY <1>1, <1>2, <1>3, <1>4, FitChecked, FitMinted, FitAvatars DEF Next

(* Type correctness: what requests, rows, objects and avatars may hold.      *)
THEOREM TypeCorrect == Spec => []TypeOK
<1>1. FitInv => TypeOK
  BY DEF FitInv
<1>2. QED
  BY <1>1, FitInit, FitNext, PTL DEF Spec

----------------------------------------------------------------------------
(* The bytes of a file.  What a step leaves alone stays as it was: the row,  *)
(* the bytes and the requests that have called Storage for the file.         *)
LEMMA BytesFrame ==
  ASSUME FitInv, FitInv', NEW f \in Files, Contested(f) \/ BytesFit(f),
         rows'[f] = rows[f], gone'[f] = gone[f], BytesOf(f)' = BytesOf(f),
         \A q \in Requests :
           \/ request'[q] = request[q]
           \/ ~ Wrote(q, f) /\ ~ Uploaded(q, f) /\ ~ Wrote(q, f)' /\ ~ Uploaded(q, f)'
  PROVE  Contested(f)' \/ BytesFit(f)'
<1>1. (f \in Existing' <=> f \in Existing) /\ LastRow(f)' = LastRow(f)
  BY DEF Existing, LastRow
<1>2. \A q \in Requests :
        /\ Wrote(q, f)' <=> Wrote(q, f)
        /\ Uploaded(q, f)' <=> Uploaded(q, f)
        /\ Wrote(q, f) \/ Uploaded(q, f) => request'[q] = request[q]
  BY DEF Wrote, Uploaded, IsChange, IsUpload
<1>3. CASE Contested(f)
  BY <1>1, <1>2, <1>3 DEF Contested
<1>4. CASE BytesFit(f)
  BY <1>1, <1>2, <1>4 DEF BytesFit, NewPath
<1>5. QED
  BY <1>3, <1>4

LEMMA BytesInit == Init => BytesInv
  BY DEF Init, BytesInv, BytesFit, BytesOf, LastRow, Wrote, Uploaded, IsUpload, IsChange, Existing

(* A request that is refused leaves everything as it was.                    *)
LEMMA BytesRefused ==
  ASSUME FitInv, FitInv', NEW f \in Files, Contested(f) \/ BytesFit(f),
         NEW r \in Requests, request[r] # NoRow, request[r].at = "checked", Refused(r)
  PROVE  Contested(f)' \/ BytesFit(f)'
<1>1. /\ request'[r] = NoRow /\ \A q \in Requests \ {r} : request'[q] = request[q]
      /\ UNCHANGED <<rows, gone, objects>>
  BY ClosedTyped DEF Refused, FitInv
<1>2. ~ Wrote(r, f) /\ ~ Uploaded(r, f) /\ ~ Wrote(r, f)' /\ ~ Uploaded(r, f)'
  BY <1>1 DEF Wrote, Uploaded, IsChange, IsUpload
<1>3. QED
  BY <1>1, <1>2, BytesFrame DEF BytesOf

(* Storage takes a new file's bytes, and the row that names them follows.    *)
LEMMA BytesUpload ==
  ASSUME FitInv, FitInv', BytesInv, NEW r \in Requests,
         (UploadObject(r) /\ Permitted(r)) \/ InsertRow(r),
         NEW f \in Files \ torn', request[r].file = f
  PROVE  Contested(f)' \/ BytesFit(f)'
<1>1. request[r] # NoRow /\ IsUpload(r) /\ torn' = torn
  BY DEF UploadObject, InsertRow, At, IsUpload, Uploads
<1>2. /\ f \notin Existing /\ gone[f] = NoRow
      /\ \A q \in Requests \ {r} : ~ Wrote(q, f) /\ ~ Uploaded(q, f)
  BY <1>1 DEF FitInv, IdsFit, Wrote, Uploaded, IsChange, IsUpload
<1>3. ~ Wrote(r, f)
  BY <1>1 DEF Wrote, IsChange, IsUpload, Changes, Uploads
<1>4. BytesFit(f)
  BY <1>1, <1>2, <1>3 DEF BytesInv, Contested
<1>5. CASE UploadObject(r) /\ Permitted(r)
  <2>1. /\ request'[r] # NoRow /\ request'[r].at = "stored"
        /\ request'[r].kind = request[r].kind /\ request'[r].file = f
        /\ request'[r].name = request[r].name
        /\ \A q \in Requests \ {r} : request'[q] = request[q]
    BY <1>1, <1>5, StoredTyped DEF UploadObject, FitInv
  <2>2. ~ Uploaded(r, f)
    BY <1>5 DEF UploadObject, At, Uploaded
  <2>3. BytesOf(f) = {}
    BY <1>2, <1>3, <1>4, <2>2 DEF BytesFit, LastRow
  <2>4. BytesOf(f)' = {NewPath(r)} /\ NewPath(r)' = NewPath(r)
    BY <1>5, <2>1, <2>3 DEF UploadObject, BytesOf, NewPath, StoragePath
  <2>5. Uploaded(r, f)' /\ \A q \in Requests : ~ Wrote(q, f)'
    BY <1>1, <1>2, <2>1 DEF Uploaded, Wrote, IsChange, IsUpload, Changes, Uploads
  <2>6. \A q \in Requests \ {r} : ~ Uploaded(q, f)'
    BY <1>2, <2>1 DEF Uploaded, IsUpload
  <2>7. QED
    BY <2>4, <2>5, <2>6 DEF BytesFit
<1>6. CASE InsertRow(r)
  <2>1. request'[r] = NoRow /\ \A q \in Requests \ {r} : request'[q] = request[q]
    BY <1>6, ClosedTyped DEF InsertRow, FitInv
  <2>2. Uploaded(r, f)
    BY <1>1, <1>6 DEF InsertRow, At, Uploaded
  <2>3. BytesOf(f)' = {NewPath(r)}
    BY <1>4, <1>6, <2>2 DEF BytesFit, BytesOf, InsertRow
  <2>4. \A q \in Requests : ~ Wrote(q, f)' /\ ~ Uploaded(q, f)'
    BY <1>2, <2>1 DEF Uploaded, Wrote, IsChange, IsUpload
  <2>5. rows'[f] = NewRow(r)
    BY <1>6 DEF InsertRow, FitInv, TypeOK
  <2>6. FileFits(r) /\ request[r].by \in Members
    BY <1>1 DEF FitInv, RequestsFit, IsUpload, Uploads, TypeOK, Pending
  <2>7. NewRow(r) \in Row /\ NewRow(r).name = request[r].name
    BY <2>6 DEF NewRow, Row, FileFits
  <2>8. LastRow(f)' = rows'[f] /\ rows'[f] # NoRow
    BY <2>5, <2>7, FileStoreAssumption DEF Existing, LastRow
  <2>9. QED
    BY <2>3, <2>4, <2>5, <2>7, <2>8 DEF BytesFit, NewPath, StoragePath
<1>7. QED
  BY <1>5, <1>6

(* Storage removes or moves the bytes of a row that was checked, or lets a   *)
(* removal after the organization's end go by: either the row has not moved  *)
(* on and nobody else has called, or the file is contested.                  *)
LEMMA BytesCalled ==
  ASSUME FitInv, FitInv', BytesInv, NEW r \in Requests, IsChange(r), request[r].at = "checked",
         Stored(r), NEW f \in Files \ torn, request[r].file = f, UNCHANGED rows,
         \/ /\ request[r].kind = "delete"
            /\ org => objects' = objects \ {OldPath(r)}
         \/ /\ request[r].kind = "rename"
            /\ objects' = (objects \ {OldPath(r)}) \cup {NewPath(r)}
  PROVE  Contested(f)' \/ BytesFit(f)'
<1>1. /\ request'[r] # NoRow /\ request'[r].at = "stored"
      /\ request'[r].kind = request[r].kind /\ request'[r].file = f
      /\ request'[r].name = request[r].name /\ request'[r].seen = request[r].seen
      /\ \A q \in Requests \ {r} : request'[q] = request[q]
  BY StoredTyped DEF FitInv, IsChange
<1>2. Wrote(r, f)' /\ (f \in Existing' <=> f \in Existing)
  BY <1>1 DEF Wrote, IsChange, Existing
<1>3. SUFFICES ASSUME ~ Contested(f)' PROVE BytesFit(f)'
  OBVIOUS
<1>4. \A q \in Requests \ {r} : ~ Wrote(q, f) /\ ~ Wrote(q, f)'
  BY <1>1, <1>2, <1>3 DEF Contested, Wrote, IsChange
<1>5. f \in Existing /\ request[r].seen.version = rows[f].version
  BY <1>1, <1>3 DEF Contested, Wrote, IsChange, Existing
<1>6. request[r].seen.name = rows[f].name
  BY <1>5 DEF FitInv, RequestsFit, SeenFits, IsChange
<1>7. \A q \in Requests : ~ Uploaded(q, f) /\ ~ Uploaded(q, f)'
  BY <1>1, <1>5 DEF FitInv, IdsFit, Uploaded, IsUpload, IsChange, Changes, Uploads, Existing
<1>8. ~ Wrote(r, f)
  BY DEF Wrote
<1>9. BytesFit(f)
  BY <1>4, <1>8 DEF BytesInv, Contested
<1>10. BytesOf(f) = {OldPath(r)}
  BY <1>4, <1>5, <1>6, <1>7, <1>8, <1>9 DEF BytesFit, OldPath, StoragePath, LastRow, Existing
<1>11. BytesOf(f)' = IF request[r].kind = "delete" THEN {} ELSE {NewPath(r)}
  BY <1>5, <1>10 DEF FitInv, IdsFit, BytesOf, NewPath, StoragePath
<1>12. NewPath(r)' = NewPath(r)
  BY <1>1 DEF NewPath, StoragePath
<1>13. \A q \in Requests : Wrote(q, f)' => q = r
  BY <1>4
<1>14. BytesOf(f)' = IF request'[r].kind = "delete" THEN {} ELSE {NewPath(r)'}
  BY <1>1, <1>11, <1>12
<1>15. Wrote(r, f)'
  BY <1>1 DEF Wrote, IsChange
<1>16. QED
  BY <1>7, <1>13, <1>14, <1>15 DEF BytesFit

(* The one request that can still commit does: its row says what it wrote,   *)
(* and any other that called Storage for the file is left with an old row.   *)
LEMMA BytesCommitted ==
  ASSUME FitInv, FitInv', BytesInv, NEW r \in Requests, DeleteRow(r) \/ RenameRow(r),
         NEW f \in Files \ torn', request[r].file = f
  PROVE  Contested(f)' \/ BytesFit(f)'
<1>1. /\ IsChange(r) /\ Wrote(r, f) /\ Writable(r) /\ torn' = torn /\ objects' = objects
      /\ f \in Existing /\ request[r].seen.version = rows[f].version
  BY DEF DeleteRow, RenameRow, At, IsChange, Wrote, Changes, Writable
<1>2. request'[r] = NoRow /\ \A q \in Requests \ {r} : request'[q] = request[q]
  BY ClosedTyped DEF DeleteRow, RenameRow, FitInv
<1>3. rows[f] \in Row /\ rows[f].version \in Nat
  BY <1>1 DEF Existing, FitInv, TypeOK, Row
<1>4. FileFits(r)
  BY <1>1 DEF FitInv, RequestsFit, IsChange, Changes
<1>5. \/ DeleteRow(r) /\ request[r].kind = "delete" /\ f \notin Existing'
      \/ /\ RenameRow(r) /\ request[r].kind = "rename" /\ f \in Existing'
         /\ rows'[f].version = rows[f].version + 1 /\ rows'[f].name = request[r].name
  <2>1. CASE DeleteRow(r)
    BY <2>1 DEF DeleteRow, At, Existing, FitInv, TypeOK
  <2>2. CASE RenameRow(r)
    <3>1. rows'[f] = Renamed(rows[f], request[r].name)
      BY <2>2 DEF RenameRow, FitInv, TypeOK
    <3>2. rows'[f] \in Row /\ rows'[f].version = rows[f].version + 1 /\ rows'[f].name = request[r].name
      BY <1>3, <1>4, <3>1, RenamedRow DEF FileFits
    <3>3. QED
      BY <2>2, <3>2, FileStoreAssumption DEF RenameRow, At, Existing
  <2>3. QED
    BY <2>1, <2>2
<1>6. ASSUME NEW q \in Requests \ {r}, Wrote(q, f) PROVE Contested(f)'
  <2>1. Wrote(q, f)' /\ request'[q].seen = request[q].seen
    BY <1>2, <1>6 DEF Wrote, IsChange
  <2>2. SeenFits(q) /\ request[q].file = f /\ request[q].seen.version \in Nat
    BY <1>6 DEF Wrote, IsChange, FitInv, RequestsFit, SeenFits, Row
  <2>3. request[q].seen.version <= rows[f].version
    BY <1>1, <2>2 DEF SeenFits
  <2>4. f \notin Existing' \/ request'[q].seen.version # rows'[f].version
    BY <1>3, <1>5, <2>1, <2>2, <2>3
  <2>5. QED
    BY <2>1, <2>4 DEF Contested
<1>7. ASSUME \A q \in Requests \ {r} : ~ Wrote(q, f) PROVE BytesFit(f)'
  <2>1. BytesFit(f)
    BY <1>1, <1>7 DEF BytesInv, Contested
  <2>2. BytesOf(f)' = IF request[r].kind = "delete" THEN {} ELSE {NewPath(r)}
    BY <1>1, <2>1 DEF BytesFit, BytesOf
  <2>3. \A q \in Requests : ~ Wrote(q, f)' /\ ~ Uploaded(q, f)'
    BY <1>1, <1>2, <1>7 DEF Wrote, Uploaded, IsChange, IsUpload, FitInv, IdsFit
  <2>4. gone'[f] = NoRow
    BY <1>1, <1>5 DEF DeleteRow, RenameRow, FitInv, IdsFit
  <2>5. QED
    BY <1>5, <2>2, <2>3, <2>4 DEF BytesFit, LastRow, Existing, NewPath, StoragePath
<1>8. QED
  BY <1>6, <1>7

LEMMA BytesNext == FitInv /\ FitInv' /\ BytesInv /\ [Next]_vars => BytesInv'
<1> SUFFICES ASSUME FitInv, FitInv', BytesInv, [Next]_vars, NEW f \in Files \ torn'
             PROVE  Contested(f)' \/ BytesFit(f)'
  BY DEF BytesInv
<1>1. torn \subseteq torn'
  BY DEF Next, vars, UploadObject, InsertRow, RemoveObject, DeleteRow, MoveObject, Refused,
     RenameRow, ShareRow, SetAvatarPath, CommitFails, Tear, AvatarUpload, DeleteCheck,
     ShareCheck, UploadCheck, SeedCheck, RenameCheck, LinkExpires, ForgetProfile, Demote, ForgetLastOwner
<1>2. f \notin torn /\ (Contested(f) \/ BytesFit(f))
  BY <1>1 DEF BytesInv
<1>3. ASSUME NEW r \in Requests,
             UploadObject(r) \/ InsertRow(r) \/ RemoveObject(r) \/ DeleteRow(r)
               \/ MoveObject(r) \/ RenameRow(r)
      PROVE  Contested(f)' \/ BytesFit(f)'
  <2>0. /\ request[r] # NoRow /\ request[r].kind \in Uploads \cup Changes
        /\ request[r].file \in Files
        /\ \A q \in Requests \ {r} : request'[q] = request[q]
        /\ request'[r] # NoRow => request'[r].file = request[r].file
    <3>1. request[r] # NoRow /\ request[r].kind \in Uploads \cup Changes
      BY <1>3 DEF UploadObject, InsertRow, RemoveObject, DeleteRow, MoveObject, RenameRow, At,
         Uploads, Changes
    <3>2. Stored(r) \/ Close(r)
      BY <1>3 DEF UploadObject, InsertRow, RemoveObject, DeleteRow, MoveObject, RenameRow, Refused
    <3>3. QED
      BY <3>1, <3>2, StoredTyped, ClosedTyped
      DEF FitInv, RequestsFit, FileFits, Uploads, Changes
  <2>1. CASE request[r].file # f
    <3>1. \A q \in Requests :
            \/ request'[q] = request[q]
            \/ ~ Wrote(q, f) /\ ~ Uploaded(q, f) /\ ~ Wrote(q, f)' /\ ~ Uploaded(q, f)'
      BY <2>0, <2>1 DEF Wrote, Uploaded, IsChange, IsUpload
    <3>2. rows'[f] = rows[f] /\ gone'[f] = gone[f]
      BY <1>3, <2>0, <2>1
      DEF UploadObject, InsertRow, RemoveObject, DeleteRow, MoveObject, RenameRow, Refused,
          FitInv, TypeOK
    <3>3. BytesOf(f)' = BytesOf(f)
      BY <1>3, <2>0, <2>1
      DEF UploadObject, InsertRow, RemoveObject, DeleteRow, MoveObject, RenameRow, Refused,
          BytesOf, StoragePath, OldPath, NewPath
    <3>4. QED
      BY <1>2, <3>1, <3>2, <3>3, BytesFrame
  <2>2. CASE request[r].file = f
    <3>1. CASE UploadObject(r) \/ InsertRow(r)
      <4>1. CASE UploadObject(r) /\ ~ Permitted(r)
        BY <1>2, <2>0, <4>1, BytesRefused DEF UploadObject, At
      <4>2. CASE UploadObject(r) /\ Permitted(r)
        BY <2>2, <4>2, BytesUpload
      <4>3. CASE InsertRow(r)
        BY <2>2, <4>3, BytesUpload
      <4>4. QED
        BY <3>1, <4>1, <4>2, <4>3
    <3>2. CASE DeleteRow(r) \/ RenameRow(r)
      BY <2>2, <3>2, BytesCommitted
    <3>3. CASE RemoveObject(r)
      BY <1>2, <2>0, <2>2, <3>3, BytesCalled
      DEF RemoveObject, At, IsChange, Changes, OldPath, Permitted
    <3>4. CASE MoveObject(r) /\ Refused(r)
      BY <1>2, <2>0, <3>4, BytesRefused DEF MoveObject, At
    <3>5. CASE MoveObject(r) /\ ~ Refused(r)
      BY <1>2, <2>0, <2>2, <3>5, BytesCalled DEF MoveObject, At, IsChange, Changes
    <3>6. QED
      BY <1>3, <3>1, <3>2, <3>3, <3>4, <3>5
  <2>3. QED
    BY <2>1, <2>2
<1>4. ASSUME NEW r \in Requests, CommitFails(r) PROVE Contested(f)' \/ BytesFit(f)'
  <2>1. /\ request[r].file # f /\ UNCHANGED <<rows, gone, objects>>
        /\ request'[r] = NoRow /\ \A q \in Requests \ {r} : request'[q] = request[q]
    BY <1>4, ClosedTyped DEF CommitFails, Tear, FitInv
  <2>2. ~ Wrote(r, f) /\ ~ Uploaded(r, f) /\ ~ Wrote(r, f)' /\ ~ Uploaded(r, f)'
    BY <2>1 DEF Wrote, Uploaded, IsChange, IsUpload
  <2>3. QED
    BY <1>2, <2>1, <2>2, BytesFrame DEF BytesOf
<1>5. ASSUME NEW r \in Requests,
             \/ SetAvatarPath(r) \/ ShareRow(r)
             \/ \E m \in Members, ext \in Exts : AvatarUpload(r, m, ext)
      PROVE  Contested(f)' \/ BytesFit(f)'
  <2>1. /\ \A q \in Requests \ {r} : request'[q] = request[q]
        /\ ~ Wrote(r, f) /\ ~ Uploaded(r, f) /\ ~ Wrote(r, f)' /\ ~ Uploaded(r, f)'
    <3>1. CASE SetAvatarPath(r) \/ ShareRow(r)
      BY <3>1, ClosedTyped DEF SetAvatarPath, ShareRow, At, Wrote, Uploaded, IsChange, IsUpload,
         Changes, Uploads, FitInv
    <3>2. CASE \E m \in Members, ext \in Exts : AvatarUpload(r, m, ext)
      BY <3>2 DEF AvatarUpload, Wrote, Uploaded, IsChange, IsUpload, Changes, Uploads, FitInv, TypeOK
    <3>3. QED
      BY <1>5, <3>1, <3>2
  <2>2. rows' = rows /\ gone' = gone /\ BytesOf(f)' = BytesOf(f)
    BY <1>5, FileStoreAssumption DEF SetAvatarPath, ShareRow, AvatarUpload, BytesOf, StoragePath
  <2>3. QED
    BY <1>2, <2>1, <2>2, BytesFrame
<1>6. ASSUME NEW r \in Requests, NEW m \in Members, NEW g \in Files,
             \/ DeleteCheck(r, m, g) \/ ShareCheck(r, m, g)
             \/ \E name \in Names : UploadCheck(r, m, g, name) \/ SeedCheck(r, m, g, name)
                                    \/ RenameCheck(r, m, g, name)
      PROVE  Contested(f)' \/ BytesFit(f)'
  <2>1. UNCHANGED <<rows, gone, objects>>
    BY <1>6 DEF DeleteCheck, ShareCheck, UploadCheck, SeedCheck, RenameCheck
  <2>2. PICK kind \in Uploads \cup Changes \cup {"share"}, name \in Names : Open(r, kind, g, m, name)
    BY <1>6 DEF DeleteCheck, ShareCheck, UploadCheck, SeedCheck, RenameCheck, Uploads, Changes,
       FitInv, TypeOK, Row, Existing
  <2>3. /\ request[r] = NoRow /\ request'[r].at = "checked"
        /\ \A q \in Requests \ {r} : request'[q] = request[q]
    <3>1. name \in Names \cup Exts
      OBVIOUS
    <3>2. /\ request[r] = NoRow
          /\ request'[r] = [kind |-> kind, at |-> "checked", file |-> g, by |-> m,
                            name |-> name, seen |-> rows[g]]
          /\ \A q \in Requests \ {r} : request'[q] = request[q]
      BY <1>6, <2>2, <3>1, OpenedTyped DEF FitInv
    <3>3. QED
      BY <3>2
  <2>4. ~ Wrote(r, f) /\ ~ Uploaded(r, f) /\ ~ Wrote(r, f)' /\ ~ Uploaded(r, f)'
    BY <2>3 DEF Wrote, Uploaded, IsChange, IsUpload
  <2>5. QED
    BY <1>2, <2>1, <2>3, <2>4, BytesFrame DEF BytesOf
<1>7. CASE \/ UNCHANGED vars
           \/ \E g \in Files : LinkExpires(g)
           \/ \E m \in Members : ForgetProfile(m) \/ Demote(m)
  BY <1>2, <1>7, BytesFrame DEF vars, LinkExpires, ForgetProfile, Demote, BytesOf
<1>8. ASSUME NEW m \in Members, ForgetLastOwner(m) PROVE Contested(f)' \/ BytesFit(f)'
  <2>1. /\ org /\ gone' = rows /\ rows' = [g \in Files |-> NoRow]
        /\ UNCHANGED <<objects, request>>
    BY <1>8 DEF ForgetLastOwner
  <2>2. Existing' = {} /\ gone[f] = NoRow
    BY <2>1 DEF Existing, FitInv, IdsFit
  <2>3. CASE \E q \in Requests : Wrote(q, f)
    BY <2>1, <2>2, <2>3 DEF Contested, Wrote, IsChange
  <2>4. CASE \A q \in Requests : ~ Wrote(q, f)
    <3>1. BytesFit(f)
      BY <1>2, <2>4 DEF Contested
    <3>2. LastRow(f)' = LastRow(f)
      BY <2>1, <2>2 DEF LastRow, Existing
    <3>3. BytesFit(f)'
      BY <2>1, <2>4, <3>1, <3>2
      DEF BytesFit, BytesOf, Wrote, Uploaded, IsChange, IsUpload, NewPath
    <3>4. QED
      BY <3>3
  <2>5. QED
    BY <2>3, <2>4
<1>9. QED
  <2>1. CASE Next
    BY <1>3, <1>4, <1>5, <1>6, <1>7, <1>8, <2>1 DEF Next
  <2>2. QED
    BY <1>7, <2>1

LEMMA StoreHolds == FitInv /\ BytesInv => StoreMatchesRows
<1> SUFFICES ASSUME FitInv, BytesInv PROVE StoreMatchesRows
  OBVIOUS
<1>1. ASSUME NEW f \in Settled
      PROVE  BytesOf(f) = IF LastRow(f) = NoRow THEN {} ELSE {StoragePath(f, LastRow(f).name)}
  <2>1. f \in Files \ torn
    BY <1>1 DEF Settled
  <2>2. \A r \in Requests : ~ Wrote(r, f) /\ ~ Uploaded(r, f)
    BY <1>1 DEF Settled, InFlight, Wrote, Uploaded, IsChange, IsUpload, Changes, Uploads
  <2>3. BytesFit(f)
    BY <2>1, <2>2 DEF BytesInv, Contested
  <2>4. QED
    BY <2>2, <2>3 DEF BytesFit
<1>2. \A f \in links \cap Settled : Served(f)
  BY <1>1 DEF Served, BytesOf, LastRow, Existing, FitInv, IdsFit
<1>3. QED
  BY <1>1, <1>2 DEF StoreMatchesRows, BytesOf, FitInv, IdsFit, AvatarsShown

(* Storage and the rows agree: whatever requests overlap, however commits    *)
(* fail, and whenever the organization is deleted with its rows, a file      *)
(* nobody is changing and no request left half done holds its bytes under    *)
(* the name its row says, or said when it went with the organization, and    *)
(* nowhere else; a live link leads to a row, an avatar path to an image.     *)
THEOREM StoreMatches == Spec => []StoreMatchesRows
  BY FitInit, BytesInit, FitNext, BytesNext, StoreHolds, PTL DEF Spec

----------------------------------------------------------------------------
(* The quota.                                                              *)
SumStep(R, S, g) ==
  [s \in SUBSET S |-> IF s = {} THEN 0 ELSE LET x == CHOOSE x \in s : TRUE
                                            IN  R[x].size + g[s \ {x}]]

(* The library sums by a recursive function over the subsets; counting them  *)
(* is a solution of its equation, and by induction on the subsets the only   *)
(* one: a sum of ones is a number of elements.                               *)
LEMMA SumOfOnes ==
  ASSUME NEW S, IsFiniteSet(S), NEW R, \A f \in S : R[f].size = 1
  PROVE  (CHOOSE g : g = SumStep(R, S, g))[S] = Cardinality(S)
<1> DEFINE count == [s \in SUBSET S |-> Cardinality(s)]
           sum == CHOOSE g : g = SumStep(R, S, g)
<1>1. \A s \in SUBSET S : IsFiniteSet(s) /\ Cardinality(s) \in Nat
  BY FS_Subset, FS_CardinalityType
<1>2. \A s \in SUBSET S : s # {} =>
        LET x == CHOOSE x \in s : TRUE
        IN  /\ x \in s /\ s \ {x} \in SUBSET S
            /\ Cardinality(s) = 1 + Cardinality(s \ {x})
  <2> SUFFICES ASSUME NEW s \in SUBSET S, s # {}, NEW x, x = CHOOSE y \in s : TRUE
               PROVE  /\ x \in s /\ s \ {x} \in SUBSET S
                      /\ Cardinality(s) = 1 + Cardinality(s \ {x})
    OBVIOUS
  <2>1. x \in s
    OBVIOUS
  <2>2. s \ {x} \in SUBSET S
    OBVIOUS
  <2>3. Cardinality(s \ {x}) = Cardinality(s) - 1
    BY <1>1, <2>1, FS_RemoveElement
  <2>4. QED
    BY <1>1, <2>1, <2>2, <2>3
<1>3. \A s \in SUBSET S : count[s] = SumStep(R, S, count)[s]
  <2> SUFFICES ASSUME NEW s \in SUBSET S PROVE count[s] = SumStep(R, S, count)[s]
    OBVIOUS
  <2>1. CASE s = {}
    BY <2>1, FS_EmptySet DEF SumStep
  <2>2. CASE s # {}
    <3> DEFINE x == CHOOSE x \in s : TRUE
    <3>1. x \in S /\ s \ {x} \in SUBSET S /\ Cardinality(s) = 1 + Cardinality(s \ {x})
      BY <1>2, <2>2
    <3>2. SumStep(R, S, count)[s] = R[x].size + count[s \ {x}]
      BY <2>2 DEF SumStep
    <3>3. QED
      BY <3>1, <3>2
  <2>3. QED
    BY <2>1, <2>2
<1>4. count = SumStep(R, S, count)
  BY <1>3 DEF SumStep
<1>5. sum = SumStep(R, S, sum)
  BY <1>4
<1> HIDE DEF sum
<1>6. \A s \in SUBSET S : sum[s] = Cardinality(s)
  <2> DEFINE Bad == {s \in SUBSET S : sum[s] # Cardinality(s)}
  <2> SUFFICES ASSUME Bad # {} PROVE FALSE
    OBVIOUS
  <2>1. IsWellFoundedOn(StrictSubsetOrdering(S), SUBSET S)
    BY FS_StrictSubsetOrderingWellFounded, FS_FiniteSubsetsOfFinite
  <2>2. PICK s \in Bad : \A t \in Bad : ~ (<<t, s>> \in StrictSubsetOrdering(S))
    BY <2>1, WFMin
  <2>3. CASE s = {}
    BY <1>5, <2>2, <2>3, FS_EmptySet DEF SumStep
  <2>4. CASE s # {}
    <3> DEFINE x == CHOOSE x \in s : TRUE
    <3>1. /\ x \in s /\ x \in S /\ s \ {x} \in SUBSET S
          /\ Cardinality(s) = 1 + Cardinality(s \ {x})
      BY <1>2, <2>2, <2>4
    <3>2. SumStep(R, S, sum)[s] = R[x].size + sum[s \ {x}]
      BY <2>2, <2>4 DEF SumStep
    <3>3. <<s \ {x}, s>> \in StrictSubsetOrdering(S)
      BY <2>2, <3>1 DEF StrictSubsetOrdering
    <3>4. sum[s \ {x}] = Cardinality(s \ {x})
      BY <2>2, <3>1, <3>3
    <3>5. QED
      BY <1>5, <2>2, <3>1, <3>2, <3>4
  <2>5. QED
    BY <2>3, <2>4
<1>7. sum[S] = Cardinality(S)
  BY <1>6
<1>8. QED
  BY <1>7 DEF sum

\* An upload checked and not yet inserted counts as one file.
Coming == IF \E r \in Requests : IsUpload(r) THEN 1 ELSE 0

LEMMA TotalIsCount ==
  ASSUME FitInv, IsFiniteSet(minted)
  PROVE  /\ IsFiniteSet(Existing) /\ Cardinality(Existing) \in Nat
         /\ TotalSize = Cardinality(Existing)
<1>1. IsFiniteSet(Existing) /\ Cardinality(Existing) \in Nat
  BY FS_Subset, FS_CardinalityType DEF FitInv, IdsFit
<1>2. \A f \in Existing : rows[f].size = 1
  BY DEF Existing, FitInv, TypeOK, Row
<1>3. TotalSize = (CHOOSE g : g = SumStep(rows, Existing, g))[Existing]
  BY DEF TotalSize, MapThenSumSet, MapThenFoldSet, SumStep
<1>4. QED
  BY <1>1, <1>2, <1>3, SumOfOnes

LEMMA QuotaInit == Init => QuotaInv
<1> SUFFICES ASSUME Init PROVE QuotaInv
  OBVIOUS
<1>1. Existing = {} /\ minted = {} /\ \A r \in Requests : ~ IsUpload(r)
  BY DEF Init, Existing, IsUpload
<1>2. QED
  BY <1>1, FS_EmptySet, FileStoreAssumption DEF QuotaInv

(* A step that lets no upload in and at most turns one into its row.         *)
LEMMA QuotaFrame ==
  ASSUME FitInv, QuotaInv, minted' = minted, raced' = raced,
         \A r \in Requests : IsUpload(r)' => IsUpload(r),
         \/ Existing' \subseteq Existing
         \/ \E r \in Requests : /\ IsUpload(r) /\ ~ IsUpload(r)'
                               /\ Existing' = Existing \cup {request[r].file}
  PROVE  QuotaInv'
<1> SUFFICES ASSUME ~ raced
             PROVE  /\ \A r, q \in Requests : IsUpload(r)' /\ IsUpload(q)' => r = q
                    /\ Cardinality(Existing') + Coming' <= Quota
  BY DEF QuotaInv, Coming
<1>1. IsFiniteSet(Existing) /\ Cardinality(Existing) \in Nat
  BY TotalIsCount DEF QuotaInv
<1>2. Cardinality(Existing) + Coming <= Quota
  BY DEF QuotaInv, Coming
<1>3. \A r, q \in Requests : IsUpload(r) /\ IsUpload(q) => r = q
  BY DEF QuotaInv
<1>4. CASE Existing' \subseteq Existing
  <2>1. Cardinality(Existing') \in Nat /\ Cardinality(Existing') <= Cardinality(Existing)
    BY <1>1, <1>4, FS_Subset, FS_CardinalityType
  <2>2. Coming' <= Coming /\ Coming \in 0 .. 1 /\ Coming' \in 0 .. 1
    BY DEF Coming
  <2>3. QED
    BY <1>1, <1>2, <1>3, <2>1, <2>2, FileStoreAssumption
<1>5. ASSUME NEW r \in Requests, IsUpload(r), ~ IsUpload(r)',
             Existing' = Existing \cup {request[r].file}
      PROVE  Cardinality(Existing') + Coming' <= Quota
  <2>1. Coming = 1 /\ Coming' = 0
    BY <1>3, <1>5 DEF Coming
  <2>2. request[r].file \notin Existing
    BY <1>5 DEF FitInv, IdsFit
  <2>3. Cardinality(Existing') = Cardinality(Existing) + 1
    BY <1>1, <1>5, <2>2, FS_AddElement
  <2>4. QED
    BY <1>1, <1>2, <2>1, <2>3, FileStoreAssumption
<1>6. QED
  BY <1>3, <1>4, <1>5

LEMMA QuotaNext == FitInv /\ FitInv' /\ QuotaInv /\ [Next]_vars => QuotaInv'
<1> SUFFICES ASSUME FitInv, FitInv', QuotaInv, [Next]_vars PROVE QuotaInv'
  OBVIOUS
<1>1. ASSUME NEW r \in Requests, NEW m \in Members, NEW f \in Files, NEW name \in Names,
             UploadCheck(r, m, f, name) \/ SeedCheck(r, m, f, name)
      PROVE  QuotaInv'
  <2>1. IsFiniteSet(minted')
    BY <1>1, FS_AddElement DEF UploadCheck, SeedCheck, QuotaInv
  <2>2. CASE raced'
    BY <2>1, <2>2 DEF QuotaInv
  <2>3. CASE ~ raced'
    <3>1. UploadCheck(r, m, f, name) /\ ~ raced /\ InFlight(Uploads) = {}
      BY <1>1, <2>3 DEF UploadCheck, SeedCheck, Uploads
    <3>2. rows' = rows /\ TotalSize + 1 <= Quota
      BY <3>1 DEF UploadCheck, WithinQuota
    <3>3. Cardinality(Existing) \in Nat /\ TotalSize = Cardinality(Existing)
      BY TotalIsCount DEF QuotaInv
    <3>4. \A q \in Requests : ~ IsUpload(q)
      BY <3>1 DEF InFlight, IsUpload
    <3>5. \A q \in Requests \ {r} : request'[q] = request[q]
      BY <3>1, OpenedTyped DEF UploadCheck, Open, FitInv, TypeOK
    <3>6. \A q \in Requests : IsUpload(q)' => q = r
      BY <3>4, <3>5 DEF IsUpload
    <3>7. Existing' = Existing
      BY <3>2 DEF Existing
    <3>8. QED
      BY <2>1, <3>2, <3>3, <3>6, <3>7, FileStoreAssumption DEF QuotaInv
  <2>4. QED
    BY <2>2, <2>3
<1>2. ASSUME NEW r \in Requests, NEW m \in Members,
             \/ \E f \in Files : \/ DeleteCheck(r, m, f) \/ ShareCheck(r, m, f)
                               \/ \E name \in Names : RenameCheck(r, m, f, name)
             \/ \E ext \in Exts : AvatarUpload(r, m, ext)
      PROVE  QuotaInv'
  <2>1. UNCHANGED <<rows, minted, raced>>
    BY <1>2 DEF DeleteCheck, ShareCheck, RenameCheck, AvatarUpload
  <2>2. \A q \in Requests : IsUpload(q)' => IsUpload(q)
    BY <1>2 DEF DeleteCheck, ShareCheck, RenameCheck, AvatarUpload, Open, IsUpload, Uploads,
       FitInv, TypeOK
  <2>3. QED
    BY <2>1, <2>2, QuotaFrame DEF Existing
<1>3. ASSUME NEW r \in Requests,
             UploadObject(r) \/ InsertRow(r) \/ RemoveObject(r) \/ DeleteRow(r)
               \/ MoveObject(r) \/ RenameRow(r) \/ ShareRow(r) \/ SetAvatarPath(r)
               \/ CommitFails(r)
      PROVE  QuotaInv'
  <2>1. request[r] # NoRow /\ UNCHANGED <<minted, raced>>
    BY <1>3 DEF UploadObject, InsertRow, RemoveObject, DeleteRow, MoveObject, RenameRow, ShareRow,
       SetAvatarPath, CommitFails, Tear, Refused, At
  <2>2. Stored(r) \/ Close(r)
    BY <1>3 DEF UploadObject, InsertRow, RemoveObject, DeleteRow, MoveObject, RenameRow, ShareRow,
       SetAvatarPath, CommitFails, Tear, Refused
  <2>3. \A q \in Requests : IsUpload(q)' => IsUpload(q)
    BY <2>1, <2>2, StoredTyped, ClosedTyped DEF IsUpload, FitInv
  <2>4. CASE InsertRow(r)
    <3>1. IsUpload(r) /\ ~ IsUpload(r)' /\ FileFits(r) /\ request[r].by \in Members
      BY <2>4, ClosedTyped DEF InsertRow, At, IsUpload, Uploads, FitInv, RequestsFit, TypeOK, Pending
    <3>2. NewRow(r) # NoRow
      BY <3>1, FileStoreAssumption DEF NewRow, Row, FileFits
    <3>3. Existing' = Existing \cup {request[r].file}
      BY <2>4, <3>1, <3>2 DEF InsertRow, Existing, FitInv, TypeOK, FileFits
    <3>4. QED
      BY <2>1, <2>3, <3>1, <3>3, QuotaFrame
  <2>5. CASE ~ InsertRow(r)
    <3>1. Existing' \subseteq Existing
      BY <1>3, <2>5 DEF UploadObject, RemoveObject, DeleteRow, MoveObject, RenameRow, ShareRow,
         SetAvatarPath, CommitFails, Tear, Refused, Existing, FitInv, TypeOK, Writable
    <3>2. QED
      BY <2>1, <2>3, <3>1, QuotaFrame
  <2>6. QED
    BY <2>4, <2>5
<1>4. CASE \/ UNCHANGED vars
           \/ \E g \in Files : LinkExpires(g)
           \/ \E m \in Members : ForgetProfile(m) \/ Demote(m) \/ ForgetLastOwner(m)
  <2>1. UNCHANGED <<request, minted, raced>> /\ Existing' \subseteq Existing
    BY <1>4 DEF vars, LinkExpires, ForgetProfile, Demote, ForgetLastOwner, Existing
  <2>2. QED
    BY <2>1, QuotaFrame DEF IsUpload
<1>5. QED
  <2>1. CASE Next
    BY <1>1, <1>2, <1>3, <1>4, <2>1 DEF Next
  <2>2. QED
    BY <1>4, <2>1

(* The quota: unless a welcome file was seeded, or an upload was checked     *)
(* while another was on its way, the files an organization has add up to no  *)
(* more than it, however many come, go and fail.                             *)
THEOREM QuotaKept == Spec => []QuotaKeptUnlessRaced
<1>1. FitInv /\ QuotaInv => QuotaKeptUnlessRaced
  <2> SUFFICES ASSUME FitInv, QuotaInv, ~ raced PROVE TotalSize <= Quota
    BY DEF QuotaKeptUnlessRaced
  <2>1. Cardinality(Existing) \in Nat /\ TotalSize = Cardinality(Existing)
    BY TotalIsCount DEF QuotaInv
  <2>2. QED
    BY <2>1, FileStoreAssumption DEF QuotaInv
<1>2. QED
  BY <1>1, FitInit, QuotaInit, FitNext, QuotaNext, PTL DEF Spec
=============================================================================
